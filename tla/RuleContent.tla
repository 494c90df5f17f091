---------------------------- MODULE RuleContent ----------------------------
(* What rules say while it is written and while what they name comes and     *)
(* goes: creates and updates (internal/server/service.go) that read a row,   *)
(* validate, ask the Secrets service for each secret and the Networks        *)
(* service for the private resource, and then write the whole row; beside    *)
(* them Secrets and Networks, which ask this service how many rules name a   *)
(* secret or a resource before they let it go.                               *)
(*                                                                           *)
(* The two services are external: modelled from the requests this one makes  *)
(* of them and answers them.  A secret of another organization is a missing  *)
(* one.  OpenZiti and attachments are EgressServer's.                        *)
EXTENDS Validation

CONSTANTS RuleIds,
          Writers,    \* creates and updates in flight
          NewRules,   \* rules that creates send
          Changes,    \* parts that updates send, None for those they do not
          MaxWrites   \* bound: creates and updates received

ASSUME ContentAssumption ==
  /\ NewRules \subseteq RuleForm /\ Changes \subseteq RuleForm
  /\ SecretIds \cap ResourceIds = {}
  /\ None \notin {"http", "https", "tcp"}
  /\ MaxWrites \in Nat

VARIABLES content,    \* matcher, effect and upstream_tls of each stored rule
          writer,     \* the creates and updates in progress
          writes,     \* those received so far
          secrets,    \* the secrets there are
          resources,  \* the protocol of each private resource, None once gone
          counted,    \* by secret and resource about to go: the rules stored
                      \* under that name since the count; None otherwise
          minted,     \* rule ids used
          raced,      \* rules written while what they name was going
          turned      \* resources that turned from https to http

histories == <<minted, raced, turned>>
contentVars == <<content, writer, writes, secrets, resources, counted,
                 histories>>

Refs == SecretIds \cup ResourceIds

NoChange == [matcher |-> None, effect |-> None, tls |-> None]

IdleWriter == [at |-> "idle", rule |-> None, read |-> None,
               change |-> NoChange, content |-> None, todo |-> {}]

WriterSteps == {"idle", "secrets", "target", "write"}

ContentInit ==
  /\ content = [r \in RuleIds |-> None]
  /\ writer = [w \in Writers |-> IdleWriter]
  /\ writes = 0
  /\ secrets = SecretIds
  /\ resources \in [ResourceIds -> {"http", "https"}]
  /\ counted = [x \in Refs |-> None]
  /\ minted = {}
  /\ raced = {}
  /\ turned = {}

---------------------------------------------------------------------------
(* References.                                                               *)

Names(rule, x) == x \in SecretIDs(rule) \/ x = rule.matcher.resource

(* What the two counts look for.                                             *)
Counted(rule, x) == IF x \in SecretIds THEN ReferencesSecret(rule, x)
                                       ELSE ReferencesResource(rule, x)

Usable(x) == IF x \in SecretIds THEN x \in secrets
                                ELSE resources[x] \in {"http", "https"}

(* Writes under way that are going to store a rule naming x.                 *)
OnItsWay(x) ==
  {writer[w].rule : w \in {v \in Writers : /\ writer[v].at # "idle"
                                           /\ Names(writer[v].content, x)}}

---------------------------------------------------------------------------
(* The handlers.                                                             *)

Returns(w) == writer' = [writer EXCEPT ![w] = IdleWriter]

WriterAt(w, step) == writer[w].at = step

StartWrite(w, r, read, change, rule, step) ==
  /\ WriterAt(w, "idle")
  /\ writes < MaxWrites
  /\ writes' = writes + 1
  /\ writer' = [writer EXCEPT ![w] =
       [at |-> step, rule |-> r, read |-> read, change |-> change,
        content |-> rule, todo |-> SecretIDs(rule)]]
  /\ UNCHANGED <<content, secrets, resources, counted, raced, turned>>

Create(w) ==
  \E r \in RuleIds \ minted, new \in NewRules :
    LET rule == ValidateRuleInput(new) IN
    /\ rule # Refused
    /\ StartWrite(w, r, None, new, rule, "secrets")
    /\ minted' = minted \cup {r}

(* Mutation: an absent TLS block clears the stored one.                      *)
Merged_Replacing(stored, change) ==
  [matcher |-> IF change.matcher = None THEN stored.matcher ELSE change.matcher,
   effect |-> IF change.effect = None THEN stored.effect ELSE change.effect,
   tls |-> change.tls]

(* The parts of the request over those of the row.                           *)
Merged(stored, change) ==
  [part \in {"matcher", "effect", "tls"} |->
     IF change[part] = None THEN stored[part] ELSE change[part]]

(* A name or a description alone is not validated.                           *)
UpdateNameOnly(w) ==
  \E r \in RuleIds :
    /\ content[r] # None
    /\ StartWrite(w, r, content[r], NoChange, content[r], "write")
    /\ UNCHANGED minted

Update(w) ==
  \E r \in RuleIds, change \in Changes :
    LET rule == ValidateRuleInput(Merged(content[r], change)) IN
    /\ content[r] # None
    /\ rule # Refused
    /\ rule.matcher.resource = content[r].matcher.resource
    /\ StartWrite(w, r, content[r], change, rule, "secrets")
    /\ UNCHANGED minted

(* validateSecrets: one request for each secret; one that is missing ends    *)
(* the call.                                                                 *)
ResolveSecret(w) ==
  /\ WriterAt(w, "secrets")
  /\ \E s \in writer[w].todo :
       IF s \in secrets
       THEN writer' = [writer EXCEPT ![w].todo = @ \ {s}]
       ELSE Returns(w)
  /\ UNCHANGED <<content, writes, secrets, resources, counted, histories>>

(* Mutation: only a create asks for the resource.                            *)
AsksForTarget_CreateOnly(c) ==
  c.content.matcher.resource # None /\ c.read = None

(* Mutation: a public rule is not let through first.                         *)
AsksForTarget_Any(c) == c.read = None \/ c.change.tls # None

(* A create of a private rule, and an update that brings a TLS block.        *)
AsksForTarget(c) ==
  /\ c.content.matcher.resource # None
  /\ c.read = None \/ c.change.tls # None

SecretsResolved(w) ==
  /\ WriterAt(w, "secrets")
  /\ writer[w].todo = {}
  /\ writer' = [writer EXCEPT ![w].at =
                  IF AsksForTarget(writer[w]) THEN "target" ELSE "write"]
  /\ UNCHANGED <<content, writes, secrets, resources, counted, histories>>

(* validatePrivateTarget: http or https, and a TLS block on https only.      *)
ValidatePrivateTarget(w) ==
  LET c        == writer[w]
      protocol == resources[c.content.matcher.resource] IN
  /\ WriterAt(w, "target")
  /\ IF protocol = "https" \/ (protocol = "http" /\ c.content.tls = None)
     THEN writer' = [writer EXCEPT ![w].at = "write"]
     ELSE Returns(w)
  /\ UNCHANGED <<content, writes, secrets, resources, counted, histories>>

(* INSERT, or UPDATE of a row that is still there.                           *)
Write(w) ==
  LET c == writer[w] IN
  /\ WriterAt(w, "write")
  /\ Returns(w)
  /\ IF c.read # None /\ content[c.rule] = None
     THEN UNCHANGED <<content, counted>>
     ELSE /\ content' = [content EXCEPT ![c.rule] = c.content]
          /\ counted' = [x \in Refs |->
               IF counted[x] # None /\ Names(c.content, x)
               THEN counted[x] \cup {c.rule} ELSE counted[x]]
  /\ UNCHANGED <<writes, secrets, resources, histories>>

Delete(r) ==
  /\ content[r] # None
  /\ content' = [content EXCEPT ![r] = None]
  /\ UNCHANGED <<writer, writes, secrets, resources, counted, histories>>

---------------------------------------------------------------------------
(* Secrets and Networks.                                                     *)

(* CountRulesReferencingSecret or CountRulesReferencingPrivateResource       *)
(* answers zero; any other answer keeps x.                                   *)
Count(x) ==
  /\ Usable(x) /\ counted[x] = None
  /\ \A r \in RuleIds : content[r] # None => ~Counted(content[r], x)
  /\ counted' = [counted EXCEPT ![x] = {}]
  /\ UNCHANGED <<content, writer, writes, secrets, resources, histories>>

(* A secret or a resource is deleted, or a resource turned into a tcp one.   *)
LetGo(x) ==
  /\ counted[x] # None
  /\ \/ x \in SecretIds /\ secrets' = secrets \ {x} /\ UNCHANGED resources
     \/ /\ x \in ResourceIds
        /\ \E gone \in {None, "tcp"} :
             resources' = [resources EXCEPT ![x] = gone]
        /\ UNCHANGED secrets
  /\ raced' = raced \cup ((counted[x] \cup OnItsWay(x)) \X {x})
  /\ counted' = [counted EXCEPT ![x] = None]
  /\ UNCHANGED <<content, writer, writes, minted, turned>>

(* Between http and https nobody asks.                                       *)
ChangeProtocol(x) ==
  /\ resources[x] \in {"http", "https"}
  /\ resources' = [resources EXCEPT ![x] =
                     IF @ = "http" THEN "https" ELSE "http"]
  /\ turned' = IF resources[x] = "https" THEN turned \cup {x} ELSE turned
  /\ UNCHANGED <<content, writer, writes, secrets, counted, minted, raced>>

---------------------------------------------------------------------------

WriterStep(w) ==
  \/ Create(w) \/ Update(w) \/ UpdateNameOnly(w)
  \/ ResolveSecret(w) \/ SecretsResolved(w) \/ ValidatePrivateTarget(w)
  \/ Write(w)

PeerStep ==
  \/ \E x \in Refs : Count(x) \/ LetGo(x)
  \/ \E x \in ResourceIds : ChangeProtocol(x)

ContentNext ==
  \/ \E w \in Writers : WriterStep(w)
  \/ \E r \in RuleIds : Delete(r)
  \/ PeerStep

ContentSpec == ContentInit /\ [][ContentNext]_contentVars

---------------------------------------------------------------------------
(* Properties.                                                               *)

(* A write has in hand what its rule will say, and a private matcher while   *)
(* it asks Networks.                                                         *)
ContentTypeOK ==
  /\ secrets \subseteq SecretIds
  /\ resources \in [ResourceIds -> {"http", "https", "tcp", None}]
  /\ raced \subseteq RuleIds \X Refs
  /\ \A w \in Writers :
       /\ writer[w].at \in WriterSteps
       /\ writer[w].at # "idle" => SecretIDs(writer[w].content) \subseteq SecretIds
       /\ writer[w].at = "target" =>
            writer[w].content.matcher.resource \in ResourceIds

(* A stored rule names a secret or a resource that is gone, or a resource    *)
(* that became tcp, only if a write of that very rule was under way when it  *)
(* went, or came between the count and the removal: what a write checks, and *)
(* what it does not, is made up for by what the peers count, so that without *)
(* such an overlap no sequence of requests gets there, not even updates of a *)
(* name alone, which check nothing (service.go's validateSecrets,            *)
(* validatePrivateTarget, CountRulesReferencingSecret and                    *)
(* CountRulesReferencingPrivateResource).                                    *)
DanglingIsRaced ==
  \A r \in RuleIds, x \in Refs :
    content[r] # None /\ Names(content[r], x) /\ ~Usable(x)
      => <<r, x>> \in raced

(* A rule has a TLS block on an http resource only if the resource was https *)
(* before: of creates and updates that race each other and the change of the *)
(* protocol, none gets a block past the check on a resource that has always  *)
(* been http (validatePrivateTarget, which an update that brings no block    *)
(* skips).                                                                   *)
TLSNeedsHttps ==
  \A r \in RuleIds, x \in ResourceIds :
    /\ content[r] # None /\ content[r].tls # None
    /\ content[r].matcher.resource = x /\ resources[x] = "http"
    => x \in turned

WithoutEmptyTLS(part) == IF part = EmptyTLS THEN None ELSE part

(* An update changes the parts it brings and no other, unless another update *)
(* came between its read and its write; an empty TLS block is no part        *)
(* (UpdateEgressRule validates and stores all parts, brought or not).        *)
UpdateKeepsOtherParts ==
  [][\A w \in Writers :
       LET c == writer[w] IN
       /\ c.at = "write" /\ writer'[w].at = "idle"
       /\ c.read # None /\ content[c.rule] = c.read
       => \A part \in {"matcher", "effect", "tls"} :
            c.change[part] = None =>
              WithoutEmptyTLS(content'[c.rule][part])
                = WithoutEmptyTLS(c.read[part])]_contentVars

=============================================================================
