------------------------ MODULE AuthorizationProofs ------------------------
(* Theorems about who may do what.  A request keeps the questions it has     *)
(* still to ask; what it was answered has held since it came in.             *)
EXTENDS Authorization, SequenceTheorems, TLAPS

---------------------------------------------------------------------------
(* Types.                                                                    *)

Relations == {"member", "owner", "can_edit_config", "can_read_config", "org"}

AskedTuple == [user : Identities \cup Organizations, relation : Relations,
               object : Organizations \cup Targets]

Pending == [request : Requests, ask : Seq(AskedTuple), held : SUBSET Grantable]

AuthTypeOK ==
  /\ tuples \subseteq Grantable
  /\ rules \in [RuleIds -> Organizations \cup {None}]
  /\ attachments \in [AttachmentIds ->
                       [rule : RuleIds, target : Targets] \cup {None}]
  /\ minted \subseteq RuleIds \cup AttachmentIds
  /\ call \in [Callers -> Pending \cup {None}]

LEMMA QuestionTypes ==
  /\ \A i \in Identities, o \in Organizations :
       Member(i, o) \in AskedTuple /\ Owner(i, o) \in AskedTuple
  /\ \A i \in Identities, t \in Targets :
       CanEdit(i, t) \in AskedTuple /\ CanRead(i, t) \in AskedTuple
  /\ \A o \in Organizations, t \in Targets :
       InOrganization(o, t) \in AskedTuple
BY DEF Member, Owner, CanEdit, CanRead, InOrganization, Tuple, AskedTuple,
   Relations

(* The questions of a request about a row that is there.                     *)
LEMMA QuestionsType ==
  ASSUME AuthTypeOK, AttachedAtHome, NEW q \in Requests, Found(q)
  PROVE  Questions(q) \in Seq(AskedTuple)
<1>1. /\ q.by \in Identities
      /\ q.org \in Organizations \cup {None}
      /\ q.rule \in RuleIds \cup {None}
      /\ q.attachment \in AttachmentIds \cup {None}
      /\ q.target \in Targets \cup {None}
      /\ q.op \in {"create", "rule.write", "rule.get", "attach", "detach",
                   "attachments.list"}
      /\ WellFormed(q)
  BY DEF Requests, Request
<1>2. CASE q.op = "create"
  BY <1>1, <1>2, QuestionTypes DEF WellFormed, Questions
<1>3. CASE q.op \in {"rule.write", "rule.get"}
  <2>1. rules[q.rule] \in Organizations
    BY <1>1, <1>3 DEF WellFormed, Found, AuthTypeOK
  <2> QED BY <1>1, <1>3, <2>1, QuestionTypes DEF Questions
<1>4. CASE q.op = "attach"
  <2>1. rules[q.rule] \in Organizations /\ q.target \in Targets
    BY <1>1, <1>4 DEF WellFormed, Found, AuthTypeOK
  <2>2. Attach(q) \in Seq(AskedTuple)
    BY <1>1, <2>1, QuestionTypes DEF Attach
  <2> QED BY <1>4, <2>2 DEF Questions
<1>5. CASE q.op = "detach"
  <2> DEFINE row == attachments[q.attachment]
  <2>1. q.attachment \in AttachmentIds /\ row # None
    BY <1>1, <1>5 DEF WellFormed, Found
  <2>2. row \in [rule : RuleIds, target : Targets]
    BY <2>1 DEF AuthTypeOK
  <2>3. rules[row.rule] \in Organizations
    BY <2>1, <2>2, AuthorizationAssumption DEF AuthorizationAssumption,
       AttachedAtHome
  <2>4. Detach(q) \in Seq(AskedTuple)
    BY <1>1, <2>2, <2>3, QuestionTypes DEF Detach
  <2> QED BY <1>5, <2>4 DEF Questions
<1>6. CASE q.op = "attachments.list"
  <2> DEFINE A == IF q.rule # None THEN <<Member(q.by, q.org)>> ELSE <<>>
             B == IF q.target # None THEN <<CanRead(q.by, q.target)>> ELSE <<>>
             C == IF q.rule = None /\ q.target = None
                  THEN <<Member(q.by, q.org)>> ELSE <<>>
  <2>1. q.org \in Organizations
    BY <1>1, <1>6 DEF WellFormed
  <2>2. A \in Seq(AskedTuple) /\ B \in Seq(AskedTuple) /\ C \in Seq(AskedTuple)
    BY <1>1, <2>1, QuestionTypes
  <2>3. Questions(q) = (A \o B) \o C
    BY <1>6 DEF Questions, ListAttachments
  <2> HIDE DEF A, B, C
  <2> QED BY <2>2, <2>3
<1> QED BY <1>1, <1>2, <1>3, <1>4, <1>5, <1>6

LEMMA AuthTypeStep ==
  ASSUME AuthTypeOK, AttachedAtHome, [AuthNext]_authVars
  PROVE  AuthTypeOK'
<1>1. CASE Relate
  <2>1. tuples' \subseteq Grantable
    BY <1>1 DEF Relate, AuthTypeOK
  <2>2. \A c \in Callers : call[c] # None =>
          [call[c] EXCEPT !.held = @ \cup tuples'] \in Pending
    BY <2>1 DEF AuthTypeOK, Pending
  <2>3. call' \in [Callers -> Pending \cup {None}]
    BY <1>1, <2>2 DEF Relate, AuthTypeOK
  <2> QED BY <1>1, <2>1, <2>3 DEF Relate, AuthTypeOK, Rows
<1>2. ASSUME NEW c \in Callers, Receive(c)
      PROVE  AuthTypeOK'
  <2>1. PICK q \in {r \in Requests : Found(r)} :
          call' = [call EXCEPT ![c] =
            [request |-> q, ask |-> Questions(q), held |-> tuples]]
    BY <1>2 DEF Receive
  <2>2. Questions(q) \in Seq(AskedTuple)
    BY <2>1, QuestionsType
  <2>3. [request |-> q, ask |-> Questions(q), held |-> tuples] \in Pending
    BY <2>2 DEF Pending, AuthTypeOK
  <2> QED BY <1>2, <2>1, <2>3 DEF Receive, AuthTypeOK, Rows
<1>3. ASSUME NEW c \in Callers, Ask(c)
      PROVE  AuthTypeOK'
  <2>1. call[c] \in Pending /\ call[c].ask # <<>>
    BY <1>3 DEF Ask, AuthTypeOK
  <2>2. Tail(call[c].ask) \in Seq(AskedTuple)
    BY <2>1, HeadTailProperties DEF Pending
  <2>3. [call[c] EXCEPT !.ask = Tail(@)] \in Pending
    BY <2>1, <2>2 DEF Pending
  <2> QED BY <1>3, <2>3 DEF Ask, Return, AuthTypeOK, Rows
<1>4. ASSUME NEW c \in Callers,
             CreateRule(c) \/ WriteRule(c) \/ InsertAttachment(c)
               \/ DeleteAttachment(c) \/ AnswerRead(c)
      PROVE  AuthTypeOK'
  <2>1. call[c] \in Pending
    BY <1>4 DEF CreateRule, WriteRule, InsertAttachment, DeleteAttachment,
       AnswerRead, Granted, AuthTypeOK
  <2>2. call' \in [Callers -> Pending \cup {None}]
    BY <1>4 DEF CreateRule, WriteRule, InsertAttachment, DeleteAttachment,
       AnswerRead, Return, AuthTypeOK
  <2>3. CASE CreateRule(c)
    BY <2>1, <2>2, <2>3 DEF CreateRule, AuthTypeOK, Pending, Requests,
       Request
  <2>4. CASE InsertAttachment(c)
    <3>1. call[c].request.rule \in RuleIds /\ call[c].request.target \in Targets
      BY <2>1, <2>4 DEF InsertAttachment, Granted, Pending, Requests,
         Request, WellFormed
    <3> QED BY <2>2, <2>4, <3>1 DEF InsertAttachment, AuthTypeOK
  <2> QED BY <1>4, <2>2, <2>3, <2>4 DEF WriteRule, DeleteAttachment,
       AnswerRead, Rows, AuthTypeOK
<1>5. CASE UNCHANGED authVars
  BY <1>5 DEF authVars, AuthTypeOK
<1> QED BY <1>1, <1>2, <1>3, <1>4, <1>5 DEF AuthNext

---------------------------------------------------------------------------
(* The invariant.                                                            *)

(* A question is still to be asked, or what it asks for has held since the   *)
(* request came in.                                                          *)
Settled(k, question) ==
  \/ question \in k.held \cup Placed
  \/ \E i \in 1..Len(k.ask) : k.ask[i] = question

(* The rule was one of the organization, and is unless it was deleted.       *)
StillOf(r, org) == r \in minted /\ rules[r] \in {None, org}

StillAt(a, row, org) ==
  /\ a \in minted
  /\ attachments[a] # None => attachments[a] = row /\ rules[row.rule] = org

(* A request asks about the organization the row had when it was read, which *)
(* is the one it has as long as it is there.                                 *)
Prepared(k) ==
  LET q == k.request IN
  /\ q.op = "create" => Settled(k, Owner(q.by, q.org))
  /\ q.op = "rule.write" =>
       \E org \in Organizations :
         StillOf(q.rule, org) /\ Settled(k, Owner(q.by, org))
  /\ q.op = "attach" =>
       \E org \in Organizations :
         /\ StillOf(q.rule, org)
         /\ Settled(k, Member(q.by, org)) /\ Settled(k, CanEdit(q.by, q.target))
         /\ Settled(k, InOrganization(org, q.target))
  /\ q.op = "detach" =>
       \E row \in [rule : RuleIds, target : Targets], org \in Organizations :
         /\ StillAt(q.attachment, row, org)
         /\ Settled(k, Member(q.by, org)) /\ Settled(k, CanEdit(q.by, row.target))
  /\ q.op = "attachments.list" =>
       /\ q.target = None => Settled(k, Member(q.by, q.org))
       /\ q.rule # None => Settled(k, Member(q.by, q.org))
       /\ q.target # None => Settled(k, CanRead(q.by, q.target))

RowsMinted ==
  /\ \A r \in RuleIds : rules[r] # None => r \in minted
  /\ \A a \in AttachmentIds : attachments[a] # None => a \in minted

AuthInv ==
  /\ AuthTypeOK /\ AttachedAtHome /\ RowsMinted
  /\ \A c \in Callers : call[c] # None =>
       tuples \subseteq call[c].held /\ Prepared(call[c])

(* What is left to ask when nothing is.                                      *)
LEMMA AllSettled ==
  ASSUME NEW k, k.ask = <<>>, NEW question, Settled(k, question)
  PROVE  question \in k.held \cup Placed
BY DEF Settled

(* Relations people hold are never those that place a target.                *)
LEMMA PlacedApart ==
  /\ \A i, o : Member(i, o) \notin Placed /\ Owner(i, o) \notin Placed
  /\ \A i, t : CanEdit(i, t) \notin Placed /\ CanRead(i, t) \notin Placed
  /\ \A o, t : InOrganization(o, t) \notin Grantable
<1>1. \A x \in Placed : x.relation = "org"
  BY DEF Placed, InOrganization, Tuple
<1>2. \A x \in Grantable : x.relation # "org"
  BY DEF Grantable, Member, Owner, CanEdit, CanRead, Tuple
<1>3. \A i, o : Member(i, o).relation # "org" /\ Owner(i, o).relation # "org"
  BY DEF Member, Owner, Tuple
<1>4. \A i, t : /\ CanEdit(i, t).relation # "org"
                /\ CanRead(i, t).relation # "org"
                /\ InOrganization(i, t).relation = "org"
  BY DEF CanEdit, CanRead, InOrganization, Tuple
<1> QED BY <1>1, <1>2, <1>3, <1>4

LEMMA PlacedAtHome ==
  ASSUME NEW org, NEW t, InOrganization(org, t) \in Placed
  PROVE  org = HomeOf[t]
BY DEF InOrganization, Tuple, Placed

---------------------------------------------------------------------------
(* Rows: an id is minted once, a rule keeps its organization while it is     *)
(* there, and it is there while it has attachments.                          *)

LEMMA RowSteps ==
  ASSUME AuthInv, [AuthNext]_authVars
  PROVE  /\ minted \subseteq minted'
         /\ \A r \in RuleIds \cap minted : rules'[r] \in {rules[r], None}
         /\ \A a \in AttachmentIds \cap minted :
              attachments'[a] \in {attachments[a], None}
         /\ \A a \in AttachmentIds :
              attachments[a] # None /\ attachments'[a] # None =>
                rules'[attachments[a].rule] = rules[attachments[a].rule]
         /\ RowsMinted'
<1> USE DEF AuthInv, RowsMinted
<1>1. CASE UNCHANGED <<rules, attachments, minted>>
  BY <1>1
<1>2. ASSUME NEW c \in Callers, CreateRule(c)
      PROVE  /\ minted \subseteq minted' /\ UNCHANGED attachments
             /\ \A r \in RuleIds \cap minted : rules'[r] = rules[r]
             /\ \A r \in RuleIds : rules'[r] # None => r \in minted'
             /\ \A a \in AttachmentIds : attachments[a] # None =>
                  attachments[a].rule \in RuleIds \cap minted
  <2>1. \A a \in AttachmentIds : attachments[a] # None =>
          attachments[a].rule \in RuleIds \cap minted
    BY AuthorizationAssumption DEF AuthorizationAssumption, AuthTypeOK,
       AttachedAtHome
  <2> QED BY <1>2, <2>1 DEF CreateRule, AuthTypeOK
<1>3. ASSUME NEW c \in Callers, WriteRule(c)
      PROVE  /\ UNCHANGED <<minted, attachments>>
             /\ \A r \in RuleIds : rules'[r] \in {rules[r], None}
             /\ \A a \in AttachmentIds : attachments[a] # None =>
                  rules'[attachments[a].rule] = rules[attachments[a].rule]
  BY <1>3 DEF WriteRule, AuthTypeOK
<1>4. ASSUME NEW c \in Callers, InsertAttachment(c)
      PROVE  /\ minted \subseteq minted' /\ UNCHANGED rules
             /\ \A a \in AttachmentIds \cap minted :
                  attachments'[a] = attachments[a]
             /\ \A a \in AttachmentIds : attachments'[a] # None => a \in minted'
  BY <1>4 DEF InsertAttachment, AuthTypeOK
<1>5. ASSUME NEW c \in Callers, DeleteAttachment(c)
      PROVE  /\ UNCHANGED <<minted, rules>>
             /\ \A a \in AttachmentIds : attachments'[a] \in {attachments[a], None}
  BY <1>5 DEF DeleteAttachment, AuthTypeOK
<1>6. \/ UNCHANGED <<rules, attachments, minted>>
      \/ \E c \in Callers : \/ CreateRule(c) \/ WriteRule(c)
                            \/ InsertAttachment(c) \/ DeleteAttachment(c)
  BY DEF AuthNext, Relate, Receive, Ask, AnswerRead, Rows, authVars
<1>7. CASE \E c \in Callers : CreateRule(c)
  BY <1>2, <1>7
<1>8. CASE \E c \in Callers : WriteRule(c)
  BY <1>3, <1>8
<1>9. CASE \E c \in Callers : InsertAttachment(c)
  BY <1>4, <1>9
<1>10. CASE \E c \in Callers : DeleteAttachment(c)
  BY <1>5, <1>10
<1> QED BY <1>1, <1>6, <1>7, <1>8, <1>9, <1>10

LEMMA PreparedStays ==
  ASSUME AuthInv, [AuthNext]_authVars, NEW k \in Pending, NEW n \in Pending,
         n.request = k.request, Prepared(k),
         \A x : Settled(k, x) => Settled(n, x)
  PROVE  Prepared(n)'
<1> DEFINE q == k.request
<1>1. ASSUME NEW r \in RuleIds, NEW org, StillOf(r, org)
      PROVE  StillOf(r, org)'
  BY <1>1, RowSteps DEF StillOf
<1>2. ASSUME NEW a \in AttachmentIds, NEW row, NEW org, StillAt(a, row, org)
      PROVE  StillAt(a, row, org)'
  BY <1>2, RowSteps DEF StillAt
<1>3. q \in Requests
  BY DEF Pending
<1>4. q.op = "create" => Settled(n, Owner(q.by, q.org))
  BY DEF Prepared
<1>5. ASSUME q.op = "rule.write"
      PROVE  \E org \in Organizations :
               StillOf(q.rule, org)' /\ Settled(n, Owner(q.by, org))
  <2>1. q.rule \in RuleIds
    BY <1>3, <1>5 DEF Requests, Request, WellFormed
  <2> QED BY <1>1, <1>5, <2>1 DEF Prepared
<1>6. ASSUME q.op = "attach"
      PROVE  \E org \in Organizations :
               /\ StillOf(q.rule, org)'
               /\ Settled(n, Member(q.by, org))
               /\ Settled(n, CanEdit(q.by, q.target))
               /\ Settled(n, InOrganization(org, q.target))
  <2>1. q.rule \in RuleIds
    BY <1>3, <1>6 DEF Requests, Request, WellFormed
  <2> QED BY <1>1, <1>6, <2>1 DEF Prepared
<1>7. ASSUME q.op = "detach"
      PROVE  \E row \in [rule : RuleIds, target : Targets],
                org \in Organizations :
               /\ StillAt(q.attachment, row, org)'
               /\ Settled(n, Member(q.by, org))
               /\ Settled(n, CanEdit(q.by, row.target))
  <2>1. q.attachment \in AttachmentIds
    BY <1>3, <1>7 DEF Requests, Request, WellFormed
  <2> QED BY <1>2, <1>7, <2>1 DEF Prepared
<1>8. q.op = "attachments.list" =>
        /\ q.target = None => Settled(n, Member(q.by, q.org))
        /\ q.rule # None => Settled(n, Member(q.by, q.org))
        /\ q.target # None => Settled(n, CanRead(q.by, q.target))
  BY DEF Prepared
<1>9. /\ q.op = "rule.write" =>
           \E org \in Organizations :
             (StillOf(q.rule, org) /\ Settled(n, Owner(q.by, org)))'
      /\ q.op = "attach" =>
           \E org \in Organizations :
             (/\ StillOf(q.rule, org)
              /\ Settled(n, Member(q.by, org))
              /\ Settled(n, CanEdit(q.by, q.target))
              /\ Settled(n, InOrganization(org, q.target)))'
      /\ q.op = "detach" =>
           \E row \in [rule : RuleIds, target : Targets],
              org \in Organizations :
             (/\ StillAt(q.attachment, row, org)
              /\ Settled(n, Member(q.by, org))
              /\ Settled(n, CanEdit(q.by, row.target)))'
  BY <1>5, <1>6, <1>7 DEF Settled
<1> QED BY <1>4, <1>8, <1>9 DEF Prepared

LEMMA ConcatHas ==
  ASSUME NEW S, NEW s \in Seq(S), NEW t \in Seq(S)
  PROVE  /\ \A i \in 1..Len(s) : \E j \in 1..Len(s \o t) : (s \o t)[j] = s[i]
         /\ \A i \in 1..Len(t) : \E j \in 1..Len(s \o t) : (s \o t)[j] = t[i]
<1>1. /\ Len(s) \in Nat /\ Len(t) \in Nat
      /\ Len(s \o t) = Len(s) + Len(t)
      /\ \A j \in 1..(Len(s) + Len(t)) :
           (s \o t)[j] = IF j <= Len(s) THEN s[j] ELSE t[j - Len(s)]
  BY ConcatProperties
<1>2. ASSUME NEW i \in 1..Len(s)
      PROVE  i \in 1..Len(s \o t) /\ (s \o t)[i] = s[i]
  BY <1>1
<1>3. ASSUME NEW i \in 1..Len(t)
      PROVE  /\ Len(s) + i \in 1..Len(s \o t)
             /\ (s \o t)[Len(s) + i] = t[i]
  BY <1>1
<1> QED BY <1>2, <1>3

(* A request that comes in finds its row, whose organization it asks about.  *)
LEMMA ReceivedPrepared ==
  ASSUME AuthInv, NEW q \in Requests, Found(q), NEW held \in SUBSET Grantable
  PROVE  Prepared([request |-> q, ask |-> Questions(q), held |-> held])
<1> DEFINE k == [request |-> q, ask |-> Questions(q), held |-> held]
<1>1. k.request = q /\ k.ask = Questions(q)
  OBVIOUS
<1>2. /\ q.by \in Identities
      /\ q.org \in Organizations \cup {None}
      /\ q.rule \in RuleIds \cup {None}
      /\ q.attachment \in AttachmentIds \cup {None}
      /\ q.target \in Targets \cup {None}
      /\ WellFormed(q)
  BY DEF Requests, Request
<1>3. \A i \in 1..Len(Questions(q)) : Settled(k, Questions(q)[i])
  BY <1>1 DEF Settled
<1> HIDE DEF k
<1>4. CASE q.op = "create"
  <2>1. Questions(q) = <<Owner(q.by, q.org)>>
    BY <1>4 DEF Questions
  <2>2. Settled(k, Owner(q.by, q.org))
    BY <1>3, <2>1
  <2> QED BY <1>1, <1>4, <2>2 DEF Prepared, k
<1>5. CASE q.op = "rule.write"
  <2> DEFINE org == rules[q.rule]
  <2>1. org \in Organizations /\ StillOf(q.rule, org)
    BY <1>2, <1>5 DEF WellFormed, Found, AuthInv, AuthTypeOK, RowsMinted,
       StillOf
  <2>2. Questions(q) = <<Owner(q.by, org)>>
    BY <1>5 DEF Questions
  <2>3. Settled(k, Owner(q.by, org))
    BY <1>3, <2>2
  <2> HIDE DEF org
  <2> QED BY <1>1, <1>5, <2>1, <2>3 DEF Prepared, k
<1>6. CASE q.op = "attach"
  <2> DEFINE org == rules[q.rule]
  <2>1. org \in Organizations /\ StillOf(q.rule, org)
    BY <1>2, <1>6 DEF WellFormed, Found, AuthInv, AuthTypeOK, RowsMinted,
       StillOf
  <2>2. Questions(q) = <<Member(q.by, org), CanEdit(q.by, q.target),
                         InOrganization(org, q.target)>>
    BY <1>6 DEF Questions, Attach
  <2>3. /\ Settled(k, Member(q.by, org)) /\ Settled(k, CanEdit(q.by, q.target))
        /\ Settled(k, InOrganization(org, q.target))
    <3>1. /\ Len(Questions(q)) = 3
          /\ Questions(q)[1] = Member(q.by, org)
          /\ Questions(q)[2] = CanEdit(q.by, q.target)
          /\ Questions(q)[3] = InOrganization(org, q.target)
      BY <2>2
    <3>2. 1 \in 1..3 /\ 2 \in 1..3 /\ 3 \in 1..3
      OBVIOUS
    <3> QED BY <1>3, <3>1, <3>2
  <2> HIDE DEF org
  <2> QED BY <1>1, <1>6, <2>1, <2>3 DEF Prepared, k
<1>7. CASE q.op = "detach"
  <2> DEFINE row == attachments[q.attachment]
             org == rules[row.rule]
  <2>1. q.attachment \in AttachmentIds /\ row # None
    BY <1>2, <1>7 DEF WellFormed, Found
  <2>2. row \in [rule : RuleIds, target : Targets]
    BY <2>1 DEF AuthInv, AuthTypeOK
  <2>3. org \in Organizations
    BY <2>1, <2>2, AuthorizationAssumption DEF AuthorizationAssumption,
       AuthInv, AttachedAtHome
  <2>4. StillAt(q.attachment, row, org)
    BY <2>1 DEF StillAt, AuthInv, RowsMinted
  <2>5. Questions(q) = <<Member(q.by, org), CanEdit(q.by, row.target)>>
    BY <1>7 DEF Questions, Detach
  <2>6. Settled(k, Member(q.by, org)) /\ Settled(k, CanEdit(q.by, row.target))
    <3>1. /\ Len(Questions(q)) = 2
          /\ Questions(q)[1] = Member(q.by, org)
          /\ Questions(q)[2] = CanEdit(q.by, row.target)
      BY <2>5
    <3>2. 1 \in 1..2 /\ 2 \in 1..2
      OBVIOUS
    <3> QED BY <1>3, <3>1, <3>2
  <2> HIDE DEF org, row
  <2> QED BY <1>1, <1>7, <2>2, <2>3, <2>4, <2>6 DEF Prepared, k
<1>8. CASE q.op = "attachments.list"
  <2> DEFINE m == Member(q.by, q.org)
             e == CanRead(q.by, q.target)
             A == IF q.rule # None THEN <<m>> ELSE <<>>
             B == IF q.target # None THEN <<e>> ELSE <<>>
             C == IF q.rule = None /\ q.target = None THEN <<m>> ELSE <<>>
             Asked(x) == \E i \in 1..Len(Questions(q)) : Questions(q)[i] = x
  <2>1. Questions(q) = (A \o B) \o C
    BY <1>8 DEF Questions, ListAttachments
  <2> DEFINE S == {m, e}
  <2>2. A \in Seq(S) /\ B \in Seq(S) /\ C \in Seq(S)
    OBVIOUS
  <2>3. /\ \A i \in 1..Len(A) : Asked(A[i])
        /\ \A i \in 1..Len(B) : Asked(B[i])
        /\ \A i \in 1..Len(C) : Asked(C[i])
    <3> DEFINE D == A \o B
               E == D \o C
    <3> HIDE DEF A, B, C, S
    <3>1. D \in Seq(S)
      BY <2>2
    <3>2. /\ \A i \in 1..Len(A) : \E j \in 1..Len(D) : D[j] = A[i]
          /\ \A i \in 1..Len(B) : \E j \in 1..Len(D) : D[j] = B[i]
      BY SMTT(30), <2>2, ConcatHas
    <3> HIDE DEF D
    <3>3. /\ \A i \in 1..Len(D) : \E j \in 1..Len(E) : E[j] = D[i]
          /\ \A i \in 1..Len(C) : \E j \in 1..Len(E) : E[j] = C[i]
      <4>1. C \in Seq(S)
        BY <2>2
      <4> QED BY <3>1, <4>1, ConcatHas
    <3>4. Questions(q) = E
      BY <2>1 DEF D
    <3> HIDE DEF E
    <3>5. /\ \A i \in 1..Len(D) : Asked(D[i])
          /\ \A i \in 1..Len(C) : Asked(C[i])
      BY <3>3, <3>4
    <3>6. ASSUME NEW i \in 1..Len(A) PROVE Asked(A[i])
      <4>1. PICK j \in 1..Len(D) : D[j] = A[i]
        BY <3>2
      <4>2. Asked(D[j])
        BY <3>5
      <4> HIDE DEF Asked
      <4> QED BY <4>1, <4>2
    <3>7. ASSUME NEW i \in 1..Len(B) PROVE Asked(B[i])
      <4>1. PICK j \in 1..Len(D) : D[j] = B[i]
        BY <3>2
      <4>2. Asked(D[j])
        BY <3>5
      <4> HIDE DEF Asked
      <4> QED BY <4>1, <4>2
    <3> HIDE DEF Asked
    <3> QED BY <3>5, <3>6, <3>7
  <2>4. \A x : Asked(x) => Settled(k, x)
    BY <1>3
  <2> HIDE DEF Asked
  <2>5. q.rule # None => Asked(m)
    <3> SUFFICES ASSUME q.rule # None PROVE Asked(m)
      OBVIOUS
    <3>1. Len(A) = 1 /\ A[1] = m /\ 1 \in 1..1
      OBVIOUS
    <3> QED BY <2>3, <3>1
  <2>6. q.target # None => Asked(e)
    <3> SUFFICES ASSUME q.target # None PROVE Asked(e)
      OBVIOUS
    <3>1. Len(B) = 1 /\ B[1] = e /\ 1 \in 1..1
      OBVIOUS
    <3> QED BY <2>3, <3>1
  <2>7. q.rule = None /\ q.target = None => Asked(m)
    <3> SUFFICES ASSUME q.rule = None, q.target = None PROVE Asked(m)
      OBVIOUS
    <3>1. Len(C) = 1 /\ C[1] = m /\ 1 \in 1..1
      OBVIOUS
    <3> QED BY <2>3, <3>1
  <2>8. /\ q.target = None => Settled(k, m)
        /\ q.rule # None => Settled(k, m)
        /\ q.target # None => Settled(k, e)
    BY <2>4, <2>5, <2>6, <2>7
  <2> QED BY <1>1, <1>8, <2>8 DEF Prepared, k
<1>9. q.op = "rule.get" => Prepared(k)
  BY <1>1 DEF Prepared, k
<1>10. q.op \in {"create", "rule.write", "rule.get", "attach", "detach",
                 "attachments.list"}
  BY DEF Requests, Request
<1> QED BY <1>4, <1>5, <1>6, <1>7, <1>8, <1>9, <1>10 DEF k
(* An answered question has held, and the others are still to be asked.      *)
LEMMA AskSettles ==
  ASSUME NEW k \in Pending, k.ask # <<>>, Head(k.ask) \in k.held \cup Placed,
         NEW n \in Pending, n = [k EXCEPT !.ask = Tail(@)],
         NEW x, Settled(k, x)
  PROVE  Settled(n, x)
<1> DEFINE s == k.ask
<1>1. s \in Seq(AskedTuple) /\ n.ask = Tail(s) /\ n.held = k.held
  BY DEF Pending
<1>2. /\ Len(s) \in Nat /\ Len(Tail(s)) = Len(s) - 1
      /\ \A i \in 1..Len(Tail(s)) : Tail(s)[i] = s[i + 1]
      /\ Head(s) = s[1]
  BY <1>1, HeadTailProperties
<1>3. CASE x \in k.held \cup Placed
  BY <1>1, <1>3 DEF Settled
<1>4. ASSUME NEW i \in 1..Len(s), s[i] = x
      PROVE  Settled(n, x)
  <2>1. CASE i = 1
    BY <1>1, <1>2, <1>4, <2>1 DEF Settled
  <2>2. CASE i # 1
    <3>1. i - 1 \in 1..Len(Tail(s)) /\ Tail(s)[i - 1] = x
      BY <1>2, <1>4, <2>2
    <3> QED BY <1>1, <3>1 DEF Settled
  <2> QED BY <2>1, <2>2
<1> QED BY <1>3, <1>4 DEF Settled

---------------------------------------------------------------------------
(* The invariant is kept.                                                    *)

LEMMA HomeKept ==
  ASSUME AuthInv, [AuthNext]_authVars
  PROVE  AttachedAtHome'
<1>1. SUFFICES ASSUME NEW a \in AttachmentIds, attachments'[a] # None
               PROVE  rules'[attachments'[a].rule] = HomeOf[attachments'[a].target]
  BY DEF AttachedAtHome
<1>2. CASE attachments[a] # None
  <2>1. a \in minted
    BY <1>2 DEF AuthInv, RowsMinted
  <2>2. attachments'[a] = attachments[a]
    BY <1>1, <2>1, RowSteps
  <2>3. rules'[attachments[a].rule] = rules[attachments[a].rule]
    BY <1>1, <1>2, RowSteps
  <2> QED BY <1>2, <2>2, <2>3 DEF AuthInv, AttachedAtHome
<1>3. CASE attachments[a] = None
  <2>1. PICK c \in Callers : InsertAttachment(c)
    BY <1>1, <1>3 DEF AuthNext, Relate, Receive, Ask, CreateRule, WriteRule,
       DeleteAttachment, AnswerRead, Rows, authVars, AuthInv, AuthTypeOK
  <2> DEFINE k == call[c]
             q == k.request
             row == [rule |-> q.rule, target |-> q.target]
  <2>2. k \in Pending /\ q.op = "attach" /\ k.ask = <<>> /\ Prepared(k)
    BY <2>1 DEF InsertAttachment, Granted, AuthInv, AuthTypeOK
  <2>3. q.target \in Targets
    BY <2>2 DEF Pending, Requests, Request, WellFormed
  <2>4. attachments'[a] = row /\ rules[q.rule] # None /\ UNCHANGED rules
    BY <1>1, <1>3, <2>1 DEF InsertAttachment, AuthInv, AuthTypeOK
  <2>5. PICK org \in Organizations :
          StillOf(q.rule, org) /\ Settled(k, InOrganization(org, q.target))
    BY <2>2 DEF Prepared
  <2>6. rules[q.rule] = org
    BY <2>4, <2>5 DEF StillOf
  <2>7. InOrganization(org, q.target) \in Placed
    BY <2>2, <2>5, AllSettled, PlacedApart DEF Pending
  <2>8. org = HomeOf[q.target]
    BY <2>7, PlacedAtHome
  <2> QED BY <2>4, <2>6, <2>8
<1> QED BY <1>2, <1>3
(* Each request is as it was, was answered a question, or is new.            *)
LEMMA RequestsKept ==
  ASSUME AuthInv, [AuthNext]_authVars, AuthTypeOK',
         NEW c \in Callers, NEW n, n = call'[c], n # None
  PROVE  tuples' \subseteq n.held /\ Prepared(n)'
<1> DEFINE k == call[c]
<1>1. n \in Pending
  BY DEF AuthTypeOK
<1>2. k # None => k \in Pending /\ tuples \subseteq k.held /\ Prepared(k)
  BY DEF AuthInv, AuthTypeOK
<1>3. ASSUME k # None, n.request = k.request, n.held = k.held, tuples' = tuples,
             \A x : Settled(k, x) => Settled(n, x)
      PROVE  tuples' \subseteq n.held /\ Prepared(n)'
  BY <1>1, <1>2, <1>3, PreparedStays
<1>4. CASE n = k /\ tuples' = tuples
  BY <1>3, <1>4
<1>5. CASE Relate
  <2>1. k # None /\ n = [k EXCEPT !.held = @ \cup tuples']
    BY <1>5 DEF Relate
  <2>2. n.request = k.request /\ n.ask = k.ask /\ n.held = k.held \cup tuples'
    BY <1>2, <2>1 DEF Pending
  <2>3. \A x : Settled(k, x) => Settled(n, x)
    BY <2>2 DEF Settled
  <2> QED BY <1>1, <1>2, <2>1, <2>2, <2>3, PreparedStays
<1>6. CASE Receive(c)
  <2>1. PICK q \in {r \in Requests : Found(r)} :
          call' = [call EXCEPT ![c] =
            [request |-> q, ask |-> Questions(q), held |-> tuples]]
    BY <1>6 DEF Receive
  <2>2. n = [request |-> q, ask |-> Questions(q), held |-> tuples]
    BY <2>1 DEF AuthInv, AuthTypeOK
  <2>3. Prepared([request |-> q, ask |-> Questions(q), held |-> tuples])
    BY <2>1, ReceivedPrepared DEF AuthInv, AuthTypeOK
  <2>4. Prepared(n)
    BY <2>2, <2>3
  <2>5. Prepared(n)'
    BY <1>1, <2>4, PreparedStays
  <2> QED BY <1>6, <2>2, <2>5 DEF Receive
<1>7. CASE Ask(c)
  <2>1. k # None /\ k.ask # <<>> /\ UNCHANGED tuples
    BY <1>7 DEF Ask
  <2>2. Allowed(Head(k.ask)) /\ n = [k EXCEPT !.ask = Tail(@)]
    BY <1>7 DEF Ask, Return, AuthInv, AuthTypeOK
  <2>3. Head(k.ask) \in k.held \cup Placed
    BY <1>2, <2>1, <2>2 DEF Allowed
  <2> HIDE DEF k
  <2>4. \A x : Settled(k, x) => Settled(n, x)
    BY <1>1, <1>2, <2>1, <2>2, <2>3, AskSettles
  <2>5. n.request = k.request /\ n.held = k.held
    BY <1>2, <2>1, <2>2 DEF Pending
  <2> QED BY <1>3, <2>1, <2>4, <2>5
<1>8. ASSUME NEW d \in Callers,
             \/ CreateRule(d) \/ WriteRule(d) \/ InsertAttachment(d)
             \/ DeleteAttachment(d) \/ AnswerRead(d)
      PROVE  n = k /\ tuples' = tuples
  BY <1>8 DEF CreateRule, WriteRule, InsertAttachment, DeleteAttachment,
     AnswerRead, Return, AuthInv, AuthTypeOK
<1>9. ASSUME NEW d \in Callers, d # c, Receive(d) \/ Ask(d)
      PROVE  n = k /\ tuples' = tuples
  BY <1>9 DEF Receive, Ask, Return, AuthInv, AuthTypeOK
<1>10. CASE UNCHANGED authVars
  BY <1>4, <1>10 DEF authVars
<1> HIDE DEF k
<1> QED BY <1>4, <1>5, <1>6, <1>7, <1>8, <1>9, <1>10 DEF AuthNext

LEMMA AuthInvStep ==
  ASSUME AuthInv, [AuthNext]_authVars
  PROVE  AuthInv'
<1>1. AuthTypeOK'
  BY AuthTypeStep DEF AuthInv
<1>2. AttachedAtHome'
  BY HomeKept
<1>3. RowsMinted'
  BY RowSteps
<1>4. \A c \in Callers : \A n : n = call'[c] /\ n # None =>
        tuples' \subseteq n.held /\ Prepared(n)'
  BY <1>1, RequestsKept
<1>5. (\A c \in Callers : call[c] # None =>
         tuples \subseteq call[c].held /\ Prepared(call[c]))'
  BY <1>4
<1> QED BY <1>1, <1>2, <1>3, <1>5 DEF AuthInv

LEMMA AuthInvInit ==
  ASSUME AuthInit
  PROVE  AuthInv
<1>1. \A c \in Callers : call[c] = None
  BY DEF AuthInit
<1>2. AuthTypeOK /\ AttachedAtHome /\ RowsMinted
  BY DEF AuthInit, AuthTypeOK, AttachedAtHome, RowsMinted
<1> QED BY <1>1, <1>2 DEF AuthInv

LEMMA AuthInvHolds == AuthSpec => []AuthInv
<1>1. AuthInit => AuthInv
  BY AuthInvInit
<1>2. AuthInv /\ [AuthNext]_authVars => AuthInv'
  BY AuthInvStep
<1> QED BY <1>1, <1>2, PTL DEF AuthSpec

---------------------------------------------------------------------------
(* Theorems.                                                                 *)

(* An attachment is to a target of its rule's organization for as long as it *)
(* is there (requireTargetInOrganization, before the INSERT).                *)
THEOREM TargetsAreAtHome == AuthSpec => []AttachedAtHome
<1>1. AuthInv => AttachedAtHome
  BY DEF AuthInv
<1> QED BY <1>1, AuthInvHolds, PTL

(* What a listing answers with, the caller was allowed to see at some time   *)
(* since the request came in (ListEgressRuleAttachments).                    *)
THEOREM ListingsWereAllowed == AuthSpec => []ListingsAreHeld
<1>1. ASSUME AuthInv, NEW c \in Callers, Granted(c, "attachments.list"),
             NEW a \in Listed(call[c].request)
      PROVE  \/ Member(call[c].request.by, rules[attachments[a].rule]) \in call[c].held
             \/ CanRead(call[c].request.by, attachments[a].target) \in call[c].held
  <2> DEFINE k == call[c]
             q == k.request
  <2>1. /\ k # None /\ k.ask = <<>> /\ q.op = "attachments.list" /\ Prepared(k)
    BY <1>1 DEF Granted, AuthInv
  <2>2. rules[attachments[a].rule] = q.org
    BY DEF Listed
  <2>3. q.target # None => attachments[a].target = q.target
    BY DEF Listed
  <2>4. CASE q.target = None
    <3>1. Settled(k, Member(q.by, q.org))
      BY <2>1, <2>4 DEF Prepared
    <3>2. Member(q.by, q.org) \in k.held
      BY <2>1, <3>1, AllSettled, PlacedApart
    <3> QED BY <2>2, <3>2
  <2>5. CASE q.target # None
    <3>1. Settled(k, CanRead(q.by, q.target))
      BY <2>1, <2>5 DEF Prepared
    <3>2. CanRead(q.by, q.target) \in k.held
      BY <2>1, <3>1, AllSettled, PlacedApart
    <3> QED BY <2>3, <2>5, <3>2
  <2> QED BY <2>4, <2>5
<1>2. AuthInv => ListingsAreHeld
  BY <1>1 DEF ListingsAreHeld
<1> QED BY <1>2, AuthInvHolds, PTL
LEMMA RuleChangesHeld ==
  ASSUME AuthInv, [AuthNext]_authVars, NEW r \in RuleIds, rules'[r] # rules[r],
         NEW org, org = IF rules[r] = None THEN rules'[r] ELSE rules[r]
  PROVE  \E c \in Callers, i \in Identities : Did(c, Owner(i, org))
<1>1. PICK c \in Callers : CreateRule(c) \/ WriteRule(c)
  BY DEF AuthNext, Relate, Receive, Ask, InsertAttachment, DeleteAttachment,
     AnswerRead, Rows, authVars
<1> DEFINE k == call[c]
           q == k.request
<1>2. /\ k \in Pending /\ k # None /\ k.ask = <<>> /\ Prepared(k)
      /\ q.op = IF CreateRule(c) THEN "create" ELSE "rule.write"
  BY <1>1 DEF CreateRule, WriteRule, Granted, AuthInv, AuthTypeOK
<1>3. call'[c] = None /\ q.by \in Identities
  BY <1>1, <1>2 DEF CreateRule, WriteRule, Return, AuthInv, AuthTypeOK, Pending,
     Requests, Request
<1>4. Settled(k, Owner(q.by, org))
  <2>1. CASE CreateRule(c)
    <3>1. PICK s \in RuleIds \ minted : rules' = [rules EXCEPT ![s] = q.org]
      BY <2>1 DEF CreateRule
    <3>2. s = r
      BY <3>1 DEF AuthInv, AuthTypeOK
    <3>3. rules[r] = None /\ rules'[r] = q.org
      BY <3>1, <3>2 DEF AuthInv, AuthTypeOK, RowsMinted
    <3> QED BY <1>2, <2>1, <3>3 DEF Prepared
  <2>2. CASE ~CreateRule(c)
    <3>1. WriteRule(c)
      BY <1>1, <2>2
    <3>2. r = q.rule /\ rules'[r] = None
      BY <3>1 DEF WriteRule, AuthInv, AuthTypeOK
    <3>3. PICK o \in Organizations :
            StillOf(q.rule, o) /\ Settled(k, Owner(q.by, o))
      BY <1>2, <2>2 DEF Prepared
    <3>4. o = org
      BY <3>2, <3>3 DEF StillOf
    <3> QED BY <3>3, <3>4
  <2> QED BY <2>1, <2>2
<1>5. Owner(q.by, org) \in k.held
  BY <1>2, <1>4, AllSettled, PlacedApart
<1> QED BY <1>2, <1>3, <1>5 DEF Did

LEMMA AttachmentChangesHeld ==
  ASSUME AuthInv, [AuthNext]_authVars, NEW a \in AttachmentIds,
         attachments'[a] # attachments[a],
         NEW row, row = IF attachments[a] = None THEN attachments'[a]
                                                 ELSE attachments[a]
  PROVE  \E c \in Callers, i \in Identities :
           Did(c, Member(i, rules[row.rule])) /\ Did(c, CanEdit(i, row.target))
<1>1. PICK c \in Callers : InsertAttachment(c) \/ DeleteAttachment(c)
  BY DEF AuthNext, Relate, Receive, Ask, CreateRule, WriteRule,
     AnswerRead, Rows, authVars
<1> DEFINE k == call[c]
           q == k.request
<1>2. /\ k \in Pending /\ k # None /\ k.ask = <<>> /\ Prepared(k)
      /\ q.op = IF InsertAttachment(c) THEN "attach" ELSE "detach"
  BY <1>1 DEF InsertAttachment, DeleteAttachment, Granted, AuthInv, AuthTypeOK
<1>3. call'[c] = None /\ q.by \in Identities
  BY <1>1, <1>2 DEF InsertAttachment, DeleteAttachment, Return, AuthInv,
     AuthTypeOK, Pending, Requests, Request
<1>4. Settled(k, Member(q.by, rules[row.rule]))
      /\ Settled(k, CanEdit(q.by, row.target))
  <2>1. CASE InsertAttachment(c)
    <3> DEFINE new == [rule |-> q.rule, target |-> q.target]
    <3>1. PICK b \in AttachmentIds \ minted :
            attachments' = [attachments EXCEPT ![b] = new]
      BY <2>1 DEF InsertAttachment
    <3>2. b = a
      BY <3>1 DEF AuthInv, AuthTypeOK
    <3>3. row = new
      BY <3>1, <3>2 DEF AuthInv, AuthTypeOK, RowsMinted
    <3>4. rules[q.rule] # None
      BY <2>1 DEF InsertAttachment
    <3>5. PICK o \in Organizations :
            /\ StillOf(q.rule, o)
            /\ Settled(k, Member(q.by, o)) /\ Settled(k, CanEdit(q.by, q.target))
      BY <1>2, <2>1 DEF Prepared
    <3>6. o = rules[row.rule] /\ q.target = row.target
      BY <3>3, <3>4, <3>5 DEF StillOf
    <3> QED BY <3>5, <3>6
  <2>2. CASE ~InsertAttachment(c)
    <3>1. DeleteAttachment(c)
      BY <1>1, <2>2
    <3>2. a = q.attachment /\ attachments'[a] = None
      BY <3>1 DEF DeleteAttachment, AuthInv, AuthTypeOK
    <3>3. PICK s \in [rule : RuleIds, target : Targets], o \in Organizations :
            /\ StillAt(q.attachment, s, o)
            /\ Settled(k, Member(q.by, o)) /\ Settled(k, CanEdit(q.by, s.target))
      BY <1>2, <2>2 DEF Prepared
    <3>4. row = s /\ o = rules[row.rule]
      BY <3>2, <3>3 DEF StillAt
    <3> QED BY <3>3, <3>4
  <2> QED BY <2>1, <2>2
<1>5. Member(q.by, rules[row.rule]) \in k.held /\ CanEdit(q.by, row.target) \in k.held
  BY <1>2, <1>4, AllSettled, PlacedApart
<1> QED BY <1>2, <1>3, <1>5 DEF Did

(* A row changes only when a request ends whose caller held, since it came   *)
(* in, what the change takes in the organization of the row as it is when it *)
(* changes, not as it was when it was read (authz.go before each statement). *)
THEOREM ChangesWereAllowed == AuthSpec => ChangesAreHeld
<1>1. AuthInv /\ [AuthNext]_authVars =>
        [/\ \A r \in RuleIds : rules'[r] # rules[r] =>
              LET org == IF rules[r] = None THEN rules'[r] ELSE rules[r] IN
              \E c \in Callers, i \in Identities : Did(c, Owner(i, org))
         /\ \A a \in AttachmentIds : attachments'[a] # attachments[a] =>
              LET row == IF attachments[a] = None THEN attachments'[a]
                                                  ELSE attachments[a] IN
              \E c \in Callers, i \in Identities :
                Did(c, Member(i, rules[row.rule])) /\ Did(c, CanEdit(i, row.target))
        ]_authVars
  BY RuleChangesHeld, AttachmentChangesHeld
<1> QED BY <1>1, AuthInvHolds, PTL DEF AuthSpec, ChangesAreHeld

=============================================================================
