----------------------------- MODULE Pagination ----------------------------
(* Listing rules or attachments page by page (ListEgressRules,               *)
(* ListEgressRuleAttachments) while rows are created and deleted.            *)
(*                                                                           *)
(* Each page is one query, in the order of the ids, of the rows after a      *)
(* cursor; the cursor travels through the client as an opaque token and the  *)
(* server keeps nothing between two pages.  The ids are random uuids, so a   *)
(* new row may land before the cursor as well as after it.                   *)
(*                                                                           *)
(* `table' holds the ids of the rows that match the request's filters.  All  *)
(* columns filtered on (organization, private resource or none, rule, agent) *)
(* keep their values while the row lives, so a row leaves only by deletion.  *)
EXTENDS Integers, FiniteSets

CONSTANTS Ids,              \* uuids in their order, as numbers above NoCursor
          PageSizes,        \* page_size values of requests, of any sign
          DefaultPageSize,  \* defaultListPageSize
          MaxPageSize       \* maxListPageSize

ASSUME PaginationAssumption ==
  /\ Ids \subseteq Nat \ {0}
  /\ PageSizes \subseteq Int
  /\ DefaultPageSize \in Nat \ {0}
  /\ MaxPageSize \in Nat \ {0}

VARIABLES table,     \* ids of the rows stored now
          used,      \* ids ever given out
          pageSize,  \* page_size of the next request
          cursor,    \* id in the page token of the next request
          done,      \* the last answer carried no page token
          listed,    \* ids the client has been given
          twice,     \* ids it has been given more than once
          kept       \* ids of the rows stored all through the listing

tableVars == <<table, used, kept>>
clientVars == <<pageSize, cursor, done, listed, twice>>
paginationVars == <<tableVars, clientVars>>

(* The empty page token: the first page.                                     *)
NoCursor == 0

PaginationTypeOK ==
  /\ table \subseteq used
  /\ used \subseteq Ids
  /\ pageSize \in PageSizes
  /\ cursor \in listed \cup {NoCursor}
  /\ done \in BOOLEAN
  /\ listed \subseteq used
  /\ twice \subseteq listed
  /\ kept \subseteq table

PaginationInit ==
  /\ table \in SUBSET Ids
  /\ used = table
  /\ kept = table
  /\ pageSize \in PageSizes
  /\ cursor = NoCursor
  /\ done = FALSE
  /\ listed = {}
  /\ twice = {}

---------------------------------------------------------------------------

(* Mutation: a page size of zero is taken as it is.                          *)
NormalizePageSize_Zero(size) ==
  IF size < 0 THEN DefaultPageSize
  ELSE IF size > MaxPageSize THEN MaxPageSize ELSE size

NormalizePageSize(size) ==
  IF size <= 0 THEN DefaultPageSize
  ELSE IF size > MaxPageSize THEN MaxPageSize ELSE size

(* ORDER BY id ASC LIMIT limit: a set of that many rows of S, or all of S if *)
(* it has fewer, with no row left out before one taken.                      *)
FirstRows(S, limit) ==
  {R \in SUBSET S : /\ \A i \in R, j \in S : j < i => j \in R
                    /\ \/ Cardinality(R) = limit
                       \/ R = S /\ Cardinality(R) < limit}

(* Mutation: the cursor's row is given once more.                            *)
Following_Inclusive(after) == {i \in table : i >= after}

(* WHERE id > cursor.AfterID; no condition on the first page.                *)
Following(after) == {i \in table : i > after}

Last(rows) == {i \in rows : \A j \in rows : j <= i}

(* Mutation: the cursor is the extra row that only shows there is more.      *)
NextCursors_OffByOne(rows, page) == Last(rows)

(* The id of the last row kept of a query's rows.                            *)
NextCursors(rows, page) == Last(page)

Give(page) ==
  /\ listed' = listed \cup page
  /\ twice' = twice \cup (listed \cap page)
  /\ pageSize' \in PageSizes

(* One request and its answer.  The query asks for one row more than the     *)
(* page holds; if it comes, it is cut off and a token is returned.  A        *)
(* request that is lost or answered twice changes nothing at the server, and *)
(* the client asks again with the same token.                                *)
ListPage ==
  LET limit == NormalizePageSize(pageSize) IN
  /\ ~done
  /\ \E rows \in FirstRows(Following(cursor), limit + 1) :
       \/ /\ Cardinality(rows) > limit
          /\ \E page \in FirstRows(rows, limit) :
               /\ cursor' \in NextCursors(rows, page)
               /\ Give(page)
          /\ done' = done
       \/ /\ Cardinality(rows) <= limit
          /\ Give(rows)
          /\ done' = TRUE
          /\ cursor' = cursor
  /\ UNCHANGED tableVars

(* Any row is created or deleted between two pages.                          *)
InsertRow(i) ==
  /\ i \notin used
  /\ table' = table \cup {i}
  /\ used' = used \cup {i}
  /\ UNCHANGED <<kept, clientVars>>

DeleteRow(i) ==
  /\ i \in table
  /\ table' = table \ {i}
  /\ kept' = kept \ {i}
  /\ UNCHANGED <<used, clientVars>>

PaginationNext == ListPage \/ \E i \in Ids : InsertRow(i) \/ DeleteRow(i)

PaginationSpec == PaginationInit /\ [][PaginationNext]_paginationVars

(* A client that goes on asking for the next page.                           *)
PaginationFairSpec == PaginationSpec /\ WF_paginationVars(ListPage)

---------------------------------------------------------------------------

(* Every row that is there from the first page to the last is on one of      *)
(* them, whatever is created or deleted around it, the cursor's own row      *)
(* included, and however the client changes its page size on the way         *)
(* (ListRules, ListAttachments: the cursor is the last row kept of limit+1). *)
Complete == done => kept \subseteq listed

(* No row is on two pages (ListRules, ListAttachments: id > cursor).         *)
NoRowTwice == twice = {}

(* A client that follows the tokens comes to the end, page sizes of zero and *)
(* below included: NormalizePageSize leaves no page empty that is not the    *)
(* last, so every token moves on.                                            *)
Terminates == <>done

=============================================================================
