------------------------- MODULE PaginationProofs --------------------------
(* Lists that change while they are read page by page.  A client's listing   *)
(* is complete and repeats nothing, for any rows and page sizes; a sweep     *)
(* through the controller's list takes nothing that is not an orphan, and    *)
(* undisturbed it takes all or, with offsets for tokens, some of them.       *)
EXTENDS Pagination, OrphanSweep, FiniteSetTheorems, TLAPS

---------------------------------------------------------------------------
(* Listings.                                                                 *)

(* What is behind the cursor has been listed, unless it was created behind   *)
(* it; nothing ahead of the cursor has been listed yet.                      *)
CursorInv ==
  /\ PaginationTypeOK
  /\ \A i \in kept : (done \/ i <= cursor) => i \in listed
  /\ ~done => \A i \in listed : i <= cursor
  /\ twice = {}

(* Every page size normalises to one that a page can have.                   *)
LEMMA PageSizePositive ==
  ASSUME NEW size \in Int
  PROVE  NormalizePageSize(size) \in Nat \ {0}
BY PaginationAssumption DEF NormalizePageSize

(* The first rows of the first rows are first rows: nothing before a row of  *)
(* a page is left out.                                                       *)
LEMMA PageIsPrefix ==
  ASSUME NEW S, NEW m, NEW n, NEW rows \in FirstRows(S, m),
         NEW page \in FirstRows(rows, n)
  PROVE  /\ page \subseteq S
         /\ \A i \in page, j \in S : j < i => j \in page
BY DEF FirstRows

(* A query that returns no extra row returns all there is.                   *)
LEMMA ShortIsAll ==
  ASSUME NEW S, NEW limit \in Nat, NEW rows \in FirstRows(S, limit + 1),
         Cardinality(rows) <= limit
  PROVE  rows = S
<1>1. Cardinality(rows) # limit + 1
  OBVIOUS
<1> QED BY <1>1 DEF FirstRows

(* A page that a token follows keeps the invariant.                          *)
LEMMA PageWithToken ==
  ASSUME CursorInv, ~done, NEW limit,
         NEW rows \in FirstRows(Following(cursor), limit + 1),
         NEW page \in FirstRows(rows, limit),
         cursor' \in NextCursors(rows, page), Give(page), done' = done,
         UNCHANGED tableVars
  PROVE  CursorInv'
<1>1. /\ page \subseteq Following(cursor)
      /\ \A i \in page, j \in Following(cursor) : j < i => j \in page
  BY PageIsPrefix
<1>2. /\ cursor' \in page
      /\ \A j \in page : j <= cursor'
  BY DEF NextCursors, Last
<1>3. /\ page \subseteq table
      /\ table \subseteq Ids
      /\ Ids \subseteq Nat
      /\ listed \subseteq Nat
      /\ cursor \in Nat
      /\ cursor' > cursor
      /\ cursor' \in Nat
  BY <1>1, <1>2, PaginationAssumption
     DEF CursorInv, PaginationTypeOK, Following, NoCursor
<1>4. PaginationTypeOK'
  BY <1>2, <1>3 DEF CursorInv, PaginationTypeOK, Give, tableVars
<1>5. ASSUME NEW i \in kept', done' \/ i <= cursor'
      PROVE  i \in listed'
  <2>1. i \in kept /\ i \in table /\ i \in Nat
    BY <1>3, <1>5 DEF tableVars, CursorInv, PaginationTypeOK
  <2>2. CASE i <= cursor
    BY <2>1, <2>2 DEF CursorInv, Give
  <2>3. CASE i > cursor
    <3>1. i \in Following(cursor)
      BY <2>1, <2>3 DEF Following
    <3>2. i \in page
      BY <1>1, <1>2, <1>3, <1>5, <2>1, <3>1
    <3> QED BY <3>2 DEF Give
  <2> QED BY <1>3, <2>1, <2>2, <2>3
<1>6. \A i \in listed' : i <= cursor'
  <2>1. \A i \in listed : i \in Nat /\ i <= cursor
    BY <1>3 DEF CursorInv
  <2>2. \A i \in listed : i <= cursor'
    BY <1>3, <2>1
  <2> QED BY <1>2, <2>2 DEF Give
<1>7. twice' = {}
  <2>1. \A i \in listed : i \notin page
    BY <1>1, <1>3 DEF CursorInv, Following
  <2> QED BY <2>1 DEF CursorInv, Give
<1> QED BY <1>4, <1>5, <1>6, <1>7 DEF CursorInv

(* The last page lists all that was ahead of the cursor.                     *)
LEMMA LastPage ==
  ASSUME CursorInv, ~done, Give(Following(cursor)), done' = TRUE,
         cursor' = cursor, UNCHANGED tableVars
  PROVE  CursorInv'
<1>1. /\ table \subseteq Ids
      /\ Ids \subseteq Nat
      /\ listed \subseteq Nat
      /\ cursor \in Nat
  BY PaginationAssumption DEF CursorInv, PaginationTypeOK, NoCursor
<1>2. PaginationTypeOK'
  BY <1>1 DEF CursorInv, PaginationTypeOK, Give, Following, tableVars
<1>3. ASSUME NEW i \in kept'
      PROVE  i \in listed'
  <2>1. i \in kept /\ i \in table /\ i \in Nat
    BY <1>1, <1>3 DEF tableVars, CursorInv, PaginationTypeOK
  <2>2. CASE i <= cursor
    BY <2>1, <2>2 DEF CursorInv, Give
  <2>3. CASE i > cursor
    BY <2>1, <2>3 DEF Following, Give
  <2> QED BY <1>1, <2>1, <2>2, <2>3
<1>4. twice' = {}
  <2>1. \A i \in listed : i \notin Following(cursor)
    BY <1>1 DEF CursorInv, Following
  <2> QED BY <2>1 DEF CursorInv, Give
<1> QED BY <1>2, <1>3, <1>4 DEF CursorInv

LEMMA CursorInvInit == PaginationInit => CursorInv
<1> SUFFICES ASSUME PaginationInit PROVE CursorInv
  OBVIOUS
<1>1. PaginationTypeOK
  BY DEF PaginationInit, PaginationTypeOK
<1>2. \A i \in kept : ~(i <= cursor)
  <2>1. kept \subseteq Nat \ {0} /\ cursor = 0
    BY PaginationAssumption DEF PaginationInit, NoCursor
  <2> QED BY <2>1
<1> QED BY <1>1, <1>2 DEF PaginationInit, CursorInv

LEMMA CursorInvNext == CursorInv /\ [PaginationNext]_paginationVars => CursorInv'
<1> SUFFICES ASSUME CursorInv, [PaginationNext]_paginationVars
             PROVE  CursorInv'
  OBVIOUS
<1>1. CASE ListPage
  <2> DEFINE limit == NormalizePageSize(pageSize)
  <2>1. limit \in Nat
    BY PageSizePositive, PaginationAssumption DEF CursorInv, PaginationTypeOK
  <2> HIDE DEF limit
  <2>2. PICK rows \in FirstRows(Following(cursor), limit + 1) :
          \/ /\ Cardinality(rows) > limit
             /\ \E page \in FirstRows(rows, limit) :
                  /\ cursor' \in NextCursors(rows, page)
                  /\ Give(page)
             /\ done' = done
          \/ /\ Cardinality(rows) <= limit
             /\ Give(rows)
             /\ done' = TRUE
             /\ cursor' = cursor
    BY <1>1 DEF ListPage, limit
  <2>3. ~done /\ UNCHANGED tableVars
    BY <1>1 DEF ListPage
  <2>4. CASE /\ done' = done
             /\ \E page \in FirstRows(rows, limit) :
                  cursor' \in NextCursors(rows, page) /\ Give(page)
    BY <2>3, <2>4, PageWithToken
  <2>5. CASE /\ Cardinality(rows) <= limit
             /\ Give(rows)
             /\ done' = TRUE
             /\ cursor' = cursor
    BY <2>1, <2>3, <2>5, ShortIsAll, LastPage
  <2> QED BY <2>2, <2>4, <2>5
<1>2. CASE \E i \in Ids : InsertRow(i)
  BY <1>2 DEF InsertRow, clientVars, CursorInv, PaginationTypeOK
<1>3. CASE \E i \in Ids : DeleteRow(i)
  BY <1>3 DEF DeleteRow, clientVars, CursorInv, PaginationTypeOK
<1>4. CASE UNCHANGED paginationVars
  BY <1>4 DEF paginationVars, tableVars, clientVars, CursorInv, PaginationTypeOK
<1> QED BY <1>1, <1>2, <1>3, <1>4 DEF PaginationNext

LEMMA CursorInvariant == PaginationSpec => []CursorInv
BY CursorInvInit, CursorInvNext, PTL DEF PaginationSpec

(* Types: the cursor is nothing or the id of a row already listed            *)
(* (ListRules, ListAttachments).                                             *)
THEOREM PaginationTypeCorrect == PaginationSpec => []PaginationTypeOK
<1>1. CursorInv => PaginationTypeOK
  BY DEF CursorInv
<1> QED BY <1>1, CursorInvariant, PTL

(* Every row stored throughout a listing is on one of its pages, for any     *)
(* number of rows, any page sizes and any rows created and deleted meanwhile *)
(* (ListRules, ListAttachments).                                             *)
THEOREM ListingComplete == PaginationSpec => []Complete
<1>1. CursorInv => Complete
  BY DEF CursorInv, Complete
<1> QED BY <1>1, CursorInvariant, PTL

(* No row is on two pages of a listing.                                      *)
THEOREM ListingRepeatsNothing == PaginationSpec => []NoRowTwice
<1>1. CursorInv => NoRowTwice
  BY DEF CursorInv, NoRowTwice
<1> QED BY <1>1, CursorInvariant, PTL
---------------------------------------------------------------------------
(* Sweeps: numbers and pages.                                                *)

LEMMA LeastOf ==
  ASSUME NEW S \in SUBSET Nat, S # {}
  PROVE  \E m \in S : \A n \in S : m <= n
<1>1. PICK m \in S : \A n \in S : <<n, m>> \notin OpToRel(<, Nat)
  BY NatLessThanWellFounded, WFMin
<1>2. \A i, j \in Nat : i < j => <<i, j>> \in OpToRel(<, Nat)
  BY DEF OpToRel
<1>3. \A n \in S : m \in Nat /\ n \in Nat /\ ~(n < m)
  BY <1>1, <1>2
<1>4. \A n \in S : m <= n
  BY <1>3
<1> QED BY <1>4

(* The greatest has the fewest above it.                                     *)
LEMMA MaxIsGreatest ==
  ASSUME NEW S \in SUBSET Nat, S # {}, IsFiniteSet(S)
  PROVE  Max(S) \in S /\ \A n \in S : Max(S) >= n
<1> DEFINE Above(m) == {k \in S : k > m}
<1>1. \A m \in S : IsFiniteSet(Above(m)) /\ Cardinality(Above(m)) \in Nat
  BY FS_Subset, FS_CardinalityType
<1>2. PICK c \in {Cardinality(Above(m)) : m \in S} :
        \A d \in {Cardinality(Above(m)) : m \in S} : c <= d
  <2> HIDE DEF Above
  <2> QED BY ZenonT(60), <1>1, LeastOf
<1>3. PICK m \in S : c = Cardinality(Above(m))
  BY <1>2
<1>4. \A n \in S : Cardinality(Above(m)) <= Cardinality(Above(n))
  BY <1>2, <1>3
<1>5. ASSUME NEW n \in S, n > m
      PROVE  FALSE
  <2>1. Above(n) \subseteq Above(m) /\ n \in Above(m) /\ n \notin Above(n)
    <3>1. m \in Nat /\ n \in Nat /\ \A k \in S : k \in Nat
      OBVIOUS
    <3>2. \A k \in S : k > n => k > m
      BY <1>5, <3>1
    <3>3. ~(n > n)
      BY <3>1
    <3> QED BY <1>5, <3>2, <3>3
  <2>2. Cardinality(Above(n)) <= Cardinality(Above(m))
        /\ Cardinality(Above(n)) # Cardinality(Above(m))
    <3> HIDE DEF Above
    <3> QED BY <1>1, <2>1, FS_Subset
  <2> HIDE DEF Above
  <2> QED BY <1>1, <1>4, <2>2
<1>6. \A n \in S : m >= n
  BY <1>5
<1> QED BY <1>6 DEF Max

LEMMA FiniteNames ==
  ASSUME NEW S \in SUBSET Names
  PROVE  S \in SUBSET Nat /\ IsFiniteSet(S) /\ Cardinality(S) \in Nat
BY SweepAssumption, FS_Subset, FS_CardinalityType DEF SweepAssumption

(* The first of a set are before the others, and as many as a page holds.    *)
LEMMA FirstComeFirst ==
  ASSUME NEW S \in SUBSET Names, NEW n \in S \ FirstOf(S)
  PROVE  /\ Cardinality({m \in S : m < n}) >= PageSize
         /\ \A m \in FirstOf(S) : m < n
         /\ FirstOf(S) # {}
<1> DEFINE Before(m) == {k \in S : k < m}
<1>1. \A m \in S : Before(m) \in SUBSET Names /\ Cardinality(Before(m)) \in Nat
  BY FiniteNames
<1>2. PageSize \in Nat /\ PageSize > 0 /\ S \subseteq Nat
  BY SweepAssumption DEF SweepAssumption
<1>3. Cardinality(Before(n)) >= PageSize
  BY <1>1, <1>2 DEF FirstOf
<1>4. ASSUME NEW m \in FirstOf(S)
      PROVE  m < n
  <2>1. Cardinality(Before(m)) < PageSize /\ m \in S
    BY DEF FirstOf
  <2>2. CASE n <= m
    <3>1. Before(n) \in SUBSET Before(m) /\ IsFiniteSet(Before(m))
      <4>1. m \in Nat /\ n \in Nat /\ \A k \in S : k \in Nat
        BY <1>2, <2>1
      <4>2. Before(n) \in SUBSET Before(m)
        <5>1. \A k \in S : k < n => k < m
          BY <2>2, <4>1
        <5> QED BY <5>1
      <4>3. IsFiniteSet(Before(m))
        BY <1>1, <2>1, FiniteNames
      <4> QED BY <4>2, <4>3
    <3>2. Cardinality(Before(n)) <= Cardinality(Before(m))
      <4> HIDE DEF Before
      <4> QED BY <3>1, FS_Subset
    <3> HIDE DEF Before
    <3> QED BY <1>1, <1>2, <1>3, <2>1, <3>2
  <2> QED BY <1>2, <2>1, <2>2
<1>5. PICK l \in S : \A m \in S : l <= m
  BY <1>2, LeastOf
<1>6. Before(l) = {}
  <2>1. l \in Nat /\ \A k \in S : k \in Nat
    BY <1>2
  <2>2. \A k \in S : ~(k < l)
    BY <1>5, <2>1
  <2> QED BY <2>2
<1>7. l \in FirstOf(S)
  BY <1>2, <1>6, FS_EmptySet DEF FirstOf
<1> QED BY <1>3, <1>4, <1>7

(* What comes after one page by its offset comes after the names on it.      *)
LEMMA OffsetGoesOn ==
  ASSUME paging = "offset", NEW token \in Nat,
         NEW n \in After(token) \ Page(token)
  PROVE  n \in After(token + PageSize)
<1> DEFINE Rank(m) == Cardinality({k \in Held : k < m})
           Passed == {k \in Held : k < n /\ k \notin After(token)}
           Coming == {k \in After(token) : k < n}
<1>1. /\ Held \in SUBSET Names /\ Held \subseteq Nat /\ After(token) \subseteq Held
      /\ PageSize \in Nat
      /\ \A m \in Held : Rank(m) \in Nat
  <2>1. Held \in SUBSET Names /\ After(token) \subseteq Held
    BY DEF Held, After
  <2>2. \A m \in Held : Rank(m) \in Nat
    BY <2>1, FiniteNames
  <2> QED BY <2>1, <2>2, SweepAssumption DEF SweepAssumption
<1>2. After(token) = {m \in Held : Rank(m) >= token}
  BY DEF After
<1>3. PICK l \in After(token) : \A m \in After(token) : l <= m
  BY <1>1, LeastOf
<1>4. {k \in Held : k < l} \in SUBSET Passed
  <2>1. l \in Nat /\ n \in Nat /\ l <= n /\ \A k \in Held : k \in Nat
    BY <1>1, <1>3
  <2>2. \A k \in After(token) : ~(k < l)
    BY <1>1, <1>3, <2>1
  <2> QED BY <2>1, <2>2
<1>5. /\ IsFiniteSet(Passed) /\ Cardinality(Passed) \in Nat
      /\ IsFiniteSet(Coming) /\ Cardinality(Coming) \in Nat
      /\ Passed \cap Coming = {}
      /\ Passed \cup Coming \in SUBSET {k \in Held : k < n}
  <2>1. Passed \in SUBSET Names /\ Coming \in SUBSET Names
    BY <1>1
  <2>2. /\ Passed \cap Coming = {}
        /\ Passed \cup Coming \in SUBSET {k \in Held : k < n}
    BY <1>1
  <2> HIDE DEF Passed, Coming
  <2> QED BY <2>1, <2>2, FiniteNames
<1>6. Rank(l) <= Cardinality(Passed)
  <2> HIDE DEF Passed
  <2> QED BY <1>4, <1>5, FS_Subset
<1>7. Cardinality(Coming) >= PageSize
  BY <1>1, FirstComeFirst DEF Page
<1>8. Cardinality(Passed \cup Coming) = Cardinality(Passed) + Cardinality(Coming)
  <2> HIDE DEF Passed, Coming
  <2>1. Cardinality(Passed \cup Coming) =
          Cardinality(Passed) + Cardinality(Coming) - Cardinality({})
    BY <1>5, FS_Union
  <2> QED BY <1>5, <2>1, FS_EmptySet
<1>9. Cardinality(Passed \cup Coming) <= Rank(n)
  <2>1. IsFiniteSet({k \in Held : k < n})
    BY <1>1, FiniteNames
  <2> HIDE DEF Passed, Coming
  <2> QED BY <1>5, <2>1, FS_Subset
<1>10. Rank(l) >= token /\ n \in Held /\ l \in Held
  BY <1>1, <1>2, <1>3
<1>11. Rank(n) >= token + PageSize
  <2> HIDE DEF Passed, Coming, Rank
  <2> QED BY <1>1, <1>5, <1>6, <1>7, <1>8, <1>9, <1>10
<1> QED BY <1>10, <1>11 DEF After

(* Whatever tokens are, going on with the next one misses no name.           *)
LEMMA NextGoesOn ==
  ASSUME paging \in {"offset", "name"}, NEW token \in Nat,
         NEW n \in After(token) \ Page(token)
  PROVE  NextToken(token) # FirstPage /\ n \in After(NextToken(token))
<1>1. After(token) \in SUBSET Names /\ After(token) # Page(token) /\ n \in Held
  BY DEF After, Held
<1>2. PageSize \in Nat /\ PageSize > 0 /\ Names \subseteq Nat \ {0}
  BY SweepAssumption DEF SweepAssumption
<1>3. CASE paging = "offset"
  BY <1>1, <1>2, <1>3, OffsetGoesOn DEF NextToken, FirstPage
<1>4. CASE paging = "name"
  <2>1. Page(token) # {} /\ \A m \in Page(token) : m < n
    BY <1>1, FirstComeFirst DEF Page
  <2>2. Page(token) \in SUBSET Names
    BY <1>1 DEF Page, FirstOf
  <2>3. Max(Page(token)) \in Page(token)
    BY <2>1, <2>2, FiniteNames, MaxIsGreatest
  <2> QED BY <1>1, <1>2, <1>4, <2>1, <2>2, <2>3 DEF NextToken, FirstPage, After
<1> QED BY <1>3, <1>4

(* A token is a number.                                                      *)
LEMMA TokenIsNat ==
  ASSUME paging \in {"offset", "name"}, NEW token \in Nat
  PROVE  NextToken(token) \in Nat
<1>1. After(token) \in SUBSET Names /\ Page(token) \subseteq After(token)
  BY DEF After, Held, Page, FirstOf
<1>2. CASE After(token) = Page(token)
  BY <1>2 DEF NextToken, FirstPage
<1>3. CASE After(token) # Page(token) /\ paging = "name"
  <2>1. Page(token) # {}
    BY <1>1, <1>3, FirstComeFirst DEF Page
  <2>2. Max(Page(token)) \in Nat
    BY <1>1, <2>1, FiniteNames, MaxIsGreatest
  <2> QED BY <1>3, <2>2 DEF NextToken
<1>4. CASE After(token) # Page(token) /\ paging = "offset"
  BY <1>4, SweepAssumption DEF NextToken, SweepAssumption
<1> QED BY <1>2, <1>3, <1>4
---------------------------------------------------------------------------
(* Sweeps: an id is issued once, so an entry of a page never turns into what *)
(* somebody else holds.                                                      *)

Entries == [name : Names, id : Nat \ {NoId}]

SweepStates ==
  [at : {"idle", "list", "page"}, managed : SUBSET Names, token : Nat,
   page : SUBSET Entries, next : Nat, issued : Nat, orphans : Nat,
   quiet : BOOLEAN]

SweepTypes ==
  /\ paging \in {"offset", "name"}
  /\ stored \subseteq Names \ Unswept
  /\ held \in [Names -> Nat] /\ ids \in Nat
  /\ sweep \in SweepStates
  /\ writes \in Nat

IdsUnique ==
  /\ \A n \in Names : held[n] <= ids
  /\ \A m, n \in Names : held[m] = held[n] /\ held[m] # NoId => m = n
  /\ sweep.issued <= ids
  /\ \A e \in sweep.page :
       /\ e.id <= sweep.issued
       /\ \A n \in Names : held[n] = e.id => n = e.name

SweepInv == SweepTypes /\ IdsUnique

LEMMA OrphansAreNames ==
  /\ Orphans \in SUBSET Names /\ Held \in SUBSET Names
  /\ Cardinality(Orphans) \in Nat /\ IsFiniteSet(Orphans)
<1>1. Orphans \in SUBSET Names /\ Held \in SUBSET Names
  BY DEF Orphans, Held
<1> QED BY <1>1, FiniteNames

LEMMA IdleSweep == Idle \in SweepStates /\ Idle.page = {} /\ Idle.issued = 0
  /\ Idle.quiet = FALSE /\ Idle.at = "idle"
<1>1. {} \in SUBSET Entries /\ {} \in SUBSET Names
  OBVIOUS
<1> QED BY <1>1 DEF Idle, SweepStates, FirstPage

(* What a list request brings.                                               *)
LEMMA ListedEntries ==
  ASSUME SweepTypes, NEW token \in Nat
  PROVE  LET page == {[name |-> n, id |-> held[n]] : n \in Page(token)}
         IN  /\ page \in SUBSET Entries
             /\ \A e \in page : e.name \in Names /\ e.id = held[e.name]
<1>1. Page(token) \subseteq Held
  BY DEF Page, FirstOf, After
<1>2. \A n \in Held : n \in Names /\ held[n] \in Nat \ {NoId}
  BY DEF Held, SweepTypes
<1> QED BY <1>1, <1>2 DEF Entries

(* The ids stay unique while names lose theirs and nothing else moves than   *)
(* the sweep, on a page no larger.                                           *)
LEMMA LosingKeepsUnique ==
  ASSUME SweepInv, ids' = ids, held' \in [Names -> Nat], sweep' \in SweepStates,
         \A n \in Names : held'[n] \in {held[n], NoId},
         sweep'.page \subseteq sweep.page,
         \/ sweep'.issued = sweep.issued
         \/ sweep'.issued = 0 /\ sweep'.page = {}
  PROVE  IdsUnique'
<1>1. \A e \in sweep.page : e.id # NoId
  BY DEF SweepInv, SweepTypes, SweepStates, Entries
<1>2. sweep.issued \in Nat /\ ids \in Nat /\ \A n \in Names : held[n] \in Nat
  BY DEF SweepInv, SweepTypes, SweepStates
<1>3. (\A n \in Names : held[n] <= ids)'
  BY <1>2 DEF SweepInv, IdsUnique, NoId
<1>4. (\A m, n \in Names : held[m] = held[n] /\ held[m] # NoId => m = n)'
  BY <1>2 DEF SweepInv, IdsUnique, NoId
<1>5. (sweep.issued <= ids)'
  BY <1>2 DEF SweepInv, IdsUnique
<1>6. ASSUME NEW e \in sweep'.page
      PROVE  /\ e.id <= sweep'.issued
             /\ \A n \in Names : held'[n] = e.id => n = e.name
  <2>1. e \in sweep.page /\ e.id # NoId
    BY <1>1
  <2>2. sweep'.issued = sweep.issued
    BY <1>6
  <2> QED BY <2>1, <2>2 DEF SweepInv, IdsUnique
<1> QED BY <1>3, <1>4, <1>5, <1>6 DEF IdsUnique

LEMMA SweepInvInit == SweepInit => SweepInv
<1> SUFFICES ASSUME SweepInit PROVE SweepInv
  OBVIOUS
<1>1. Names \cup {NoId} \in SUBSET Nat /\ IsFiniteSet(Names \cup {NoId})
      /\ Names \cup {NoId} # {} /\ Names \subseteq Nat \ {0}
  BY SweepAssumption, FS_AddElement DEF SweepAssumption, NoId
<1>2. ids \in Nat /\ \A n \in Names \cup {NoId} : n <= ids
  <2>1. ids = Max(Names \cup {NoId})
    BY DEF SweepInit
  <2>2. ids \in Names \cup {NoId} /\ \A n \in Names \cup {NoId} : ids >= n
    BY <1>1, <2>1, MaxIsGreatest
  <2> QED BY <1>1, <2>2
<1>3. PICK H \in SUBSET Names : held = [n \in Names |-> IF n \in H THEN n ELSE NoId]
  BY DEF SweepInit
<1>4. SweepTypes
  <2>1. held \in [Names -> Nat]
    BY <1>1, <1>3 DEF NoId
  <2>2. stored \subseteq Names \ Unswept /\ paging \in {"offset", "name"}
        /\ writes \in Nat /\ sweep = Idle
    BY DEF SweepInit
  <2> QED BY <1>2, <2>1, <2>2, IdleSweep DEF SweepTypes
<1>5. IdsUnique
  <2>1. sweep = Idle
    BY DEF SweepInit
  <2>2. sweep.page = {} /\ sweep.issued = 0
    BY <2>1, IdleSweep
  <2>3. \A n \in Names : held[n] = n \/ held[n] = NoId
    BY <1>3
  <2>4. \A n \in Names : held[n] <= ids
    BY <1>2, <2>3
  <2>5. \A m, n \in Names : held[m] = held[n] /\ held[m] # NoId => m = n
    BY <2>3
  <2> QED BY <1>2, <2>2, <2>4, <2>5 DEF IdsUnique
<1> QED BY <1>4, <1>5 DEF SweepInv

(* What DeleteEntry takes is what was listed.                                *)
LEMMA TakenIsListed ==
  ASSUME SweepInv, NEW e \in sweep.page
  PROVE  /\ e.name \in Names /\ e.id \in Nat \ {NoId}
         /\ e.id <= sweep.issued
         /\ \A n \in Names : held[n] = e.id => n = e.name
BY DEF SweepInv, SweepTypes, SweepStates, Entries, IdsUnique
(* The sweep goes on, or ends, or is disturbed, and stays well formed.       *)
LEMMA SweepMovesOn ==
  ASSUME sweep \in SweepStates,
         \/ sweep' = Idle
         \/ \E e \in sweep.page : sweep' = [sweep EXCEPT !.page = @ \ {e}]
         \/ sweep' = [sweep EXCEPT !.at = "list", !.token = sweep.next]
         \/ sweep' = [sweep EXCEPT !.quiet = FALSE]
         \/ sweep' = sweep
  PROVE  /\ sweep' \in SweepStates /\ sweep'.page \subseteq sweep.page
         /\ \/ sweep'.issued = sweep.issued
            \/ sweep'.issued = 0 /\ sweep'.page = {}
<1>1. CASE sweep' = Idle
  BY <1>1, IdleSweep
<1>2. CASE \E e \in sweep.page : sweep' = [sweep EXCEPT !.page = @ \ {e}]
  <2>1. PICK e \in sweep.page : sweep' = [sweep EXCEPT !.page = @ \ {e}]
    BY <1>2
  <2>2. sweep.page \ {e} \in SUBSET Entries
    BY DEF SweepStates
  <2>3. ASSUME NEW left \in SUBSET Entries
        PROVE  /\ [sweep EXCEPT !.page = left] \in SweepStates
               /\ [sweep EXCEPT !.page = left].page = left
               /\ [sweep EXCEPT !.page = left].issued = sweep.issued
    BY DEF SweepStates
  <2>4. sweep' = [sweep EXCEPT !.page = sweep.page \ {e}]
    BY <2>1
  <2> QED BY <2>2, <2>3, <2>4
<1>3. CASE sweep' = [sweep EXCEPT !.at = "list", !.token = sweep.next]
  <2>1. sweep' \in SweepStates
    BY <1>3 DEF SweepStates
  <2>2. sweep'.page = sweep.page /\ sweep'.issued = sweep.issued
    BY <1>3 DEF SweepStates
  <2> QED BY <2>1, <2>2
<1>4. CASE sweep' = [sweep EXCEPT !.quiet = FALSE]
  <2>1. sweep' \in SweepStates
    BY <1>4 DEF SweepStates
  <2>2. sweep'.page = sweep.page /\ sweep'.issued = sweep.issued
    BY <1>4 DEF SweepStates
  <2> QED BY <2>1, <2>2
<1>5. CASE sweep' = sweep
  BY <1>5
<1> QED BY <1>1, <1>2, <1>3, <1>4, <1>5

LEMMA ListedKeeps ==
  ASSUME SweepInv, ListNextPage
  PROVE  SweepInv'
<1> DEFINE page == {[name |-> n, id |-> held[n]] : n \in Page(sweep.token)}
<1>1. /\ UNCHANGED <<fixed, stored, ids, writes, held>>
      /\ sweep' = [sweep EXCEPT !.at = "page", !.next = NextToken(sweep.token),
                                !.issued = ids, !.page = page]
  BY DEF ListNextPage, SweepMoves
<1>2. /\ sweep \in SweepStates /\ ids \in Nat /\ sweep.token \in Nat
      /\ paging \in {"offset", "name"} /\ NextToken(sweep.token) \in Nat
  BY TokenIsNat DEF SweepInv, SweepTypes, SweepStates
<1>3. /\ page \in SUBSET Entries
      /\ \A e \in page : e.name \in Names /\ e.id = held[e.name]
  BY <1>2, ListedEntries DEF SweepInv
<1> HIDE DEF page
<1>4. sweep' \in SweepStates /\ sweep'.page = page /\ sweep'.issued = ids
  BY <1>1, <1>2, <1>3 DEF SweepStates
<1>5. SweepTypes'
  BY <1>1, <1>4 DEF SweepInv, SweepTypes, Unswept, fixed
<1>6. \A e \in page : e.id # NoId
  BY <1>3 DEF Entries
<1>7. IdsUnique'
  BY <1>1, <1>2, <1>3, <1>4, <1>6 DEF SweepInv, IdsUnique, SweepTypes
<1> QED BY <1>5, <1>7 DEF SweepInv

LEMMA SnapshotKeeps ==
  ASSUME SweepInv, Snapshot
  PROVE  SweepInv'
<1>1. /\ UNCHANGED <<fixed, stored, ids, writes, held>>
      /\ sweep' = [Idle EXCEPT !.at = "list", !.managed = stored,
                     !.orphans = Cardinality(Orphans), !.quiet = TRUE]
  BY DEF Snapshot, SweepMoves
<1>2. stored \in SUBSET Names
  BY DEF SweepInv, SweepTypes
<1>3. sweep' \in SweepStates /\ sweep'.page = {} /\ sweep'.issued = 0
  BY <1>1, <1>2, IdleSweep, OrphansAreNames DEF SweepStates
<1>4. SweepTypes'
  BY <1>1, <1>3 DEF SweepInv, SweepTypes, Unswept, fixed
<1>5. IdsUnique'
  BY <1>1, <1>3 DEF SweepInv, SweepTypes, IdsUnique
<1> QED BY <1>4, <1>5 DEF SweepInv

LEMMA ProvisionKeeps ==
  ASSUME SweepInv, Provision
  PROVE  SweepInv'
<1>1. PICK n \in Names : held' = [held EXCEPT ![n] = ids + 1]
  BY DEF Provision
<1>2. /\ UNCHANGED <<fixed, stored>> /\ ids' = ids + 1 /\ writes' = writes + 1
      /\ sweep' = [sweep EXCEPT !.quiet = FALSE]
  BY DEF Provision, HandlerWrites
<1>3. /\ held \in [Names -> Nat] /\ ids \in Nat /\ sweep \in SweepStates
      /\ sweep.issued \in Nat /\ writes \in Nat
  BY DEF SweepInv, SweepTypes, SweepStates
<1>4. /\ sweep' \in SweepStates /\ sweep'.page = sweep.page
      /\ sweep'.issued = sweep.issued
  BY <1>2, <1>3 DEF SweepStates
<1>5. SweepTypes'
  BY <1>1, <1>2, <1>3, <1>4 DEF SweepInv, SweepTypes, Unswept, fixed
<1>6. \A m \in Names : held'[m] = IF m = n THEN ids + 1 ELSE held[m]
  BY <1>1, <1>3
<1>7. \A m \in Names : held[m] <= ids /\ held[m] \in Nat
  BY <1>3 DEF SweepInv, IdsUnique
<1>8. (\A m \in Names : held[m] <= ids)'
  BY <1>2, <1>3, <1>6, <1>7
<1>9. (\A m, k \in Names : held[m] = held[k] /\ held[m] # NoId => m = k)'
  BY <1>3, <1>6, <1>7 DEF SweepInv, IdsUnique
<1>10. (sweep.issued <= ids)'
  BY <1>2, <1>3, <1>4 DEF SweepInv, IdsUnique
<1>11. ASSUME NEW e \in sweep.page
       PROVE  /\ e.id <= sweep'.issued
              /\ \A m \in Names : held'[m] = e.id => m = e.name
  <2>1. e.id \in Nat /\ e.id <= sweep.issued /\ sweep.issued <= ids
        /\ \A m \in Names : held[m] = e.id => m = e.name
    BY TakenIsListed DEF SweepInv, IdsUnique
  <2>2. e.id # ids + 1
    BY <1>3, <2>1
  <2> QED BY <1>4, <1>6, <2>1, <2>2
<1> QED BY <1>4, <1>5, <1>8, <1>9, <1>10, <1>11 DEF SweepInv, IdsUnique

(* What every other step does to ids and to the sweep.                       *)
LEMMA OthersLose ==
  ASSUME SweepInv,
         \/ SkipEntry \/ DeleteEntry \/ PageDone \/ SweepFails
         \/ StoreRow \/ RemoveRow \/ Deprovision \/ UNCHANGED sweepVars
  PROVE  /\ UNCHANGED <<fixed, ids>> /\ writes' \in Nat
         /\ stored' \subseteq Names \ Unswept
         /\ held' \in [Names -> Nat]
         /\ \A n \in Names : held'[n] \in {held[n], NoId}
         /\ \/ sweep' = Idle
            \/ \E e \in sweep.page : sweep' = [sweep EXCEPT !.page = @ \ {e}]
            \/ sweep' = [sweep EXCEPT !.at = "list", !.token = sweep.next]
            \/ sweep' = [sweep EXCEPT !.quiet = FALSE]
            \/ sweep' = sweep
<1>1. /\ held \in [Names -> Nat] /\ stored \subseteq Names \ Unswept
      /\ writes \in Nat /\ NoId \in Nat
  BY DEF SweepInv, SweepTypes, NoId
<1>2. CASE SkipEntry
  BY <1>1, <1>2 DEF SkipEntry, SweepMoves
<1>3. CASE DeleteEntry
  BY <1>1, <1>3 DEF DeleteEntry, SweepMoves
<1>4. CASE PageDone
  BY <1>1, <1>4 DEF PageDone, SweepMoves
<1>5. CASE SweepFails
  <2>1. UNCHANGED held \/ \E n : held' = [held EXCEPT ![n] = NoId]
    BY <1>5 DEF SweepFails
  <2>2. /\ sweep' = Idle
        /\ UNCHANGED <<fixed, ids, stored, writes>>
    BY <1>5 DEF SweepFails, SweepMoves
  <2> QED BY <1>1, <2>1, <2>2
<1>6. CASE StoreRow
  BY <1>1, <1>6 DEF StoreRow, HandlerWrites
<1>7. CASE RemoveRow
  BY <1>1, <1>7 DEF RemoveRow, HandlerWrites
<1>8. CASE Deprovision
  BY <1>1, <1>8, OrphansAreNames DEF Deprovision, HandlerWrites
<1>9. CASE UNCHANGED sweepVars
  BY <1>1, <1>9 DEF sweepVars
<1> QED BY <1>2, <1>3, <1>4, <1>5, <1>6, <1>7, <1>8, <1>9

LEMMA SweepInvHolds == SweepSpec => []SweepInv
<1>1. ASSUME SweepInv, [SweepNext]_sweepVars
      PROVE  SweepInv'
  <2>1. CASE ListNextPage
    BY <1>1, <2>1, ListedKeeps
  <2>2. CASE Snapshot
    BY <1>1, <2>2, SnapshotKeeps
  <2>3. CASE Provision
    BY <1>1, <2>3, ProvisionKeeps
  <2>4. CASE \/ SkipEntry \/ DeleteEntry \/ PageDone \/ SweepFails
             \/ StoreRow \/ RemoveRow \/ Deprovision \/ UNCHANGED sweepVars
    <3>1. sweep' \in SweepStates /\ sweep'.page \subseteq sweep.page
          /\ \/ sweep'.issued = sweep.issued
             \/ sweep'.issued = 0 /\ sweep'.page = {}
      BY <1>1, <2>4, OthersLose, SweepMovesOn DEF SweepInv, SweepTypes
    <3>2. IdsUnique'
      <4>1. /\ ids' = ids /\ held' \in [Names -> Nat]
            /\ \A n \in Names : held'[n] \in {held[n], NoId}
        BY <1>1, <2>4, OthersLose
      <4> QED BY <1>1, <3>1, <4>1, LosingKeepsUnique
    <3>3. SweepTypes'
      BY <1>1, <2>4, <3>1, OthersLose DEF SweepInv, SweepTypes, fixed, Unswept
    <3> QED BY <3>2, <3>3 DEF SweepInv
  <2> QED BY <1>1, <2>1, <2>2, <2>3, <2>4 DEF SweepNext, SweepStep
<1> QED BY <1>1, SweepInvInit, PTL DEF SweepSpec

(* A sweep takes nothing that had a row at its snapshot and nothing that was *)
(* provisioned after its page was listed (deleteOrphanServices,              *)
(* deleteOrphanServicePolicies), for any names, ids and page sizes: the ids  *)
(* it deletes by are those of the names it skipped by.                       *)
THEOREM SweepTakesOnlyListed == SweepSpec => SweepTakesListedOrphans
<1>1. ASSUME SweepInv, [SweepNext]_sweepVars, NEW n \in Names,
             sweep.at = "page" /\ writes' = writes,
             held[n] # NoId /\ held'[n] = NoId
      PROVE  n \notin sweep.managed /\ held[n] <= sweep.issued
  <2>1. held \in [Names -> Nat] /\ writes \in Nat
    BY <1>1 DEF SweepInv, SweepTypes
  <2>2. ~(Snapshot \/ ListNextPage \/ SkipEntry \/ PageDone
          \/ UNCHANGED sweepVars)
    BY <1>1 DEF Snapshot, ListNextPage, SkipEntry, PageDone, sweepVars
  <2>3. ~(Provision \/ StoreRow \/ RemoveRow \/ Deprovision)
    BY <1>1, <2>1 DEF Provision, StoreRow, RemoveRow, Deprovision, HandlerWrites
  <2>4. CASE DeleteEntry
    <3>1. PICK e \in sweep.page : ~Skipped(e)
            /\ held' = [m \in Names |-> IF held[m] = e.id THEN NoId ELSE held[m]]
      BY <2>4 DEF DeleteEntry
    <3>2. held[n] = e.id
      BY <1>1, <3>1
    <3>3. n = e.name /\ e.id <= sweep.issued
      BY <1>1, <3>2, TakenIsListed
    <3> QED BY <3>1, <3>2, <3>3 DEF Skipped
  <2>5. CASE SweepFails
    <3>1. PICK e \in sweep.page : ~Skipped(e) /\ held[e.name] = e.id
            /\ held' = [held EXCEPT ![e.name] = NoId]
      BY <1>1, <2>5 DEF SweepFails
    <3>2. n = e.name
      BY <1>1, <2>1, <3>1
    <3> QED BY <1>1, <3>1, <3>2, TakenIsListed DEF Skipped
  <2> QED BY <1>1, <2>2, <2>3, <2>4, <2>5 DEF SweepNext, SweepStep
<1>2. SweepInv /\ [SweepNext]_sweepVars =>
        [\A n \in Names :
           /\ sweep.at = "page" /\ writes' = writes
           /\ held[n] # NoId /\ held'[n] = NoId
           => n \notin sweep.managed /\ held[n] <= sweep.issued]_sweepVars
  BY <1>1
<1> QED BY <1>2, SweepInvHolds, PTL DEF SweepSpec, SweepTakesListedOrphans
---------------------------------------------------------------------------
(* Sweeps that nothing disturbs: every orphan is still ahead, on the page in *)
(* hand or behind the token; with offsets only until the first deletion.     *)

Ahead(n) ==
  \/ sweep.at = "list" /\ n \in After(sweep.token)
  \/ /\ sweep.at = "page"
     /\ \/ \E e \in sweep.page : e.name = n
        \/ sweep.next # FirstPage /\ n \in After(sweep.next)

Unshifted == paging = "name" \/ Cardinality(Orphans) = sweep.orphans

QuietOK ==
  sweep.quiet =>
    /\ sweep.managed = stored
    /\ \A e \in sweep.page : held[e.name] = e.id
    /\ Cardinality(Orphans) <= sweep.orphans
    /\ Unshifted => \A n \in Orphans : Ahead(n)

LEMMA SnapshotIsQuiet ==
  ASSUME SweepInv, Snapshot
  PROVE  QuietOK'
<1>1. /\ UNCHANGED <<fixed, stored, held>>
      /\ sweep' = [Idle EXCEPT !.at = "list", !.managed = stored,
                     !.orphans = Cardinality(Orphans), !.quiet = TRUE]
  BY DEF Snapshot, SweepMoves
<1>2. /\ sweep'.at = "list" /\ sweep'.managed = stored /\ sweep'.page = {}
      /\ sweep'.orphans = Cardinality(Orphans) /\ sweep'.token = FirstPage
  BY <1>1 DEF Idle
<1>3. Orphans' = Orphans /\ Held' = Held
  BY <1>1 DEF Orphans, Held, Unswept, fixed
<1>4. ASSUME NEW n \in Orphans
      PROVE  n \in After(sweep.token)'
  <2>1. n \in Held /\ n \in Nat \ {0} /\ FirstPage = 0
    BY OrphansAreNames, SweepAssumption DEF Orphans, SweepAssumption, FirstPage
  <2>2. Cardinality({m \in Held : m < n}) \in Nat
    <3>1. {m \in Held : m < n} \in SUBSET Names
      BY OrphansAreNames
    <3> QED BY <3>1, FiniteNames
  <2>3. n \in After(FirstPage)
    BY <2>1, <2>2 DEF After
  <2>4. After(sweep.token)' = After(FirstPage)
    BY <1>1, <1>2, <1>3 DEF After, fixed
  <2> QED BY <2>3, <2>4
<1>5. Cardinality(Orphans)' <= sweep'.orphans
  BY <1>2, <1>3, OrphansAreNames
<1>6. (\A n \in Orphans : Ahead(n))'
  BY <1>2, <1>3, <1>4 DEF Ahead
<1> QED BY <1>1, <1>2, <1>5, <1>6 DEF QuietOK

LEMMA ListedStaysQuiet ==
  ASSUME SweepInv, QuietOK, ListNextPage
  PROVE  QuietOK'
<1> DEFINE page == {[name |-> n, id |-> held[n]] : n \in Page(sweep.token)}
<1>1. /\ UNCHANGED <<fixed, stored, held>> /\ sweep.at = "list"
      /\ sweep' = [sweep EXCEPT !.at = "page", !.next = NextToken(sweep.token),
                                !.issued = ids, !.page = page]
  BY DEF ListNextPage, SweepMoves
<1>2. /\ sweep \in SweepStates /\ sweep.token \in Nat
      /\ paging \in {"offset", "name"}
  BY DEF SweepInv, SweepTypes, SweepStates
<1>3. \A e \in page : e.name \in Names /\ e.id = held[e.name]
  BY <1>2, ListedEntries DEF SweepInv
<1>4. ASSUME NEW n \in Page(sweep.token)
      PROVE  \E e \in page : e.name = n
  <2>1. [name |-> n, id |-> held[n]] \in page
    OBVIOUS
  <2>2. [name |-> n, id |-> held[n]].name = n
    OBVIOUS
  <2> HIDE DEF page
  <2> QED BY <2>1, <2>2
<1> HIDE DEF page
<1>5. /\ sweep'.at = "page" /\ sweep'.managed = sweep.managed
      /\ sweep'.page = page /\ sweep'.orphans = sweep.orphans
      /\ sweep'.next = NextToken(sweep.token) /\ sweep'.quiet = sweep.quiet
  BY <1>1, <1>2 DEF SweepStates
<1>6. Orphans' = Orphans /\ Held' = Held
  BY <1>1 DEF Orphans, Held, Unswept, fixed
<1>7. \A t : After(t)' = After(t)
  BY <1>1, <1>6 DEF After, fixed
<1>8. SUFFICES ASSUME sweep.quiet
               PROVE  /\ sweep'.managed = stored'
                      /\ \A e \in sweep'.page : held'[e.name] = e.id
                      /\ Cardinality(Orphans)' <= sweep'.orphans
                      /\ Unshifted' => \A n \in Orphans' : Ahead(n)'
  BY <1>5 DEF QuietOK
<1>9. ASSUME Unshifted', NEW n \in Orphans
      PROVE  Ahead(n)'
  <2>1. Ahead(n)
    BY <1>1, <1>5, <1>6, <1>8, <1>9 DEF QuietOK, Unshifted, fixed
  <2>2. n \in After(sweep.token)
    BY <1>1, <2>1 DEF Ahead
  <2>3. CASE n \in Page(sweep.token)
    BY <1>4, <1>5, <2>3 DEF Ahead
  <2>4. CASE n \notin Page(sweep.token)
    <3>1. /\ NextToken(sweep.token) # FirstPage
          /\ n \in After(NextToken(sweep.token))
      BY <1>2, <2>2, <2>4, NextGoesOn
    <3>2. sweep'.next # FirstPage /\ n \in After(sweep'.next)
      BY <1>5, <3>1
    <3>3. n \in After(sweep.next)'
      BY <1>7, <3>2 DEF After
    <3> QED BY <1>5, <3>2, <3>3 DEF Ahead
  <2> QED BY <2>3, <2>4
<1>10. \A e \in sweep'.page : held'[e.name] = e.id
  BY <1>1, <1>3, <1>5
<1> QED BY <1>1, <1>5, <1>6, <1>8, <1>9, <1>10 DEF QuietOK

LEMMA SkipStaysQuiet ==
  ASSUME SweepInv, QuietOK, SkipEntry
  PROVE  QuietOK'
<1>1. PICK e \in sweep.page :
        Skipped(e) /\ sweep' = [sweep EXCEPT !.page = sweep.page \ {e}]
  BY DEF SkipEntry, SweepMoves
<1>2. UNCHANGED <<fixed, stored, held>>
  BY DEF SkipEntry, SweepMoves
<1>3. /\ sweep'.at = sweep.at /\ sweep'.managed = sweep.managed
      /\ sweep'.page = sweep.page \ {e} /\ sweep'.orphans = sweep.orphans
      /\ sweep'.token = sweep.token /\ sweep'.next = sweep.next
      /\ sweep'.quiet = sweep.quiet
  BY <1>1 DEF SweepInv, SweepTypes, SweepStates
<1>4. Orphans' = Orphans /\ Held' = Held
  BY <1>2 DEF Orphans, Held, Unswept, fixed
<1>5. After(sweep.token)' = After(sweep.token) /\ After(sweep.next)' = After(sweep.next)
  BY <1>2, <1>3, <1>4 DEF After, fixed
<1>6. SUFFICES ASSUME sweep.quiet PROVE QuietOK'
  BY <1>3 DEF QuietOK
<1>7. ASSUME Unshifted', NEW n \in Orphans
      PROVE  Ahead(n)'
  <2>1. Ahead(n)
    BY <1>2, <1>3, <1>4, <1>6, <1>7 DEF QuietOK, Unshifted, fixed
  <2>2. n # e.name
    BY <1>1, <1>6 DEF Skipped, QuietOK, Orphans
  <2> QED BY <1>3, <1>5, <2>1, <2>2 DEF Ahead
<1>8. \A f \in sweep'.page : held'[f.name] = f.id
  BY <1>2, <1>3, <1>6 DEF QuietOK
<1> QED BY <1>2, <1>3, <1>4, <1>6, <1>7, <1>8 DEF QuietOK

(* A deletion takes one orphan, the entry's.                                 *)
LEMMA DeletedStaysQuiet ==
  ASSUME SweepInv, QuietOK, DeleteEntry
  PROVE  QuietOK'
<1>1. CASE sweep' = Idle
  BY <1>1, IdleSweep DEF QuietOK
<1>2. CASE \E e \in sweep.page :
             /\ ~Skipped(e) /\ sweep' = [sweep EXCEPT !.page = sweep.page \ {e}]
             /\ held' = [n \in Names |-> IF held[n] = e.id THEN NoId ELSE held[n]]
  <2>1. PICK e \in sweep.page :
          /\ ~Skipped(e) /\ sweep' = [sweep EXCEPT !.page = sweep.page \ {e}]
          /\ held' = [n \in Names |-> IF held[n] = e.id THEN NoId ELSE held[n]]
    BY <1>2
  <2>2. UNCHANGED <<fixed, stored>> /\ sweep.at = "page"
    BY DEF DeleteEntry, SweepMoves
  <2>3. /\ sweep'.at = sweep.at /\ sweep'.managed = sweep.managed
        /\ sweep'.page = sweep.page \ {e} /\ sweep'.orphans = sweep.orphans
        /\ sweep'.next = sweep.next /\ sweep'.quiet = sweep.quiet
        /\ sweep.orphans \in Nat
    BY <2>1 DEF SweepInv, SweepTypes, SweepStates
  <2>4. SUFFICES ASSUME sweep.quiet PROVE QuietOK'
    BY <2>3 DEF QuietOK
  <2>5. /\ e.name \in Names /\ e.id # NoId /\ held[e.name] = e.id
        /\ \A n \in Names : held[n] = e.id => n = e.name
    BY <2>4, TakenIsListed DEF QuietOK
  <2>6. \A n \in Names : held'[n] = IF n = e.name THEN NoId ELSE held[n]
    BY <2>1, <2>5
  <2>7. Held' = Held \ {e.name} /\ Orphans' = Orphans \ {e.name}
    BY <2>2, <2>6 DEF Orphans, Held, Unswept, fixed
  <2>8. e.name \in Orphans
    BY <2>1, <2>4, <2>5 DEF Skipped, QuietOK, Orphans, Held
  <2>9. Cardinality(Orphans') = Cardinality(Orphans) - 1
    BY <2>7, <2>8, OrphansAreNames, FS_RemoveElement
  <2>10. Cardinality(Orphans') < sweep'.orphans
    BY <2>3, <2>4, <2>9, OrphansAreNames DEF QuietOK
  <2>11. Cardinality(Orphans') \in Nat
    BY <2>7, OrphansAreNames, FiniteNames
  <2>12. ASSUME Unshifted', NEW n \in Orphans'
         PROVE  Ahead(n)'
    <3>1. paging = "name" /\ paging' = "name"
      BY <2>2, <2>3, <2>10, <2>11, <2>12 DEF Unshifted, fixed
    <3>2. Ahead(n) /\ n # e.name /\ n \in Held'
      BY <2>4, <2>7, <2>12, <3>1 DEF QuietOK, Unshifted, Orphans
    <3>3. n \in After(sweep.next) => n \in After(sweep.next)'
      BY <2>3, <3>1, <3>2 DEF After
    <3> QED BY <2>2, <2>3, <3>2, <3>3 DEF Ahead
  <2>13. \A f \in sweep'.page : held'[f.name] = f.id
    <3>1. ASSUME NEW f \in sweep.page, f # e
          PROVE  f.name # e.name /\ f.name \in Names
      <4>1. e \in Entries /\ f \in Entries
        BY DEF SweepInv, SweepTypes, SweepStates
      <4>2. held[f.name] = f.id
        BY <2>4 DEF QuietOK
      <4> QED BY <2>5, <3>1, <4>1, <4>2 DEF Entries
    <3> QED BY <2>3, <2>4, <2>6, <3>1 DEF QuietOK
  <2> QED BY <2>2, <2>3, <2>4, <2>10, <2>11, <2>12, <2>13 DEF QuietOK
<1> QED BY <1>1, <1>2 DEF DeleteEntry, SweepMoves

LEMMA PageDoneStaysQuiet ==
  ASSUME SweepInv, QuietOK, PageDone
  PROVE  QuietOK'
<1>1. CASE sweep' = Idle
  BY <1>1, IdleSweep DEF QuietOK
<1>2. CASE /\ sweep.next # FirstPage
           /\ sweep' = [sweep EXCEPT !.at = "list", !.token = sweep.next]
  <2>1. UNCHANGED <<fixed, stored, held>> /\ sweep.at = "page" /\ sweep.page = {}
    BY DEF PageDone, SweepMoves
  <2>2. /\ sweep'.at = "list" /\ sweep'.managed = sweep.managed
        /\ sweep'.page = {} /\ sweep'.orphans = sweep.orphans
        /\ sweep'.token = sweep.next /\ sweep'.quiet = sweep.quiet
    BY <1>2, <2>1 DEF SweepInv, SweepTypes, SweepStates
  <2>3. Orphans' = Orphans /\ Held' = Held
    BY <2>1 DEF Orphans, Held, Unswept, fixed
  <2>4. After(sweep.token)' = After(sweep.next)
    BY <2>1, <2>2, <2>3 DEF After, fixed
  <2>5. SUFFICES ASSUME sweep.quiet PROVE QuietOK'
    BY <2>2 DEF QuietOK
  <2>6. ASSUME Unshifted', NEW n \in Orphans
        PROVE  Ahead(n)'
    <3>1. Ahead(n)
      BY <2>1, <2>2, <2>3, <2>5, <2>6 DEF QuietOK, Unshifted, fixed
    <3> QED BY <2>1, <2>2, <2>4, <3>1 DEF Ahead
  <2> QED BY <2>1, <2>2, <2>3, <2>5, <2>6 DEF QuietOK
<1> QED BY <1>1, <1>2 DEF PageDone, SweepMoves

LEMMA QuietHolds == SweepSpec => [](SweepInv /\ QuietOK)
<1>1. SweepInit => QuietOK
  BY IdleSweep DEF SweepInit, QuietOK
<1>2. ASSUME SweepInv, QuietOK, [SweepNext]_sweepVars
      PROVE  QuietOK'
  <2>1. CASE Provision \/ StoreRow \/ RemoveRow \/ Deprovision
    <3>1. sweep' = [sweep EXCEPT !.quiet = FALSE]
      BY <2>1 DEF Provision, StoreRow, RemoveRow, Deprovision, HandlerWrites
    <3>2. ~sweep'.quiet
      BY <1>2, <3>1 DEF SweepInv, SweepTypes, SweepStates
    <3> QED BY <3>2 DEF QuietOK
  <2>2. CASE SweepFails
    BY <2>2, IdleSweep DEF SweepFails, SweepMoves, QuietOK
  <2>3. CASE UNCHANGED sweepVars
    BY <1>2, <2>3 DEF sweepVars, fixed, QuietOK, Unshifted, Ahead, After, Orphans,
       Held, Unswept
  <2> QED BY <1>2, <2>1, <2>2, <2>3, SnapshotIsQuiet, ListedStaysQuiet,
             SkipStaysQuiet, DeletedStaysQuiet, PageDoneStaysQuiet
          DEF SweepNext, SweepStep
<1> QED BY <1>1, <1>2, SweepInvHolds, PTL DEF SweepSpec

(* A sweep that nothing disturbed has deleted every orphan when it ends, if  *)
(* tokens name where to go on; with offsets, which its deletions shift, it   *)
(* has deleted some, for any names and page sizes (deleteOrphanServices,     *)
(* deleteOrphanServicePolicies).                                             *)
THEOREM QuietSweepsClear == SweepSpec => []QuietSweepClears
<1>1. ASSUME SweepInv, QuietOK, sweep.at = "page", sweep.page = {},
             sweep.next = FirstPage, sweep.quiet
      PROVE  \/ Orphans = {}
             \/ paging = "offset" /\ Cardinality(Orphans) < sweep.orphans
  <2>1. \A n : ~Ahead(n)
    BY <1>1 DEF Ahead
  <2>2. CASE Unshifted
    BY <1>1, <2>1, <2>2 DEF QuietOK
  <2>3. CASE ~Unshifted
    <3>1. Cardinality(Orphans) \in Nat /\ sweep.orphans \in Nat
      BY <1>1, OrphansAreNames DEF SweepInv, SweepTypes, SweepStates
    <3>2. paging = "offset" /\ Cardinality(Orphans) # sweep.orphans
      BY <1>1, <2>3 DEF Unshifted, SweepInv, SweepTypes
    <3>3. Cardinality(Orphans) <= sweep.orphans
      BY <1>1 DEF QuietOK
    <3> QED BY <3>1, <3>2, <3>3
  <2> QED BY <2>2, <2>3
<1>2. SweepInv /\ QuietOK => QuietSweepClears
  BY <1>1 DEF QuietSweepClears
<1> QED BY <1>2, QuietHolds, PTL

=============================================================================
