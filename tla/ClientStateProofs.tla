-------------------------- MODULE ClientStateProofs -------------------------
(***************************************************************************)
(* Proofs about the components whose state is in a client's hands and may  *)
(* be stale when it comes back: the cursor of a list, the cookies of a     *)
(* sign-in with Google, and the page an editor of texts has before them.   *)
(*                                                                         *)
(* The three specifications are independent of one another.                *)
(***************************************************************************)
EXTENDS ManagedLists, SignIn, Localization, TLAPS

(***************************************************************************)
(* ManagedLists, for any rows, sort values and page size                   *)
(*                                                                         *)
(* The cursor divides the rows: those at or before it that were left alone *)
(* have been listed once, those beyond it not yet.  Every page is the      *)
(* beginning of what lies beyond, and the new cursor is its last row.      *)
(***************************************************************************)

SortKeys == [value : Nat, id : Nat]
Reached(i) == ~Before(query, cursor.key, Key(i))

(* Rows left alone, divided by the cursor.                                 *)
Divided ==
  /\ state = "new" => \A i \in Ids : seen[i] = 0
  /\ state = "open" =>
       \A i \in Ids \ touched : seen[i] = IF i \in visible /\ Reached(i) THEN 1 ELSE 0

(* Where sort values stay, the cursor has passed every row listed.         *)
Passed ==
  ~Moves(query) /\ state = "open" => \A i \in Ids : seen[i] = 0 \/ Reached(i)

ListsInv == TypeOK /\ Divided /\ Passed /\ ListedOnce /\ NeverTwice

-----------------------------------------------------------------------------
(* The order of keys is a strict total order in either direction.          *)

LEMMA BeforeIrreflexive ==
  ASSUME NEW q, NEW a \in SortKeys
  PROVE  ~Before(q, a, a)
BY DEF Before, SortKeys

LEMMA BeforeAsymmetric ==
  ASSUME NEW q, NEW a \in SortKeys, NEW b \in SortKeys, Before(q, a, b)
  PROVE  ~Before(q, b, a)
BY DEF Before, SortKeys

LEMMA BeforeTransitive ==
  ASSUME NEW q, NEW a \in SortKeys, NEW b \in SortKeys, NEW c \in SortKeys,
         Before(q, a, b), Before(q, b, c)
  PROVE  Before(q, a, c)
BY DEF Before, SortKeys

LEMMA KeyType ==
  ASSUME TypeOK, NEW i \in Ids
  PROVE  Key(i) \in SortKeys
<1>1. i \in Nat /\ \A v \in Values : v \in Nat
  BY ManagedListsAssumption, Zenon
<1>2. value[i] \in Values \cup {0}
  BY DEF TypeOK
<1>3. value[i] \in Nat /\ i \in Nat
  BY <1>1, <1>2
<1> QED BY <1>3 DEF Key, SortKeys

(* Blank values occur only under a sort whose values change.               *)
LEMMA BlanksMove ==
  ASSUME NEW q, HasBlanks(q)
  PROVE  Moves(q)
<1>1. ListInvitations \in Lists /\ ListInvitations.kind = q.kind
  BY DEF HasBlanks, Lists, ListInvitations
<1>2. \A l \in Lists : l.kind = q.kind => l = ListInvitations
  BY DEF HasBlanks, Lists, ListInvitations, ListTenants, ListUsers, ListMemberships,
         ListRoles, ListLanguages, ListTranslationOverrides, ListAuditEvents
<1>3. ListOf(q) = ListInvitations
  BY <1>1, <1>2 DEF ListOf
<1> QED
  BY <1>3 DEF HasBlanks, Moves, ListInvitations

-----------------------------------------------------------------------------
(* A listed                                                                  *)

(* The rows of a listed are at or before its last one, the others after it.  *)
LEMMA LastDivides ==
  ASSUME TypeOK, NEW listed, NEW last, IsPage(listed, Beyond), IsLast(last, listed)
  PROVE  /\ \A i \in listed : ~Before(query, Key(last), Key(i))
         /\ \A i \in Beyond \ listed : Before(query, Key(last), Key(i))
<1>1. listed \subseteq Ids /\ last \in listed
  BY DEF IsPage, IsLast, Beyond, TypeOK
<1>2. ASSUME NEW i \in listed PROVE ~Before(query, Key(last), Key(i))
  <2>1. Key(i) \in SortKeys /\ Key(last) \in SortKeys
    BY <1>1, KeyType
  <2>2. CASE i = last BY <2>1, <2>2, BeforeIrreflexive
  <2>3. CASE i # last BY <2>1, <2>3, BeforeAsymmetric DEF IsLast
  <2> QED BY <2>2, <2>3
<1>3. \A i \in Beyond \ listed : Before(query, Key(last), Key(i))
  BY DEF IsPage, IsLast
<1> QED BY <1>2, <1>3

(* What was reached stays reached, as every listed lies beyond the cursor.   *)
LEMMA ReachedStays ==
  ASSUME TypeOK, state = "open", NEW listed, NEW last,
         IsPage(listed, Beyond), IsLast(last, listed), NEW i \in Ids, Reached(i)
  PROVE  ~Before(query, Key(last), Key(i))
<1>1. last \in Ids /\ Before(query, cursor.key, Key(last))
  BY DEF IsPage, IsLast, Beyond, TypeOK
<1>2. Key(last) \in SortKeys /\ Key(i) \in SortKeys /\ cursor.key \in SortKeys
  BY <1>1, KeyType DEF TypeOK, SortKeys
<1> QED
  BY <1>1, <1>2, BeforeTransitive DEF Reached

LEMMA Pages ==
  ASSUME ListsInv, state \in {"new", "open"}, ListPage,
         UNCHANGED <<rows, today, query>>
  PROVE  ListsInv'
<1> USE DEF ListsInv
<1>1. PICK listed \in SUBSET Beyond :
        /\ IsPage(listed, Beyond)
        /\ seen' = [i \in Ids |-> IF i \in listed THEN seen[i] + 1 ELSE seen[i]]
        /\ IF Cardinality(Beyond) > PageSize
           THEN /\ state' = "open"
                /\ \E i \in listed :
                     /\ IsLast(i, listed)
                     /\ cursor' = [print |-> Fingerprint(query), key |-> Key(i)]
           ELSE state' = "complete" /\ cursor' = NoCursor
  BY DEF ListPage
<1>2. /\ value' = value /\ visible' = visible /\ touched' = touched
      /\ query' = query /\ today' = today
      /\ \A i \in Ids : Key(i)' = Key(i)
  BY DEF rows, Key
<1>3. listed \subseteq Ids /\ listed \subseteq visible /\ listed \subseteq Beyond
  BY <1>1 DEF IsPage, Beyond, TypeOK
<1>4. seen \in [Ids -> Nat] /\ seen' \in [Ids -> Nat]
  BY <1>1 DEF TypeOK
<1>5. \A i \in Ids : seen'[i] = IF i \in listed THEN seen[i] + 1 ELSE seen[i]
  BY <1>1
<1>6. ASSUME state = "new" PROVE \A i \in Ids : seen[i] = 0
  BY <1>6 DEF Divided
<1>7. \A i \in visible : i \in Beyond <=> state = "new" \/ ~Reached(i)
  BY DEF Beyond, Reached
<1>8. CASE Cardinality(Beyond) > PageSize
  <2>1. PICK last \in listed :
          /\ IsLast(last, listed)
          /\ cursor' = [print |-> Fingerprint(query), key |-> Key(last)]
    BY <1>1, <1>8
  <2>2. state' = "open" /\ cursor'.key = Key(last) /\ Key(last) \in SortKeys
    BY <1>1, <1>3, <1>8, <2>1, KeyType
  <2>3. \A i \in Ids : Reached(i)' <=> ~Before(query, Key(last), Key(i))
    BY <1>2, <2>2 DEF Reached
  <2>4. /\ \A i \in listed : Reached(i)'
        /\ \A i \in Beyond \ listed : ~Reached(i)'
        /\ state = "open" => \A i \in Ids : Reached(i) => Reached(i)'
    <3>1. Beyond \subseteq Ids BY DEF Beyond, TypeOK
    <3>2. \A i \in listed : Reached(i)' BY <1>1, <1>3, <2>1, <2>3, LastDivides
    <3>3. \A i \in Beyond \ listed : ~Reached(i)' BY <3>1, <1>1, <2>1, <2>3, LastDivides
    <3>4. state = "open" => \A i \in Ids : Reached(i) => Reached(i)'
      BY <1>1, <2>1, <2>3, ReachedStays
    <3> QED BY <3>2, <3>3, <3>4
  <2>5. Divided'
    <3> SUFFICES ASSUME NEW i \in Ids \ touched
                 PROVE  seen'[i] = IF i \in visible /\ Reached(i)' THEN 1 ELSE 0
      BY <1>2, <2>2 DEF Divided
    <3>1. CASE i \in listed
      BY <3>1, <1>3, <1>4, <1>5, <1>6, <1>7, <2>4 DEF Divided
    <3>2. CASE i \in Beyond \ listed
      BY <3>2, <1>4, <1>5, <1>6, <1>7, <2>4 DEF Divided, Beyond
    <3>3. CASE i \notin Beyond
      BY <3>3, <1>3, <1>4, <1>5, <1>6, <1>7, <2>4 DEF Divided
    <3> QED BY <3>1, <3>2, <3>3
  <2>6. Passed'
    <3> SUFFICES ASSUME ~Moves(query), NEW i \in Ids
                 PROVE  seen'[i] = 0 \/ Reached(i)'
      BY <1>2 DEF Passed, Moves, ListOf
    <3> QED BY <1>4, <1>5, <1>6, <2>4 DEF Passed
  <2>7. NeverTwice'
    <3> SUFFICES ASSUME ~Moves(query), NEW i \in Ids
                 PROVE  seen'[i] <= 1
      BY <1>2 DEF NeverTwice, Moves, ListOf
    <3> QED BY <1>3, <1>4, <1>5, <1>6, <1>7 DEF NeverTwice, Passed
  <2>8. TypeOK'
    <3>1. Fingerprint(query) \in [query : Queries, day : Nat]
      BY DEF Fingerprint, TypeOK
    <3> QED BY <1>2, <1>4, <2>1, <2>2, <3>1 DEF TypeOK, SortKeys
  <2>9. ListedOnce'
    BY <2>2 DEF ListedOnce
  <2> QED BY <2>5, <2>6, <2>7, <2>8, <2>9
<1>9. CASE ~(Cardinality(Beyond) > PageSize)
  <2>1. listed = Beyond /\ state' = "complete" /\ cursor' = NoCursor
    BY <1>1, <1>9 DEF IsPage
  <2>2. ListedOnce'
    <3> SUFFICES ASSUME NEW i \in Ids \ touched
                 PROVE  seen'[i] = IF i \in visible THEN 1 ELSE 0
      BY <1>2 DEF ListedOnce
    <3> QED BY <2>1, <1>3, <1>4, <1>5, <1>6, <1>7 DEF Divided
  <2>3. NeverTwice'
    <3> SUFFICES ASSUME ~Moves(query), NEW i \in Ids
                 PROVE  seen'[i] <= 1
      BY <1>2 DEF NeverTwice, Moves, ListOf
    <3> QED BY <1>3, <1>4, <1>5, <1>6, <1>7 DEF NeverTwice, Passed
  <2>4. TypeOK'
    BY <1>2, <1>4, <2>1 DEF TypeOK, NoCursor
  <2> QED BY <2>1, <2>2, <2>3, <2>4 DEF Divided, Passed
<1> QED BY <1>8, <1>9

-----------------------------------------------------------------------------
(* Changes of the rows                                                     *)

LEMMA Touched ==
  ASSUME ListsInv, NEW i \in Ids, Listing, Touch(i),
         value' \in [Ids -> Values \cup {0}], visible' \subseteq Ids,
         \A j \in Ids \ {i} : value'[j] = value[j] /\ (j \in visible' <=> j \in visible),
         ~Moves(query) => value' = value
  PROVE  ListsInv'
<1> USE DEF ListsInv, Listing
<1>1. /\ state' = state /\ query' = query /\ cursor' = cursor /\ seen' = seen
      /\ today' = today /\ touched' = touched \cup {i}
      /\ Moves(query)' = Moves(query)
  BY DEF Touch, Moves, ListOf
<1>2. \A j \in Ids \ {i} : Reached(j)' = Reached(j)
  BY <1>1 DEF Reached, Key, Before
<1>3. ~Moves(query) => \A j \in Ids : Reached(j)' = Reached(j)
  BY <1>1 DEF Reached, Key, Before
<1>4. TypeOK'
  BY <1>1 DEF TypeOK
<1>5. Divided'
  BY <1>1, <1>2 DEF Divided
<1>6. Passed'
  BY <1>1, <1>3 DEF Passed
<1>7. NeverTwice' /\ ListedOnce'
  BY <1>1 DEF NeverTwice, ListedOnce
<1> QED BY <1>4, <1>5, <1>6, <1>7

-----------------------------------------------------------------------------
(* The invariant                                                           *)

LEMMA ListsStart == Init => ListsInv
<1> SUFFICES ASSUME Init PROVE ListsInv OBVIOUS
<1>1. TypeOK
  BY DEF Init, TypeOK, NoCursor
<1>2. Divided /\ Passed /\ ListedOnce /\ NeverTwice
  BY DEF Init, Divided, Passed, ListedOnce, NeverTwice
<1> QED BY <1>1, <1>2 DEF ListsInv

LEMMA ListsKeep == ListsInv /\ [Next]_vars => ListsInv'
<1> SUFFICES ASSUME ListsInv, [Next]_vars PROVE ListsInv' OBVIOUS
<1>1. CASE FirstPage
  BY <1>1, Pages DEF FirstPage
<1>2. CASE NextPage
  BY <1>2, Pages DEF NextPage
<1>3. CASE RefuseCursor
  <2>1. state' \in {"refused", "mismatched"}
    BY <1>3 DEF RefuseCursor
  <2>2. /\ value' = value /\ visible' = visible /\ touched' = touched /\ today' = today
        /\ query' = query /\ cursor' = cursor /\ seen' = seen
        /\ Moves(query)' = Moves(query)
    BY <1>3 DEF RefuseCursor, rows, Moves, ListOf
  <2> QED
    BY <2>1, <2>2 DEF ListsInv, TypeOK, Divided, Passed, ListedOnce, NeverTwice
<1>4. CASE Midnight
  <2>1. /\ value' = value /\ visible' = visible /\ touched' = touched /\ state' = state
        /\ query' = query /\ cursor' = cursor /\ seen' = seen /\ today' = today + 1
        /\ Moves(query)' = Moves(query)
    BY <1>4 DEF Midnight, rows, Moves, ListOf
  <2>2. \A i \in Ids : Reached(i)' = Reached(i)
    BY <2>1 DEF Reached, Key, Before
  <2> QED
    BY <2>1, <2>2 DEF ListsInv, TypeOK, Divided, Passed, ListedOnce, NeverTwice
<1>5. ASSUME NEW i \in Ids, Appear(i) \/ Disappear(i) PROVE ListsInv'
  <2>1. Listing /\ Touch(i) /\ value' = value /\ visible' \in {visible \cup {i}, visible \ {i}}
    BY <1>5 DEF Appear, Disappear
  <2>2. visible' \subseteq Ids /\ value' \in [Ids -> Values \cup {0}]
    BY <2>1 DEF ListsInv, TypeOK
  <2> QED BY <2>1, <2>2, Touched
<1>6. ASSUME NEW i \in Ids, Move(i) PROVE ListsInv'
  <2>1. PICK v \in Values : value' = [value EXCEPT ![i] = v]
    BY <1>6 DEF Move
  <2>2. Listing /\ Touch(i) /\ visible' = visible /\ Moves(query)
    BY <1>6 DEF Move
  <2>3. /\ value' \in [Ids -> Values \cup {0}] /\ visible' \subseteq Ids
        /\ \A j \in Ids \ {i} : value'[j] = value[j]
    BY <2>1, <2>2 DEF ListsInv, TypeOK
  <2> QED BY <2>2, <2>3, Touched
<1>7. ASSUME NEW i \in Ids, Anonymize(i) PROVE ListsInv'
  <2>1. Listing /\ Touch(i) /\ visible' = visible /\ value' = [value EXCEPT ![i] = 0]
    BY <1>7 DEF Anonymize
  <2>2. Moves(query)
    BY <1>7, BlanksMove DEF Anonymize
  <2>3. /\ value' \in [Ids -> Values \cup {0}] /\ visible' \subseteq Ids
        /\ \A j \in Ids \ {i} : value'[j] = value[j]
    BY <2>1 DEF ListsInv, TypeOK
  <2> QED BY <2>1, <2>2, <2>3, Touched
<1>8. CASE UNCHANGED vars
  BY <1>8 DEF vars, ListsInv, TypeOK, Divided, Passed, ListedOnce, NeverTwice, Reached,
              Key, Before, Moves, ListOf
<1> QED BY <1>1, <1>2, <1>3, <1>4, <1>5, <1>6, <1>7, <1>8 DEF Next

LEMMA ListsInvariant == Spec => []ListsInv
BY ListsStart, ListsKeep, PTL DEF Spec

-----------------------------------------------------------------------------
(***************************************************************************)
(* Theorems                                                                *)
(***************************************************************************)

(* The variables keep their types.                                         *)
THEOREM ListsTyped == Spec => []TypeOK
<1>1. ListsInv => TypeOK BY DEF ListsInv
<1> QED BY ListsInvariant, <1>1, PTL

(* Going through a list listed by listed, a client sees every row that is left *)
(* alone exactly once.                                                     *)
THEOREM ListsOnce == Spec => []ListedOnce
<1>1. ListsInv => ListedOnce BY DEF ListsInv
<1> QED BY ListsInvariant, <1>1, PTL

(* Under a sort whose values stay, no row is listed twice.                 *)
THEOREM ListsNeverTwice == Spec => []NeverTwice
<1>1. ListsInv => NeverTwice BY DEF ListsInv
<1> QED BY ListsInvariant, <1>1, PTL

-----------------------------------------------------------------------------
(* When a cursor does not continue its list.                               *)

(* The cursor is the client's own: made for its query, not later than      *)
(* today, and blank only where sort values may be.                         *)
CursorInv ==
  /\ ~HasBlanks(query) => \A i \in Ids : value[i] # 0
  /\ state \in {"open", "refused"} =>
       /\ cursor.print \in [query : Queries, day : Nat]
       /\ cursor.print.query = query
       /\ ~DefaultBounds(query) => cursor.print.day = 0
       /\ cursor.print.day <= today
       /\ cursor.key.value = 0 => HasBlanks(query)

(* An unchanged query is refused for one of two reasons: the page ended    *)
(* with an anonymized invitation under a sort by e-mail, or midnight moved *)
(* the default range of the audit log.                                     *)
RefusalHasCause ==
  state = "refused" =>
    \/ HasBlanks(query) /\ cursor.key.value = 0
    \/ DefaultBounds(query) /\ cursor.print.day < today

ContinuesInv == TypeOK /\ CursorInv /\ RefusalHasCause

LEMMA CursorStarts == Init => CursorInv /\ RefusalHasCause
<1> SUFFICES ASSUME Init PROVE CursorInv /\ RefusalHasCause OBVIOUS
<1>1. ~HasBlanks(query) => \A i \in Ids : value[i] # 0
  BY ManagedListsAssumption DEF Init, ManagedListsAssumption
<1>2. state = "new"
  BY DEF Init
<1> QED BY <1>1, <1>2 DEF CursorInv, RefusalHasCause

LEMMA PagesContinue ==
  ASSUME ContinuesInv, state \in {"new", "open"}, ListPage,
         UNCHANGED <<rows, today, query>>
  PROVE  CursorInv' /\ RefusalHasCause'
<1>1. value' = value /\ query' = query /\ today' = today
  BY DEF rows
<1>2. ~HasBlanks(query) => \A i \in Ids : value[i] # 0
  BY DEF ContinuesInv, CursorInv
<1>3. HasBlanks(query)' = HasBlanks(query) /\ DefaultBounds(query)' = DefaultBounds(query)
  BY <1>1 DEF HasBlanks, DefaultBounds
<1>4. CASE state' = "complete"
  BY <1>1, <1>2, <1>3, <1>4 DEF CursorInv, RefusalHasCause
<1>5. CASE state' = "open"
  <2>1. PICK i \in Ids : cursor' = [print |-> Fingerprint(query), key |-> Key(i)]
    BY <1>5 DEF ListPage, Beyond, ContinuesInv, TypeOK
  <2>2. /\ Fingerprint(query) \in [query : Queries, day : Nat]
        /\ Fingerprint(query).query = query
        /\ ~DefaultBounds(query) => Fingerprint(query).day = 0
        /\ Fingerprint(query).day <= today
    BY DEF Fingerprint, ContinuesInv, TypeOK
  <2>3. Key(i).value = 0 => HasBlanks(query)
    BY <1>2 DEF Key
  <2>4. cursor'.print = Fingerprint(query) /\ cursor'.key = Key(i)
    BY <2>1
  <2> QED BY <1>1, <1>2, <1>3, <1>5, <2>2, <2>3, <2>4 DEF CursorInv, RefusalHasCause
<1> QED BY <1>4, <1>5 DEF ListPage

LEMMA CursorKeeps ==
  ASSUME ContinuesInv, [Next]_vars
  PROVE  CursorInv' /\ RefusalHasCause'
<1> USE DEF ContinuesInv
<1>1. CASE FirstPage \/ NextPage
  BY <1>1, PagesContinue DEF FirstPage, NextPage
<1>2. CASE RefuseCursor
  <2>1. /\ value' = value /\ query' = query /\ cursor' = cursor /\ today' = today
        /\ state = "open" /\ state' = "refused" => ~Accepted(query)
    BY <1>2 DEF RefuseCursor, rows
  <2>2. CursorInv'
    BY <1>2, <2>1 DEF CursorInv, HasBlanks, DefaultBounds, RefuseCursor
  <2>3. ASSUME state' = "refused" PROVE RefusalHasCause'
    <3>1. ~Accepted(query) /\ CursorInv /\ state = "open" /\ today \in Nat
      BY <1>2, <2>1, <2>3 DEF RefuseCursor, TypeOK
    <3>2. CASE cursor.key.value = 0
      BY <2>1, <3>1, <3>2 DEF CursorInv, RefusalHasCause, HasBlanks
    <3>3. CASE cursor.print # Fingerprint(query)
      <4>1. cursor.print.day # Fingerprint(query).day
        BY <3>1, <3>3 DEF CursorInv, Fingerprint
      <4>2. DefaultBounds(query) /\ cursor.print.day < today
        BY <3>1, <4>1 DEF CursorInv, Fingerprint
      <4> QED BY <2>1, <4>2 DEF RefusalHasCause, DefaultBounds
    <3> QED BY <3>1, <3>2, <3>3 DEF Accepted
  <2> QED BY <2>2, <2>3 DEF RefusalHasCause
<1>3. CASE Midnight
  <2>1. /\ value' = value /\ query' = query /\ cursor' = cursor /\ state' = state
        /\ state # "refused" /\ today' = today + 1 /\ today \in Nat
    BY <1>3 DEF Midnight, rows, Listing, TypeOK
  <2> QED BY <2>1 DEF CursorInv, RefusalHasCause, HasBlanks, DefaultBounds
<1>4. ASSUME NEW i \in Ids, Appear(i) \/ Disappear(i) \/ Move(i) \/ Anonymize(i)
      PROVE  CursorInv' /\ RefusalHasCause'
  <2>1. /\ query' = query /\ cursor' = cursor /\ state' = state /\ today' = today
        /\ state # "refused"
    BY <1>4 DEF Appear, Disappear, Move, Anonymize, Touch, Listing
  <2>2. \/ HasBlanks(query) \/ value' = value
        \/ \E v \in Values : value' = [value EXCEPT ![i] = v]
    BY <1>4 DEF Appear, Disappear, Move, Anonymize
  <2>3. ~HasBlanks(query) => \A j \in Ids : value'[j] # 0
    BY <2>2, ManagedListsAssumption DEF CursorInv, TypeOK, ManagedListsAssumption
  <2> QED BY <2>1, <2>3 DEF CursorInv, RefusalHasCause, HasBlanks, DefaultBounds
<1>5. CASE UNCHANGED vars
  BY <1>5 DEF vars, CursorInv, RefusalHasCause, HasBlanks, DefaultBounds
<1> QED BY <1>1, <1>2, <1>3, <1>4, <1>5 DEF Next

(* decodeKeysetCursor refuses a cursor with its own query only for an      *)
(* empty sort value, and normalizeAuditFilter's default end moves only at  *)
(* midnight: apart from these two, CursorContinues holds, for any rows.    *)
THEOREM RefusalsHaveCause == Spec => []RefusalHasCause
<1>1. Init => ContinuesInv
  BY ListsStart, CursorStarts DEF ListsInv, ContinuesInv
<1>2. TypeOK' /\ ContinuesInv /\ [Next]_vars => ContinuesInv'
  BY CursorKeeps DEF ContinuesInv
<1>3. ContinuesInv => RefusalHasCause
  BY DEF ContinuesInv
<1> QED BY <1>1, <1>2, <1>3, ListsTyped, PTL DEF Spec

-----------------------------------------------------------------------------
(***************************************************************************)
(* SignIn, for any users, tabs and lifetimes                               *)
(*                                                                         *)
(* A number names one attempt, whichever jar, tab or answer has it, and    *)
(* every cookie carries at most the lifetime that the password it rests on *)
(* gave it.  So the attempt a callback opens is the one its tab started.   *)
(***************************************************************************)

Sessions == [user : Users, version : Int, number : Int]
Verifications == [token : Sessions, expires : Int]
Attempts == [number : Int, mode : Modes, expires : Int, by : Users \cup {None}]
Jars == [session : Sessions \cup {None}, verified : Verifications \cup {None},
         attempt : Attempts \cup {None}]

Labels == {"idle", "answered", "google", "callback", "exchange", "login",
           "link", "invite", "linking"}

(* What an answer sets, cookie by cookie.                                  *)
Sets(cookies, c) == c \in DOMAIN cookies /\ cookies[c] # None
Gives(cookies, c, x) == c \in DOMAIN cookies /\ cookies[c] = x
Replied(cookies) ==
  /\ DOMAIN cookies \subseteq DOMAIN NoCookies
  /\ Sets(cookies, "session") => cookies.session \in Sessions
  /\ Sets(cookies, "verified") => cookies.verified \in Verifications
  /\ Sets(cookies, "attempt") => cookies.attempt \in Attempts

SignInTypeOK ==
  /\ clock \in Nat
  /\ version \in [Users -> Int]
  /\ linked \subseteq Users
  /\ tokens \in Nat /\ attempts \in Nat
  /\ jar \in Jars
  /\ pc \in [Tabs -> Labels]
  /\ sent \in [Tabs -> Jars]
  /\ DOMAIN reply = Tabs /\ \A t \in Tabs : Replied(reply[t])
  /\ own \in [Tabs -> Attempts \cup {None}]
  /\ account \in [Tabs -> Users \cup {None}]
  /\ found \in [Tabs -> Users \cup {None}]
  /\ password \in [Users -> Int]

(* The attempts and the verifications that somebody holds.                 *)
HeldAttempts ==
  {a \in Attempts : \/ a = jar.attempt
                    \/ \E t \in Tabs : \/ a = own[t] \/ a = sent[t].attempt
                                       \/ Gives(reply[t], "attempt", a)}
HeldVerifications ==
  {v \in Verifications : \/ v = jar.verified
                         \/ \E t \in Tabs : \/ v = sent[t].verified
                                            \/ Gives(reply[t], "verified", v)}

(* A number names one attempt, whoever holds it.                           *)
AttemptsDiffer ==
  /\ \A a \in HeldAttempts : a.number < attempts
  /\ \A a, b \in HeldAttempts : a.number = b.number => a = b

(* No cookie outlives the password it vouches for.                         *)
PasswordInv ==
  /\ \A u \in Users : password[u] <= clock
  /\ \A v \in HeldVerifications : v.expires <= password[v.token.user] + VerificationTTL
  /\ \A a \in HeldAttempts : a.mode = "link" =>
       /\ a.by \in Users
       /\ a.expires < password[a.by] + VerificationTTL + AttemptTTL

(* What a tab works with is what it has asked for.                         *)
TabInv(t) ==
  /\ pc[t] \in {"google", "callback"} => own[t] # None
  /\ pc[t] \in {"exchange", "login", "link", "invite", "linking"} =>
       sent[t].attempt = own[t] /\ own[t] # None
  /\ pc[t] \in {"callback", "exchange", "login", "link", "invite", "linking"} =>
       account[t] \in Users
  /\ pc[t] = "linking" => found[t] \in Users
  /\ pc[t] = "answered" /\ Sets(reply[t], "attempt") => own[t] = reply[t].attempt

SignInInv ==
  /\ SignInTypeOK
  /\ AttemptsDiffer
  /\ PasswordInv
  /\ \A t \in Tabs : TabInv(t)

-----------------------------------------------------------------------------
(* None is no value of a cookie.                                           *)
LEMMA NoneIsNothing ==
  None \notin Sessions /\ None \notin Verifications /\ None \notin Attempts
<1>1. DOMAIN None = {"none"}
  BY DEF None
<1>2. \A x \in Sessions : "user" \in DOMAIN x
  BY DEF Sessions
<1>3. \A x \in Verifications : "token" \in DOMAIN x
  BY DEF Verifications
<1>4. \A x \in Attempts : "number" \in DOMAIN x
  BY DEF Attempts
<1> QED
  BY <1>1, <1>2, <1>3, <1>4

(* An answer without an attempt takes what the tab held away.              *)
LEMMA Answering ==
  ASSUME SignInTypeOK, NEW t \in Tabs, NEW cookies, Answer(t, cookies),
         Replied(cookies)
  PROVE  /\ pc' \in [Tabs -> Labels]
         /\ sent' \in [Tabs -> Jars]
         /\ DOMAIN reply' = Tabs /\ \A u \in Tabs : Replied(reply'[u])
         /\ found' \in [Tabs -> Users \cup {None}]
         /\ pc'[t] = "answered" /\ reply'[t] = cookies
         /\ sent'[t].attempt = None /\ sent'[t].verified = None
         /\ \A u \in Tabs \ {t} :
              pc'[u] = pc[u] /\ reply'[u] = reply[u] /\ sent'[u] = sent[u]
<1>1. NoCookies \in Jars
  BY DEF NoCookies, Jars
<1>2. None \in Users \cup {None}
  OBVIOUS
<1> QED
  BY <1>1, <1>2 DEF SignInTypeOK, Answer, Goto, Labels, NoCookies

(* A step that hands out no new cookie, and changes neither the time nor   *)
(* the attempts, keeps what is said of them.                               *)
LEMMA NothingNew ==
  ASSUME SignInInv,
         HeldAttempts' \subseteq HeldAttempts,
         HeldVerifications' \subseteq HeldVerifications,
         UNCHANGED <<clock, attempts, password>>
  PROVE  AttemptsDiffer' /\ PasswordInv'
BY DEF SignInInv, AttemptsDiffer, PasswordInv

(* What is held after an answer was there before, or is in the answer.     *)
LEMMA HeldAfterAnswer ==
  ASSUME SignInTypeOK, NEW t \in Tabs, NEW cookies, Answer(t, cookies),
         Replied(cookies), UNCHANGED jar, \A u \in Tabs \ {t} : own'[u] = own[u]
  PROVE  /\ \A a \in HeldAttempts' :
              a \in HeldAttempts \/ a = own'[t]
              \/ Gives(cookies, "attempt", a)
         /\ \A v \in HeldVerifications' :
              v \in HeldVerifications \/ Gives(cookies, "verified", v)
<1>1. /\ reply'[t] = cookies
      /\ sent'[t].attempt = None /\ sent'[t].verified = None
      /\ \A u \in Tabs \ {t} : reply'[u] = reply[u] /\ sent'[u] = sent[u]
  BY Answering
<1>2. ASSUME NEW a \in HeldAttempts'
      PROVE  a \in HeldAttempts \/ a = own'[t]
             \/ Gives(cookies, "attempt", a)
  <2>1. a \in Attempts /\ a # None
    BY <1>2, NoneIsNothing DEF HeldAttempts
  <2>2. CASE a = jar'.attempt
    BY <2>1, <2>2 DEF HeldAttempts
  <2>3. ASSUME NEW u \in Tabs,
               a = own'[u] \/ a = sent'[u].attempt
               \/ Gives(reply'[u], "attempt", a)
        PROVE  a \in HeldAttempts \/ a = own'[t]
               \/ Gives(cookies, "attempt", a)
    <3>1. CASE u = t
      BY <1>1, <2>1, <2>3, <3>1
    <3>2. CASE u # t
      BY <1>1, <2>1, <2>3, <3>2 DEF HeldAttempts
    <3> QED
      BY <3>1, <3>2
  <2> QED
    BY <1>2, <2>2, <2>3 DEF HeldAttempts
<1>3. ASSUME NEW v \in HeldVerifications'
      PROVE  v \in HeldVerifications \/ Gives(cookies, "verified", v)
  <2>1. v \in Verifications /\ v # None
    BY <1>3, NoneIsNothing DEF HeldVerifications
  <2>2. CASE v = jar'.verified
    BY <2>1, <2>2 DEF HeldVerifications
  <2>3. ASSUME NEW u \in Tabs,
               v = sent'[u].verified
               \/ Gives(reply'[u], "verified", v)
        PROVE  v \in HeldVerifications \/ Gives(cookies, "verified", v)
    <3>1. CASE u = t
      BY <1>1, <2>1, <2>3, <3>1
    <3>2. CASE u # t
      BY <1>1, <2>1, <2>3, <3>2 DEF HeldVerifications
    <3> QED
      BY <3>1, <3>2
  <2> QED
    BY <1>3, <2>2, <2>3 DEF HeldVerifications
<1> QED
  BY <1>2, <1>3

(* What an answer without a new attempt or verification keeps.             *)
LEMMA AnswerKeeps ==
  ASSUME SignInInv, NEW t \in Tabs, NEW cookies, Answer(t, cookies),
         Replied(cookies), ~Sets(cookies, "attempt"), ~Sets(cookies, "verified"),
         UNCHANGED <<clock, attempts, jar, own, account, password>>,
         version' \in [Users -> Int], linked' \subseteq Users, tokens' \in Nat
  PROVE  SignInInv'
<1>1. SignInTypeOK'
  BY Answering DEF SignInInv, SignInTypeOK
<1>2. HeldAttempts' \subseteq HeldAttempts
  <2>1. ASSUME NEW a \in HeldAttempts', a = own[t]
        PROVE  a \in HeldAttempts
    BY <2>1 DEF HeldAttempts
  <2>2. ASSUME NEW a \in HeldAttempts'
        PROVE  ~Gives(cookies, "attempt", a)
    BY <2>2, NoneIsNothing DEF HeldAttempts, Sets, Gives
  <2> QED
    BY <2>1, <2>2, HeldAfterAnswer DEF SignInInv
<1>3. HeldVerifications' \subseteq HeldVerifications
  <2>1. ASSUME NEW v \in HeldVerifications'
        PROVE  ~Gives(cookies, "verified", v)
    BY <2>1, NoneIsNothing DEF HeldVerifications, Sets, Gives
  <2> QED
    BY <2>1, HeldAfterAnswer DEF SignInInv
<1>4. AttemptsDiffer' /\ PasswordInv'
  BY <1>2, <1>3, NothingNew
<1>5. ASSUME NEW u \in Tabs
      PROVE  TabInv(u)'
  <2>1. CASE u = t
    BY <2>1, Answering DEF SignInInv, TabInv
  <2>2. CASE u # t
    <3>1. /\ pc'[u] = pc[u] /\ reply'[u] = reply[u] /\ sent'[u] = sent[u]
          /\ found'[u] = found[u]
      BY <2>2, Answering DEF Answer, SignInInv, SignInTypeOK
    <3> QED
      BY <3>1 DEF SignInInv, TabInv
  <2> QED
    BY <2>1, <2>2
<1> QED
  BY <1>1, <1>4, <1>5 DEF SignInInv

(* The session cookies that answers set.                                   *)
LEMMA Replies ==
  /\ Replied(NoReply) /\ ~Sets(NoReply, "attempt") /\ ~Sets(NoReply, "verified")
  /\ Replied(Cleared) /\ ~Sets(Cleared, "attempt") /\ ~Sets(Cleared, "verified")
BY DEF Replied, NoReply, Cleared, Sets, NoCookies

LEMMA TokenType ==
  ASSUME SignInTypeOK, NEW u \in Users, NEW v \in Int
  PROVE  Token(u, v) \in Sessions
BY DEF Token, Sessions, SignInTypeOK

LEMMA LiveType ==
  ASSUME NEW token \in Sessions \cup {None}, Live(token)
  PROVE  token \in Sessions /\ token.user \in Users /\ token.version \in Int
BY DEF Live, Sessions

LEMMA RotateType ==
  ASSUME SignInTypeOK, NEW u, Rotate(u)
  PROVE  version' \in [Users -> Int]
<1>1. version \in [Users -> Int] /\ \A w \in Users : version[w] + 1 \in Int
  BY DEF SignInTypeOK
<1> QED
  BY <1>1 DEF Rotate

-----------------------------------------------------------------------------
(* Actions that answer without a new attempt or verification.              *)

LEMMA LogoutKeeps ==
  ASSUME SignInInv, NEW t \in Tabs, Logout(t)
  PROVE  SignInInv'
<1> DEFINE cookies == [session |-> None, verified |-> None]
<1>1. Answer(t, cookies) /\ UNCHANGED <<clock, attempts, jar, own, account, password>>
  BY DEF Logout
<1>2. Replied(cookies) /\ ~Sets(cookies, "attempt") /\ ~Sets(cookies, "verified")
  BY DEF Replied, Sets, NoCookies
<1>3. version' \in [Users -> Int]
  <2>1. version' = version \/ Rotate(jar.session.user)
    BY DEF Logout
  <2> QED
    BY <2>1, RotateType DEF SignInInv, SignInTypeOK
<1>4. linked' \subseteq Users /\ tokens' \in Nat
  BY DEF Logout, SignInInv, SignInTypeOK
<1> HIDE DEF cookies
<1> QED
  BY <1>1, <1>2, <1>3, <1>4, AnswerKeeps

(* An answer with a session token and, perhaps, a cleared attempt.         *)
LEMMA SessionReplies ==
  ASSUME NEW token \in Sessions
  PROVE  LET plain == [session |-> token]
             both == [session |-> token, attempt |-> None] IN
         /\ Replied(plain) /\ ~Sets(plain, "attempt") /\ ~Sets(plain, "verified")
         /\ Replied(both) /\ ~Sets(both, "attempt") /\ ~Sets(both, "verified")
BY DEF Replied, Sets, NoCookies

LEMMA SwitchKeeps ==
  ASSUME SignInInv, NEW t \in Tabs, Switch(t)
  PROVE  SignInInv'
<1> DEFINE token == Token(jar.session.user, version[jar.session.user] + 1)
<1>1. jar.session \in Sessions \cup {None} /\ Live(jar.session)
  BY DEF Switch, SignInInv, SignInTypeOK, Jars
<1>2. token \in Sessions
  <2>1. jar.session.user \in Users
    BY <1>1, LiveType
  <2>2. version[jar.session.user] + 1 \in Int
    BY <2>1 DEF SignInInv, SignInTypeOK
  <2> QED
    BY <2>1, <2>2, TokenType DEF SignInInv
<1>3. /\ Answer(t, [session |-> token])
      /\ UNCHANGED <<clock, attempts, jar, own, account, password, linked>>
      /\ tokens' = tokens + 1
      /\ Rotate(jar.session.user)
  BY DEF Switch, Issue
<1> HIDE DEF token
<1>4. version' \in [Users -> Int] /\ linked' \subseteq Users /\ tokens' \in Nat
  BY <1>3, RotateType DEF SignInInv, SignInTypeOK
<1> QED
  BY <1>2, <1>3, <1>4, AnswerKeeps, SessionReplies

LEMMA GoogleDeclinesKeeps ==
  ASSUME SignInInv, NEW t \in Tabs, GoogleDeclines(t)
  PROVE  SignInInv'
<1>1. \E cookies \in {NoReply, Cleared} : Answer(t, cookies)
  BY DEF GoogleDeclines
<1>2. /\ UNCHANGED <<clock, attempts, jar, own, account, password>>
      /\ version' \in [Users -> Int] /\ linked' \subseteq Users /\ tokens' \in Nat
  BY DEF GoogleDeclines, SignInInv, SignInTypeOK, database
<1> QED
  BY <1>1, <1>2, AnswerKeeps, Replies

LEMMA RefuseAttemptKeeps ==
  ASSUME SignInInv, NEW t \in Tabs, RefuseAttempt(t)
  PROVE  SignInInv'
<1>1. \E cookies \in {NoReply, Cleared} : Answer(t, cookies)
  BY DEF RefuseAttempt
<1>2. /\ UNCHANGED <<clock, attempts, jar, own, account, password>>
      /\ version' \in [Users -> Int] /\ linked' \subseteq Users /\ tokens' \in Nat
  BY DEF RefuseAttempt, SignInInv, SignInTypeOK, database
<1> QED
  BY <1>1, <1>2, AnswerKeeps, Replies

LEMMA ExchangeFailsKeeps ==
  ASSUME SignInInv, NEW t \in Tabs, ExchangeFails(t)
  PROVE  SignInInv'
<1>1. Answer(t, Cleared)
  BY DEF ExchangeFails
<1>2. /\ UNCHANGED <<clock, attempts, jar, own, account, password>>
      /\ version' \in [Users -> Int] /\ linked' \subseteq Users /\ tokens' \in Nat
  BY DEF ExchangeFails, SignInInv, SignInTypeOK, database
<1> QED
  BY <1>1, <1>2, AnswerKeeps, Replies

(* The end of a login, acceptance or link.                                 *)
LEMMA CallbackEnds ==
  ASSUME SignInInv, NEW t \in Tabs,
         LoginExternal(t) \/ AcceptExternal(t) \/ LinkExternalIdentity(t)
  PROVE  SignInInv'
<1>1. /\ UNCHANGED <<clock, attempts, jar, own, account, password>>
      /\ version' \in [Users -> Int]
  <2>1. version' = version \/ Rotate(account[t])
    BY DEF LoginExternal, AcceptExternal, LinkExternalIdentity
  <2>2. UNCHANGED <<clock, attempts, jar, own, account, password>>
    BY DEF LoginExternal, AcceptExternal, LinkExternalIdentity
  <2> QED
    BY <2>1, <2>2, RotateType DEF SignInInv, SignInTypeOK
<1>2. tokens' \in Nat
  BY DEF LoginExternal, AcceptExternal, LinkExternalIdentity, Issue, SignInInv, SignInTypeOK
<1>3. linked' \subseteq Users
  BY DEF LoginExternal, AcceptExternal, LinkExternalIdentity, SignInInv, SignInTypeOK, TabInv
<1>4. CASE Answer(t, Cleared)
  BY <1>1, <1>2, <1>3, <1>4, AnswerKeeps, Replies
<1>5. ASSUME NEW v \in Int, account[t] \in Users,
             Answer(t, [session |-> Token(account[t], v), attempt |-> None])
      PROVE  SignInInv'
  <2> DEFINE token == Token(account[t], v)
  <2>1. token \in Sessions
    BY <1>5, TokenType DEF SignInInv
  <2> HIDE DEF token
  <2> QED
    BY <1>1, <1>2, <1>3, <1>5, <2>1, AnswerKeeps, SessionReplies DEF token
<1>6. CASE Answer(t, [verified |-> None, attempt |-> None])
  <2> DEFINE cookies == [verified |-> None, attempt |-> None]
  <2>1. Replied(cookies) /\ ~Sets(cookies, "attempt") /\ ~Sets(cookies, "verified")
    BY DEF Replied, Sets, NoCookies
  <2>2. Answer(t, cookies)
    BY <1>6
  <2> HIDE DEF cookies
  <2> QED
    BY <1>1, <1>2, <1>3, <2>1, <2>2, AnswerKeeps
<1>7. CASE LoginExternal(t) \/ AcceptExternal(t)
  <2>1. account[t] \in Users
    BY <1>7 DEF LoginExternal, AcceptExternal, SignInInv, TabInv
  <2>2. version[account[t]] \in Int /\ version[account[t]] + 1 \in Int
    BY <2>1 DEF SignInInv, SignInTypeOK
  <2> QED
    BY <1>4, <1>5, <1>7, <2>1, <2>2 DEF LoginExternal, AcceptExternal
<1> QED
  BY <1>4, <1>6, <1>7 DEF LinkExternalIdentity

-----------------------------------------------------------------------------
(* The other actions.                                                      *)

LEMMA TickKeeps ==
  ASSUME SignInInv, Tick
  PROVE  SignInInv'
<1>1. /\ UNCHANGED <<version, linked, tokens, attempts, jar, pc, sent, reply, own,
                     account, found, password>>
      /\ clock \in Nat /\ clock' = clock + 1
  BY DEF Tick, database, tab, SignInInv, SignInTypeOK
<1>2. HeldAttempts' = HeldAttempts /\ HeldVerifications' = HeldVerifications
  BY <1>1 DEF HeldAttempts, HeldVerifications
<1>3. SignInTypeOK'
  BY <1>1 DEF SignInInv, SignInTypeOK
<1>4. AttemptsDiffer'
  BY <1>1, <1>2 DEF SignInInv, AttemptsDiffer
<1>5. PasswordInv'
  <2>1. \A u \in Users : password'[u] <= clock'
    BY <1>1 DEF SignInInv, PasswordInv, SignInTypeOK
  <2> QED
    BY <1>1, <1>2, <2>1 DEF SignInInv, PasswordInv
<1>6. ASSUME NEW t \in Tabs
      PROVE  TabInv(t)'
  BY <1>1 DEF SignInInv, TabInv
<1> QED
  BY <1>3, <1>4, <1>5, <1>6 DEF SignInInv

(* A tab moves on, and what is in the cookies and answers stays.           *)
LEMMA MovesOn ==
  ASSUME SignInInv, NEW t \in Tabs, NEW label \in Labels, Goto(t, label),
         UNCHANGED <<clock, version, linked, tokens, attempts, jar, sent, reply, own,
                     account, password>>,
         found' \in [Tabs -> Users \cup {None}],
         \A u \in Tabs \ {t} : found'[u] = found[u],
         TabInv(t)'
  PROVE  SignInInv'
<1>1. HeldAttempts' = HeldAttempts /\ HeldVerifications' = HeldVerifications
  BY DEF HeldAttempts, HeldVerifications
<1>2. pc' \in [Tabs -> Labels] /\ \A u \in Tabs \ {t} : pc'[u] = pc[u]
  BY DEF SignInInv, SignInTypeOK, Goto
<1>3. SignInTypeOK'
  BY <1>2 DEF SignInInv, SignInTypeOK
<1>4. AttemptsDiffer' /\ PasswordInv'
  BY <1>1, NothingNew
<1>5. ASSUME NEW u \in Tabs \ {t}
      PROVE  TabInv(u)'
  BY <1>2 DEF SignInInv, TabInv
<1> QED
  BY <1>3, <1>4, <1>5 DEF SignInInv

(* The attempt in the cookie has the number of the tab's own: it is it.    *)
LEMMA OpensItsOwn ==
  ASSUME SignInInv, NEW t \in Tabs, pc[t] = "callback", SameState(t)
  PROVE  /\ sent[t].attempt = own[t]
         /\ own[t] # None /\ own[t] \in HeldAttempts
<1>1. sent[t].attempt \in Attempts /\ own[t] \in Attempts /\ own[t] # None
  BY DEF SameState, SignInInv, TabInv, SignInTypeOK, Jars
<1>2. sent[t].attempt \in HeldAttempts /\ own[t] \in HeldAttempts
  BY <1>1 DEF HeldAttempts
<1> QED
  BY <1>1, <1>2 DEF SameState, SignInInv, AttemptsDiffer

LEMMA OpenAttemptKeeps ==
  ASSUME SignInInv, NEW t \in Tabs, OpenAttempt(t)
  PROVE  SignInInv'
<1>1. /\ Goto(t, "exchange")
      /\ UNCHANGED <<clock, version, linked, tokens, attempts, jar, sent, reply, own,
                     account, found, password>>
  BY DEF OpenAttempt, database
<1>2. TabInv(t)'
  <2>1. pc'[t] = "exchange"
    BY <1>1 DEF Goto, SignInInv, SignInTypeOK
  <2>2. sent[t].attempt = own[t] /\ own[t] # None /\ account[t] \in Users
    BY OpensItsOwn DEF OpenAttempt, SignInInv, TabInv
  <2> QED
    BY <1>1, <2>1, <2>2 DEF TabInv
<1>3. found' \in [Tabs -> Users \cup {None}]
  BY <1>1 DEF SignInInv, SignInTypeOK
<1> QED
  BY <1>1, <1>2, <1>3, MovesOn DEF Labels

LEMMA ExchangeKeeps ==
  ASSUME SignInInv, NEW t \in Tabs, Exchange(t)
  PROVE  SignInInv'
<1>1. UNCHANGED <<clock, version, linked, tokens, attempts, jar, sent, reply, own,
                  account, found, password>>
  BY DEF Exchange, database
<1>2. sent[t].attempt = own[t] /\ own[t] \in Attempts /\ account[t] \in Users
  BY DEF Exchange, SignInInv, TabInv, SignInTypeOK
<1>3. PICK mode \in Modes : Goto(t, mode)
  BY <1>2 DEF Exchange, Attempts
<1>4. pc'[t] = mode
  BY <1>3 DEF Goto, SignInInv, SignInTypeOK
<1>5. TabInv(t)'
  BY <1>1, <1>2, <1>4, NoneIsNothing DEF TabInv, Modes
<1>6. found' \in [Tabs -> Users \cup {None}]
  BY <1>1 DEF SignInInv, SignInTypeOK
<1> QED
  BY <1>1, <1>3, <1>5, <1>6, MovesOn DEF Labels, Modes

LEMMA CheckSessionKeeps ==
  ASSUME SignInInv, NEW t \in Tabs, CheckSession(t)
  PROVE  SignInInv'
<1> DEFINE token == sent[t].session
<1>1. token \in Sessions \cup {None}
  BY DEF SignInInv, SignInTypeOK, Jars
<1>2. UNCHANGED <<clock, version, linked, tokens, attempts, jar, own, account, password>>
  BY DEF CheckSession, database
<1>3. CASE Answer(t, Cleared)
  <2>1. version' \in [Users -> Int] /\ linked' \subseteq Users /\ tokens' \in Nat
    BY <1>2 DEF SignInInv, SignInTypeOK
  <2> QED
    BY <1>2, <1>3, <2>1, AnswerKeeps, Replies
<1>4. CASE /\ Live(token) /\ Goto(t, "linking")
           /\ found' = [found EXCEPT ![t] = token.user]
           /\ UNCHANGED <<sent, reply>>
  <2>1. token.user \in Users
    BY <1>1, <1>4, LiveType
  <2> HIDE DEF token
  <2>2. /\ found' \in [Tabs -> Users \cup {None}] /\ found'[t] \in Users
        /\ \A u \in Tabs \ {t} : found'[u] = found[u]
        /\ pc'[t] = "linking"
    BY <1>4, <2>1 DEF SignInInv, SignInTypeOK, Goto
  <2>3. TabInv(t)'
    BY <1>2, <1>4, <2>2 DEF CheckSession, SignInInv, TabInv
  <2> QED
    BY <1>2, <1>4, <2>2, <2>3, MovesOn DEF Labels
<1> QED
  BY <1>3, <1>4 DEF CheckSession

LEMMA GoogleAnswersKeeps ==
  ASSUME SignInInv, NEW t \in Tabs, NEW u \in Users, GoogleAnswers(t, u)
  PROVE  SignInInv'
<1>1. UNCHANGED <<clock, version, linked, tokens, attempts, jar, reply, own, found, password>>
  BY DEF GoogleAnswers, database
<1>2. /\ account' \in [Tabs -> Users \cup {None}] /\ sent' \in [Tabs -> Jars]
      /\ pc' \in [Tabs -> Labels]
      /\ account'[t] \in Users /\ sent'[t] = jar /\ pc'[t] = "callback"
      /\ \A w \in Tabs \ {t} :
           account'[w] = account[w] /\ sent'[w] = sent[w] /\ pc'[w] = pc[w]
  BY DEF GoogleAnswers, Goto, SignInInv, SignInTypeOK, Labels
<1>3. SignInTypeOK'
  BY <1>1, <1>2 DEF SignInInv, SignInTypeOK
<1>4. HeldAttempts' \subseteq HeldAttempts
  BY <1>1, <1>2 DEF HeldAttempts
<1>5. HeldVerifications' \subseteq HeldVerifications
  BY <1>1, <1>2 DEF HeldVerifications
<1>6. AttemptsDiffer' /\ PasswordInv'
  BY <1>1, <1>4, <1>5, NothingNew
<1>7. TabInv(t)'
  BY <1>1, <1>2 DEF GoogleAnswers, SignInInv, TabInv
<1>8. ASSUME NEW w \in Tabs \ {t}
      PROVE  TabInv(w)'
  BY <1>1, <1>2 DEF SignInInv, TabInv
<1> QED
  BY <1>3, <1>6, <1>7, <1>8 DEF SignInInv

(* The answer arrives or is lost: what it sets is in the jar or gone.      *)
LEMMA AnswerEnds ==
  ASSUME SignInInv, NEW t \in Tabs, Receive(t) \/ Lose(t)
  PROVE  SignInInv'
<1>1. UNCHANGED <<clock, version, linked, tokens, attempts, sent, found, password>>
  BY DEF Receive, Lose, database
<1>2. /\ DOMAIN reply' = Tabs /\ reply'[t] = NoReply
      /\ \A u \in Tabs \ {t} : reply'[u] = reply[u]
  BY DEF Receive, Lose, SignInInv, SignInTypeOK
<1>3. /\ own' \in [Tabs -> Attempts \cup {None}]
      /\ account' \in [Tabs -> Users \cup {None}]
      /\ own'[t] = own[t] \/ own'[t] = None
      /\ \A u \in Tabs \ {t} : own'[u] = own[u] /\ account'[u] = account[u]
  BY DEF Receive, Lose, Leave, SignInInv, SignInTypeOK
<1>4. /\ pc' \in [Tabs -> Labels]
      /\ \A u \in Tabs \ {t} : pc'[u] = pc[u]
      /\ \/ pc'[t] = "idle"
         \/ pc'[t] = "google" /\ own'[t] = own[t] /\ Sets(reply[t], "attempt")
  BY DEF Receive, Lose, Goto, SignInInv, SignInTypeOK, Labels, Sets
<1>5. /\ jar' \in Jars
      /\ jar'.attempt \in {jar.attempt, None} \/ Gives(reply[t], "attempt", jar'.attempt)
      /\ jar'.verified \in {jar.verified, None} \/ Gives(reply[t], "verified", jar'.verified)
  <2>1. CASE Lose(t)
    BY <2>1 DEF Lose, SignInInv, SignInTypeOK
  <2>2. CASE Receive(t)
    <3>1. DOMAIN jar = {"session", "verified", "attempt"} /\ jar \in Jars
      BY DEF SignInInv, SignInTypeOK, Jars
    <3>2. jar' = [c \in {"session", "verified", "attempt"} |->
                    IF c \in DOMAIN reply[t] THEN reply[t][c] ELSE jar[c]]
      BY <2>2, <3>1 DEF Receive, SetCookies
    <3>3. Replied(reply[t])
      BY DEF SignInInv, SignInTypeOK
    <3>4. /\ jar'.session \in Sessions \cup {None}
          /\ jar'.verified \in Verifications \cup {None}
          /\ jar'.attempt \in Attempts \cup {None}
      BY <3>1, <3>2, <3>3 DEF Replied, Sets, Jars
    <3>5. jar' = [session |-> jar'.session, verified |-> jar'.verified,
                  attempt |-> jar'.attempt]
      BY <3>2
    <3>6. jar' \in Jars
      BY <3>4, <3>5 DEF Jars
    <3> QED
      BY <3>2, <3>6 DEF Gives
  <2> QED
    BY <2>1, <2>2
<1>6. SignInTypeOK'
  BY <1>1, <1>2, <1>3, <1>4, <1>5, Replies DEF SignInInv, SignInTypeOK
<1>7. HeldAttempts' \subseteq HeldAttempts
  <2> SUFFICES ASSUME NEW a \in HeldAttempts'
               PROVE  a \in HeldAttempts
    OBVIOUS
  <2>1. a \in Attempts /\ a # None /\ ~Gives(NoReply, "attempt", a)
    BY NoneIsNothing DEF HeldAttempts, Gives, NoReply
  <2>2. CASE a = jar'.attempt
    BY <1>5, <2>1, <2>2 DEF HeldAttempts
  <2>3. ASSUME NEW u \in Tabs,
               a = own'[u] \/ a = sent'[u].attempt \/ Gives(reply'[u], "attempt", a)
        PROVE  a \in HeldAttempts
    BY <1>1, <1>2, <1>3, <2>1, <2>3 DEF HeldAttempts
  <2> QED
    BY <2>2, <2>3 DEF HeldAttempts
<1>8. HeldVerifications' \subseteq HeldVerifications
  <2> SUFFICES ASSUME NEW v \in HeldVerifications'
               PROVE  v \in HeldVerifications
    OBVIOUS
  <2>1. v \in Verifications /\ v # None /\ ~Gives(NoReply, "verified", v)
    BY NoneIsNothing DEF HeldVerifications, Gives, NoReply
  <2>2. CASE v = jar'.verified
    BY <1>5, <2>1, <2>2 DEF HeldVerifications
  <2>3. ASSUME NEW u \in Tabs,
               v = sent'[u].verified \/ Gives(reply'[u], "verified", v)
        PROVE  v \in HeldVerifications
    BY <1>1, <1>2, <2>1, <2>3 DEF HeldVerifications
  <2> QED
    BY <2>2, <2>3 DEF HeldVerifications
<1>9. AttemptsDiffer' /\ PasswordInv'
  BY <1>1, <1>7, <1>8, NothingNew
<1>10. TabInv(t)'
  <2>1. Sets(reply[t], "attempt") => own[t] # None
    BY DEF Receive, Lose, SignInInv, TabInv, Sets
  <2> QED
    BY <1>2, <1>4, <2>1 DEF TabInv
<1>11. ASSUME NEW u \in Tabs \ {t}
       PROVE  TabInv(u)'
  BY <1>1, <1>2, <1>3, <1>4 DEF SignInInv, TabInv
<1> QED
  BY <1>6, <1>9, <1>10, <1>11 DEF SignInInv

LEMMA LoginKeeps ==
  ASSUME SignInInv, NEW t \in Tabs, NEW u \in Users, Login(t, u)
  PROVE  SignInInv'
<1> DEFINE token == Token(u, version[u])
           verified == [token |-> token, expires |-> clock + VerificationTTL]
<1>1. /\ UNCHANGED <<clock, version, linked, attempts, jar, own, account>>
      /\ tokens' = tokens + 1
      /\ password' = [password EXCEPT ![u] = clock]
      /\ pc[t] = "idle"
  BY DEF Login, Issue
<1>2. /\ token \in Sessions /\ token.user = u
      /\ verified \in Verifications /\ verified.token = token
      /\ verified.expires = clock + VerificationTTL
  <2>1. token \in Sessions
    BY TokenType DEF SignInInv, SignInTypeOK
  <2>2. token.user = u
    BY DEF Token
  <2>3. clock + VerificationTTL \in Int
    BY SignInAssumption DEF SignInAssumption, SignInInv, SignInTypeOK
  <2> HIDE DEF token
  <2> QED
    BY <2>1, <2>2, <2>3 DEF Verifications
<1>3. PICK cookies \in {[session |-> token, verified |-> verified], [session |-> token]} :
        Answer(t, cookies)
  BY DEF Login
<1> HIDE DEF token, verified
<1>4. /\ Replied(cookies) /\ ~Sets(cookies, "attempt")
      /\ \A v : Gives(cookies, "verified", v) => v = verified
  BY <1>2 DEF Replied, Sets, Gives, NoCookies
<1>5. SignInTypeOK'
  BY <1>1, <1>3, <1>4, Answering DEF SignInInv, SignInTypeOK
<1>6. HeldAttempts' \subseteq HeldAttempts
  <2>1. ASSUME NEW a \in HeldAttempts', a = own[t]
        PROVE  a \in HeldAttempts
    BY <2>1 DEF HeldAttempts
  <2>2. ASSUME NEW a \in HeldAttempts'
        PROVE  ~Gives(cookies, "attempt", a)
    BY <1>4, <2>2, NoneIsNothing DEF HeldAttempts, Sets, Gives
  <2> QED
    BY <1>1, <1>3, <1>4, <2>1, <2>2, HeldAfterAnswer DEF SignInInv
<1>7. \A v \in HeldVerifications' : v \in HeldVerifications \/ v = verified
  BY <1>1, <1>3, <1>4, HeldAfterAnswer DEF SignInInv
<1>8. /\ \A w \in Users : password[w] <= password'[w] /\ password'[w] <= clock'
      /\ password'[u] = clock
      /\ password \in [Users -> Int] /\ password' \in [Users -> Int] /\ clock \in Nat
  BY <1>1 DEF SignInInv, PasswordInv, SignInTypeOK
<1>9. AttemptsDiffer'
  BY <1>1, <1>6 DEF SignInInv, AttemptsDiffer
<1>10. PasswordInv'
  <2>1. ASSUME NEW v \in HeldVerifications'
        PROVE  v.expires <= password'[v.token.user] + VerificationTTL
    <3>1. CASE v = verified
      BY <1>2, <1>8, <3>1, SignInAssumption DEF SignInAssumption
    <3>2. CASE v \in HeldVerifications
      <4>1. v \in Verifications /\ v.token.user \in Users /\ v.expires \in Int
        BY <3>2 DEF HeldVerifications, Verifications, Sessions
      <4>2. v.expires <= password[v.token.user] + VerificationTTL
        BY <3>2 DEF SignInInv, PasswordInv
      <4> QED
        BY <1>8, <4>1, <4>2, SignInAssumption DEF SignInAssumption
    <3> QED
      BY <1>7, <3>1, <3>2
  <2>2. ASSUME NEW a \in HeldAttempts', a.mode = "link"
        PROVE  /\ a.by \in Users
               /\ a.expires < password'[a.by] + VerificationTTL + AttemptTTL
    <3>1. /\ a.by \in Users /\ a.expires \in Int
          /\ a.expires < password[a.by] + VerificationTTL + AttemptTTL
      BY <1>6, <2>2 DEF SignInInv, PasswordInv, HeldAttempts, Attempts
    <3> QED
      BY <1>8, <3>1, SignInAssumption DEF SignInAssumption
  <2> QED
    BY <1>8, <2>1, <2>2 DEF PasswordInv
<1>11. ASSUME NEW w \in Tabs
       PROVE  TabInv(w)'
  <2>1. CASE w = t
    BY <1>3, <1>4, <2>1, Answering DEF SignInInv, TabInv
  <2>2. CASE w # t
    <3>1. /\ pc'[w] = pc[w] /\ reply'[w] = reply[w] /\ sent'[w] = sent[w]
          /\ found'[w] = found[w]
      BY <1>3, <1>4, <2>2, Answering DEF Answer, SignInInv, SignInTypeOK
    <3> QED
      BY <1>1, <3>1 DEF SignInInv, TabInv
  <2> QED
    BY <2>1, <2>2
<1> QED
  BY <1>5, <1>9, <1>10, <1>11 DEF SignInInv

(* A link is started while a verification lasts, which is bound to the     *)
(* session of the user who asks for it.                                    *)
LEMMA NewAttemptType ==
  ASSUME SignInInv, NEW mode \in Modes, MayStart(mode)
  PROVE  /\ NewAttempt(mode) \in Attempts
         /\ NewAttempt(mode).number = attempts
         /\ NewAttempt(mode).mode = "link" =>
              /\ NewAttempt(mode).by \in Users
              /\ NewAttempt(mode).expires
                   < password[NewAttempt(mode).by] + VerificationTTL + AttemptTTL
<1> DEFINE a == NewAttempt(mode)
<1>1. /\ a.number = attempts /\ a.mode = mode /\ a.expires = clock + AttemptTTL
      /\ a.by = IF mode = "link" THEN jar.session.user ELSE None
      /\ a = [number |-> attempts, mode |-> mode, expires |-> clock + AttemptTTL,
              by |-> a.by]
  BY DEF NewAttempt
<1>2. /\ clock \in Nat /\ attempts \in Nat /\ clock + AttemptTTL \in Int
      /\ VerificationTTL \in Nat /\ AttemptTTL \in Nat /\ password \in [Users -> Int]
  BY SignInAssumption DEF SignInAssumption, SignInInv, SignInTypeOK
<1>3. CASE mode = "link"
  <2>1. /\ jar.session \in Sessions \cup {None}
        /\ Live(jar.session) /\ HasPasswordVerified(jar)
    BY <1>3 DEF MayStart, SignInInv, SignInTypeOK, Jars
  <2>2. jar.session.user \in Users
    BY <2>1, LiveType
  <2>3. /\ jar.verified \in HeldVerifications
        /\ jar.verified.token = jar.session
        /\ clock < jar.verified.expires /\ jar.verified.expires \in Int
    BY <2>1 DEF HasPasswordVerified, SignInInv, SignInTypeOK, Jars, HeldVerifications,
       Verifications
  <2>4. jar.verified.expires <= password[jar.session.user] + VerificationTTL
    BY <2>3 DEF SignInInv, PasswordInv
  <2>5. a.expires < password[jar.session.user] + VerificationTTL + AttemptTTL
    BY <1>1, <1>2, <2>2, <2>3, <2>4
  <2> HIDE DEF a
  <2>6. a \in Attempts
    BY <1>1, <1>2, <1>3, <2>2 DEF Attempts
  <2> QED
    BY <1>1, <1>3, <2>2, <2>5, <2>6 DEF a
<1>4. CASE mode # "link"
  <2> HIDE DEF a
  <2>1. a \in Attempts
    BY <1>1, <1>2, <1>4 DEF Attempts
  <2> QED
    BY <1>1, <1>4, <2>1 DEF a
<1> QED
  BY <1>3, <1>4

LEMMA StartKeeps ==
  ASSUME SignInInv, NEW t \in Tabs, NEW mode \in Modes, Start(t, mode)
  PROVE  SignInInv'
<1> DEFINE new == NewAttempt(mode)
           cookies == [attempt |-> new]
<1>1. /\ new \in Attempts /\ new.number = attempts
      /\ new.mode = "link" =>
           /\ new.by \in Users
           /\ new.expires < password[new.by] + VerificationTTL + AttemptTTL
  BY NewAttemptType DEF Start
<1>2. /\ UNCHANGED <<clock, version, linked, tokens, jar, account, password>>
      /\ attempts' = attempts + 1
      /\ own' = [own EXCEPT ![t] = new]
      /\ Answer(t, cookies)
  BY DEF Start, database
<1> HIDE DEF new
<1>3. /\ Replied(cookies) /\ ~Sets(cookies, "verified")
      /\ \A a : Gives(cookies, "attempt", a) => a = new
      /\ cookies.attempt = new
      /\ \A v : ~Gives(cookies, "verified", v)
  BY <1>1 DEF Replied, Sets, Gives, NoCookies
<1> HIDE DEF cookies
<1>4. /\ own'[t] = new /\ \A u \in Tabs \ {t} : own'[u] = own[u]
      /\ own' \in [Tabs -> Attempts \cup {None}]
  BY <1>1, <1>2 DEF SignInInv, SignInTypeOK
<1>5. SignInTypeOK'
  BY <1>2, <1>3, <1>4, Answering DEF SignInInv, SignInTypeOK
<1>6. \A a \in HeldAttempts' : a \in HeldAttempts \/ a = new
  BY <1>2, <1>3, <1>4, HeldAfterAnswer DEF SignInInv
<1>7. HeldVerifications' \subseteq HeldVerifications
  BY <1>2, <1>3, <1>4, HeldAfterAnswer DEF SignInInv
<1>8. AttemptsDiffer'
  <2>1. attempts \in Nat /\ \A a \in HeldAttempts : a.number \in Int
    BY DEF SignInInv, SignInTypeOK, HeldAttempts, Attempts
  <2> QED
    BY <1>1, <1>2, <1>6, <2>1 DEF SignInInv, AttemptsDiffer
<1>9. PasswordInv'
  BY <1>1, <1>2, <1>6, <1>7 DEF SignInInv, PasswordInv
<1>10. ASSUME NEW u \in Tabs
       PROVE  TabInv(u)'
  <2>1. CASE u = t
    BY <1>2, <1>3, <1>4, <2>1, Answering DEF SignInInv, TabInv
  <2>2. CASE u # t
    <3>1. /\ pc'[u] = pc[u] /\ reply'[u] = reply[u] /\ sent'[u] = sent[u]
          /\ found'[u] = found[u]
      BY <1>2, <1>3, <2>2, Answering DEF Answer, SignInInv, SignInTypeOK
    <3> QED
      BY <1>2, <1>4, <2>2, <3>1 DEF SignInInv, TabInv
  <2> QED
    BY <2>1, <2>2
<1> QED
  BY <1>5, <1>8, <1>9, <1>10 DEF SignInInv

-----------------------------------------------------------------------------
LEMMA SignInStarts == SignInInit => SignInInv
<1> SUFFICES ASSUME SignInInit
             PROVE  SignInInv
  OBVIOUS
<1>1. NoCookies \in Jars /\ NoCookies.attempt = None /\ NoCookies.verified = None
  BY DEF NoCookies, Jars
<1>2. SignInTypeOK
  BY <1>1, Replies, SignInAssumption
  DEF SignInInit, SignInTypeOK, SignInAssumption, Labels
<1>3. HeldAttempts = {}
  BY <1>1, NoneIsNothing DEF SignInInit, HeldAttempts, Gives, NoReply
<1>4. HeldVerifications = {}
  BY <1>1, NoneIsNothing DEF SignInInit, HeldVerifications, Gives, NoReply
<1>5. \A u \in Users : password[u] <= clock
  <2>1. -(VerificationTTL + AttemptTTL) <= 0
    BY SignInAssumption DEF SignInAssumption
  <2> QED
    BY <2>1 DEF SignInInit
<1>6. AttemptsDiffer /\ PasswordInv
  BY <1>3, <1>4, <1>5 DEF AttemptsDiffer, PasswordInv
<1>7. \A t \in Tabs : TabInv(t)
  BY DEF SignInInit, TabInv
<1> QED
  BY <1>2, <1>6, <1>7 DEF SignInInv

LEMMA SignInKeeps == SignInInv /\ [SignInNext]_signInVars => SignInInv'
<1> SUFFICES ASSUME SignInInv, [SignInNext]_signInVars
             PROVE  SignInInv'
  OBVIOUS
<1>1. CASE Tick
  BY <1>1, TickKeeps
<1>2. ASSUME NEW t \in Tabs, NEW u \in Users, Login(t, u) \/ GoogleAnswers(t, u)
      PROVE  SignInInv'
  BY <1>2, LoginKeeps, GoogleAnswersKeeps
<1>3. ASSUME NEW t \in Tabs, NEW mode \in Modes, Start(t, mode)
      PROVE  SignInInv'
  BY <1>3, StartKeeps
<1>4. ASSUME NEW t \in Tabs,
             \/ Logout(t) \/ Switch(t) \/ Receive(t) \/ Lose(t)
             \/ GoogleDeclines(t)
      PROVE  SignInInv'
  BY <1>4, LogoutKeeps, SwitchKeeps, AnswerEnds, GoogleDeclinesKeeps
<1>5. ASSUME NEW t \in Tabs, Callback(t)
      PROVE  SignInInv'
  BY <1>5, OpenAttemptKeeps, RefuseAttemptKeeps, ExchangeKeeps, ExchangeFailsKeeps,
     CallbackEnds, CheckSessionKeeps DEF Callback
<1>6. CASE UNCHANGED signInVars
  <2>1. UNCHANGED <<clock, version, linked, tokens, attempts, jar, pc, sent, reply, own,
                    account, found, password>>
    BY <1>6 DEF signInVars, database, tab
  <2>2. HeldAttempts' = HeldAttempts /\ HeldVerifications' = HeldVerifications
    BY <2>1 DEF HeldAttempts, HeldVerifications
  <2>3. AttemptsDiffer' /\ PasswordInv'
    BY <2>1, <2>2, NothingNew
  <2>4. SignInTypeOK'
    BY <2>1 DEF SignInInv, SignInTypeOK
  <2>5. \A t \in Tabs : TabInv(t)'
    BY <2>1 DEF SignInInv, TabInv
  <2> QED
    BY <2>3, <2>4, <2>5 DEF SignInInv
<1> QED
  BY <1>1, <1>2, <1>3, <1>4, <1>5, <1>6 DEF SignInNext

(* Whatever the tabs do, whatever answers come late or get lost, and       *)
(* whenever a lifetime ends: cookies, tabs and attempts keep their types,  *)
(* numbers name one attempt each, no cookie outlives the password it rests *)
(* on, and a callback works with what its tab asked for.                   *)
THEOREM SignInInvariant == SignInSpec => []SignInInv
BY SignInStarts, SignInKeeps, PTL DEF SignInSpec

(* The cookies, tabs and attempts keep their types.                        *)
THEOREM SignInTyped == SignInSpec => []SignInTypeOK
<1>1. SignInInv => SignInTypeOK
  BY DEF SignInInv
<1> QED
  BY <1>1, SignInInvariant, PTL

(* What a tab's answer from Google is used for is what the tab asked for,  *)
(* for any number of tabs, users and attempts: googleOIDCCallback compares *)
(* the state in the cookie with the one in the query.                      *)
THEOREM AsAsked == SignInSpec => []ActsAsAsked
<1>1. SignInInv => ActsAsAsked
  BY DEF SignInInv, TabInv, ActsAsAsked
<1> QED
  BY <1>1, SignInInvariant, PTL

(* A link that googleOIDCCallback goes on with was asked for by a user who *)
(* had entered the password no longer ago than the verification and the    *)
(* attempt last together, for any lifetimes.                               *)
THEOREM FollowsPassword == SignInSpec => LinkFollowsPassword
<1>1. ASSUME SignInInv, NEW t \in Tabs, OpenAttempt(t), sent[t].attempt.mode = "link"
      PROVE  clock < password[sent[t].attempt.by] + VerificationTTL + AttemptTTL
  <2> DEFINE a == sent[t].attempt
  <2>1. a \in HeldAttempts /\ clock < a.expires
    BY <1>1, OpensItsOwn DEF OpenAttempt
  <2>2. a.by \in Users /\ a.expires < password[a.by] + VerificationTTL + AttemptTTL
    BY <1>1, <2>1 DEF SignInInv, PasswordInv
  <2>3. /\ clock \in Nat /\ a.expires \in Int /\ password[a.by] \in Int
        /\ VerificationTTL \in Nat /\ AttemptTTL \in Nat
    BY <1>1, <2>1, <2>2, SignInAssumption
    DEF SignInAssumption, SignInInv, SignInTypeOK, HeldAttempts, Attempts
  <2> HIDE DEF a
  <2> QED
    BY <2>1, <2>2, <2>3 DEF a
<1>2. SignInInv =>
        [\A t \in Tabs : OpenAttempt(t) /\ sent[t].attempt.mode = "link" =>
           clock < password[sent[t].attempt.by] + VerificationTTL + AttemptTTL]_signInVars
  BY <1>1
<1> QED
  BY <1>2, SignInInvariant, PTL DEF LinkFollowsPassword

-----------------------------------------------------------------------------
(***************************************************************************)
(* Localization, for any locales, scopes, keys, editors and requests       *)
(*                                                                         *)
(* What a request found first was noted, with all texts that took effect   *)
(* since; an editor's page is the row, or an older state of it, or the row *)
(* was deleted since.                                                      *)
(***************************************************************************)

(* The text of a key of a request, in the requested locale or the default. *)
Now(r, l, k) == InForce(overrides, l, ask[r].scope, k)

(* The keys asked for, and the texts there are now are among those noted.  *)
AskInv(r) ==
  stage[r] # "idle" =>
    /\ ask[r] # NoAsk
    /\ IsBundle(r) => ask[r].keys = Keys
    /\ ~IsBundle(r) => \E k \in Keys : ask[r].keys = {k}
NotedInv(r) ==
  stage[r] \in {"requested", "default"} =>
    \A k \in Keys : /\ Now(r, ask[r].locale, k) \in had[r].requested[k]
                    /\ Now(r, Default, k) \in had[r].default[k]

(* Between the two reads: a bundle carries what it found, a message has    *)
(* found nothing, or its first read failed.                                *)
FirstInv(r) ==
  stage[r] = "default" =>
    /\ ask[r].locale # Default
    /\ IsBundle(r) => \A k \in Keys : first[r][k] \in had[r].requested[k]
    /\ ~IsBundle(r) => \A k \in ask[r].keys : Missed(r, k, "requested")

AnswerInv(r) == stage[r] = "answered" => HasCause(r)

(* A page shows the row as it is, or an older one with another revision,   *)
(* unless the row was deleted since.                                       *)
PageInv(e) ==
  OnText(e) /\ e \notin replaced =>
    \/ overrides[page[e].slot] = page[e].row
    \/ overrides[page[e].slot].revision > page[e].row.revision

LocalizationInv ==
  /\ LocalizationTypeOK
  /\ \A r \in Requests : AskInv(r) /\ NotedInv(r) /\ FirstInv(r) /\ AnswerInv(r)
  /\ \A e \in Editors : PageInv(e)

-----------------------------------------------------------------------------
(* Types.                                                                  *)

LEMMA ConstantTypes ==
  /\ Default \in Locales /\ Shared \in Scopes /\ Internal \in Keys
  /\ NoText \in Text /\ FallbackMessage \in Text /\ FallbackMessage # NoText
  /\ \A slot \in Slots : Product[slot] \in Text
  /\ NoRow \in Row /\ NoTexts \in [Keys -> Text]
  /\ \A e \in 0..(MaxEdits - 1) : FirstEdit + e \in Text
<1>1. /\ Default \in Locales /\ Shared \in Scopes /\ Internal \in Keys
      /\ FirstEdit \in Nat \ {0} /\ MaxEdits \in Nat
      /\ Product \in [Slots -> 0..(FirstEdit - 1)]
      /\ Product[<<Default, Shared, Internal>>] # NoText
  BY LocalizationAssumption DEF LocalizationAssumption
<1>2. NoText \in Text
  BY <1>1 DEF NoText, Text
<1>3. \A slot \in Slots : Product[slot] \in Text
  <2> SUFFICES ASSUME NEW slot \in Slots
               PROVE  Product[slot] \in Text
    OBVIOUS
  <2>1. Product[slot] \in 0..(FirstEdit - 1)
    BY <1>1
  <2> QED
    BY <1>1, <2>1 DEF Text
<1>4. FallbackMessage \in Text /\ FallbackMessage # NoText
  BY <1>1, <1>3 DEF FallbackMessage, Slots
<1>5. \A e \in 0..(MaxEdits - 1) : FirstEdit + e \in Text
  BY <1>1 DEF Text
<1>6. NoRow \in Row /\ NoTexts \in [Keys -> Text]
  BY <1>2 DEF NoRow, Row, NoTexts
<1> QED
  BY <1>1, <1>2, <1>3, <1>4, <1>5, <1>6

(* What is merged from the query and the catalog is the text in force.     *)
LEMMA Prevails ==
  ASSUME NEW table, NEW l, NEW s, NEW k
  PROVE  Effective(table, l, s, k) = InForce(table, l, s, k)
<1> DEFINE override(c) == table[<<l, c, k>>].text
           product(c) == Product[<<l, c, k>>]
           overriding == {c \in {s, Shared} : override(c) # NoText}
           providing == {c \in {s, Shared} : product(c) # NoText}
           Nearest(scopes) == IF s \in scopes THEN s ELSE Shared
<1>1. Effective(table, l, s, k) =
        IF override(s) # NoText THEN override(s)
        ELSE IF override(Shared) # NoText THEN override(Shared)
        ELSE IF product(s) # NoText THEN product(s) ELSE product(Shared)
  BY DEF Effective, Or
<1>2. InForce(table, l, s, k) =
        CASE overriding # {} -> override(Nearest(overriding))
          [] overriding = {} /\ providing # {} -> product(Nearest(providing))
          [] OTHER -> NoText
  BY DEF InForce
<1>3. CASE override(s) # NoText \/ override(Shared) # NoText
  <2>1. overriding # {} /\ (s \in overriding <=> override(s) # NoText)
    BY <1>3
  <2>2. InForce(table, l, s, k) = override(Nearest(overriding))
    BY <1>2, <2>1
  <2> QED
    BY <1>1, <1>3, <2>1, <2>2
<1>4. CASE override(s) = NoText /\ override(Shared) = NoText
  <2>1. overriding = {}
    BY <1>4
  <2>2. /\ s \in providing <=> product(s) # NoText
        /\ providing = {} <=> product(s) = NoText /\ product(Shared) = NoText
    OBVIOUS
  <2>3. InForce(table, l, s, k) =
          IF providing # {} THEN product(Nearest(providing)) ELSE NoText
    BY <1>2, <2>1
  <2> QED
    BY <1>1, <1>4, <2>2, <2>3
<1> QED
  BY <1>3, <1>4

LEMMA InForceType ==
  ASSUME NEW table \in [Slots -> Row], NEW l \in Locales, NEW s \in Scopes, NEW k \in Keys
  PROVE  InForce(table, l, s, k) \in Text
<1>1. <<l, Shared, k>> \in Slots /\ <<l, s, k>> \in Slots
  BY ConstantTypes DEF Slots
<1>2. table[<<l, Shared, k>>].text \in Text /\ table[<<l, s, k>>].text \in Text
  BY <1>1 DEF Row
<1>3. Product[<<l, s, k>>] \in Text /\ Product[<<l, Shared, k>>] \in Text
  BY <1>1, ConstantTypes
<1> QED
  BY <1>2, <1>3, Prevails DEF Effective, Or

LEMMA AskTypes ==
  ASSUME LocalizationInv, NEW r \in Requests, stage[r] # "idle"
  PROVE  /\ ask[r].locale \in Locales /\ ask[r].scope \in Scopes
         /\ ask[r].keys \subseteq Keys /\ ask[r].keys # {}
         /\ ask[r] \in [kind : {"bundle", "message"}, locale : Locales,
                        scope : Scopes, keys : SUBSET Keys]
<1>1. ask[r] \in [kind : {"bundle", "message"}, locale : Locales,
                 scope : Scopes, keys : SUBSET Keys]
  BY DEF LocalizationInv, AskInv, LocalizationTypeOK
<1>2. ask[r].keys # {}
  BY ConstantTypes DEF LocalizationInv, AskInv
<1> QED
  BY <1>1, <1>2

-----------------------------------------------------------------------------
(* Editors.                                                                *)

(* What every request knows.                                               *)
RequestsInv == \A r \in Requests : AskInv(r) /\ NotedInv(r) /\ FirstInv(r) /\ AnswerInv(r)

LEMMA RequestsRest ==
  ASSUME LocalizationInv, UNCHANGED <<overrides, request>>
  PROVE  RequestsInv'
<1>1. UNCHANGED <<overrides, stage, ask, first, failed, had, answer>>
  BY DEF request
<1>2. ASSUME NEW r \in Requests
      PROVE  AskInv(r)' /\ NotedInv(r)' /\ FirstInv(r)' /\ AnswerInv(r)'
  <2>1. AskInv(r) /\ NotedInv(r) /\ FirstInv(r) /\ AnswerInv(r)
    BY DEF LocalizationInv
  <2>2. AskInv(r)'
    BY <1>1, <2>1 DEF AskInv, IsBundle
  <2>3. NotedInv(r)'
    BY <1>1, <2>1 DEF NotedInv, Now
  <2>4. FirstInv(r)'
    BY <1>1, <2>1 DEF FirstInv, Missed, IsBundle
  <2>5. AnswerInv(r)'
    BY <1>1, <2>1 DEF AnswerInv, HasCause, Missed, IsBundle
  <2> QED
    BY <2>2, <2>3, <2>4, <2>5
<1> QED
  BY <1>2 DEF RequestsInv

LEMMA OpenKeeps ==
  ASSUME LocalizationInv, NEW e \in Editors,
         (\E slot \in Edited : OpenText(e, slot)) \/ (\E l \in Locales : OpenLanguage(e, l))
  PROVE  LocalizationInv'
<1>1. UNCHANGED <<overrides, languages, edits, replaced, request>>
  BY DEF OpenText, OpenLanguage, store
<1>2. CASE \E slot \in Edited : OpenText(e, slot)
  <2>1. PICK slot \in Slots :
          page' = [page EXCEPT ![e] = [on |-> "text", slot |-> slot, row |-> overrides[slot]]]
    BY <1>2, LocalizationAssumption DEF OpenText, LocalizationAssumption
  <2> DEFINE new == [on |-> "text", slot |-> slot, row |-> overrides[slot]]
  <2>2. /\ new \in [on : {"text"}, slot : Slots, row : Row]
        /\ new.slot = slot /\ new.row = overrides[slot]
    BY DEF LocalizationInv, LocalizationTypeOK
  <2> HIDE DEF new
  <2>3. LocalizationTypeOK'
    BY <1>1, <2>1, <2>2 DEF new, LocalizationInv, LocalizationTypeOK, request
  <2>4. ASSUME NEW f \in Editors
        PROVE  PageInv(f)'
    <3>1. page'[f] = IF f = e THEN new ELSE page[f]
      BY <2>1 DEF new, LocalizationInv, LocalizationTypeOK
    <3> QED
      BY <1>1, <2>2, <3>1 DEF LocalizationInv, PageInv, OnText
  <2> QED
    BY <1>1, <2>3, <2>4, RequestsRest DEF LocalizationInv, RequestsInv
<1>3. CASE \E l \in Locales : OpenLanguage(e, l)
  <2>1. PICK l \in Locales :
          page' = [page EXCEPT ![e] = [on |-> "language", locale |-> l, row |-> languages[l]]]
    BY <1>3 DEF OpenLanguage
  <2> DEFINE new == [on |-> "language", locale |-> l, row |-> languages[l]]
  <2>2. /\ new \in [on : {"language"}, locale : Locales, row : LanguageRow]
        /\ new.on # "text"
    BY DEF LocalizationInv, LocalizationTypeOK
  <2> HIDE DEF new
  <2>3. LocalizationTypeOK'
    BY <1>1, <2>1, <2>2 DEF new, LocalizationInv, LocalizationTypeOK, request
  <2>4. ASSUME NEW f \in Editors
        PROVE  PageInv(f)'
    <3>1. page'[f] = IF f = e THEN new ELSE page[f]
      BY <2>1 DEF new, LocalizationInv, LocalizationTypeOK
    <3> QED
      BY <1>1, <2>2, <3>1 DEF LocalizationInv, PageInv, OnText
  <2> QED
    BY <1>1, <2>3, <2>4, RequestsRest DEF LocalizationInv, RequestsInv
<1> QED
  BY <1>2, <1>3

(* A page that is closed shows nothing.                                    *)
LEMMA Closed ==
  ASSUME LocalizationInv, NEW e \in Editors, Close(e), UNCHANGED overrides
  PROVE  /\ page' \in [Editors -> [on : {"text"}, slot : Slots, row : Row]
                          \cup [on : {"language"}, locale : Locales, row : LanguageRow]
                          \cup {NoPage}]
         /\ replaced' \subseteq Editors
         /\ \A f \in Editors : PageInv(f)'
<1>1. /\ page' \in [Editors -> [on : {"text"}, slot : Slots, row : Row]
                          \cup [on : {"language"}, locale : Locales, row : LanguageRow]
                          \cup {NoPage}]
      /\ replaced' \subseteq Editors
      /\ page'[e] = NoPage /\ \A f \in Editors \ {e} : page'[f] = page[f]
      /\ replaced' = replaced \ {e}
  BY DEF Close, LocalizationInv, LocalizationTypeOK
<1>2. \A f \in Editors : PageInv(f)'
  BY <1>1 DEF LocalizationInv, PageInv, OnText, NoPage
<1> QED
  BY <1>1, <1>2

LEMMA RefuseKeeps ==
  ASSUME LocalizationInv, NEW e \in Editors, Refuse(e)
  PROVE  LocalizationInv'
<1>1. Close(e) /\ UNCHANGED <<overrides, languages, edits, request>>
  BY DEF Refuse, store
<1>2. LocalizationTypeOK'
  BY <1>1, Closed DEF LocalizationInv, LocalizationTypeOK, request
<1> QED
  BY <1>1, <1>2, Closed, RequestsRest DEF LocalizationInv, RequestsInv

LEMMA SaveLanguageKeeps ==
  ASSUME LocalizationInv, NEW e \in Editors, NEW active \in BOOLEAN, SaveLanguage(e, active)
  PROVE  LocalizationInv'
<1>1. Close(e) /\ UNCHANGED <<overrides, request>>
  BY DEF SaveLanguage
<1>2. edits' \in 0..MaxEdits
  BY LocalizationAssumption
  DEF SaveLanguage, LocalizationInv, LocalizationTypeOK, LocalizationAssumption
<1>3. languages' \in [Locales -> LanguageRow]
  <2> DEFINE l == page[e].locale
             new == [revision |-> NextRevision(languages[l]), active |-> active]
  <2>1. l \in Locales
    BY DEF SaveLanguage, OnLanguage, LocalizationInv, LocalizationTypeOK, NoPage
  <2>2. new \in LanguageRow
    BY <2>1 DEF NextRevision, LanguageRow, LocalizationInv, LocalizationTypeOK
  <2>3. languages' = [languages EXCEPT ![l] = new]
    BY DEF SaveLanguage
  <2> HIDE DEF l, new
  <2> QED
    BY <2>2, <2>3 DEF LocalizationInv, LocalizationTypeOK
<1>4. LocalizationTypeOK'
  BY <1>1, <1>2, <1>3, Closed DEF LocalizationInv, LocalizationTypeOK, request
<1> QED
  BY <1>1, <1>4, Closed, RequestsRest DEF LocalizationInv, RequestsInv

(* Requests in flight note every text that takes effect.                   *)
LEMMA NotedKeeps ==
  ASSUME LocalizationInv, overrides' \in [Slots -> Row], had' = Noted(overrides'),
         UNCHANGED <<stage, ask, first, failed, answer>>
  PROVE  had' \in [Requests -> [{"requested", "default"} -> [Keys -> SUBSET Text]]]
         /\ RequestsInv'
<1> DEFINE Rows == overrides'
           Requested(r, k) == had[r].requested[k]
                              \cup {InForce(Rows, ask[r].locale, ask[r].scope, k)}
           InDefault(r, k) == had[r].default[k]
                              \cup {InForce(Rows, Default, ask[r].scope, k)}
<1>1. ASSUME NEW r \in Requests \ InFlight
      PROVE  had'[r] = had[r]
  BY DEF Noted
<1>2. had \in [Requests -> [{"requested", "default"} -> [Keys -> SUBSET Text]]]
  BY DEF LocalizationInv, LocalizationTypeOK
<1>3. ASSUME NEW r \in InFlight, NEW k \in Keys
      PROVE  Requested(r, k) \in SUBSET Text /\ InDefault(r, k) \in SUBSET Text
  <2>1. r \in Requests /\ stage[r] # "idle"
    BY DEF InFlight
  <2>2. ask[r].locale \in Locales /\ ask[r].scope \in Scopes
    BY <2>1, AskTypes
  <2>3. InForce(Rows, ask[r].locale, ask[r].scope, k) \in Text
    BY <2>2, InForceType
  <2>4. InForce(Rows, Default, ask[r].scope, k) \in Text
    BY <2>2, InForceType, ConstantTypes
  <2>5. had[r].requested[k] \in SUBSET Text /\ had[r].default[k] \in SUBSET Text
    BY <1>2, <2>1
  <2> QED
    BY <2>3, <2>4, <2>5
<1>4. ASSUME NEW r \in InFlight
      PROVE  /\ had'[r] \in [{"requested", "default"} -> [Keys -> SUBSET Text]]
             /\ \A k \in Keys : had'[r].requested[k] = Requested(r, k)
             /\ \A k \in Keys : had'[r].default[k] = InDefault(r, k)
  <2> DEFINE q == [k \in Keys |-> Requested(r, k)]
             d == [k \in Keys |-> InDefault(r, k)]
  <2>1. r \in Requests
    BY DEF InFlight
  <2>2. had'[r] = [requested |-> q, default |-> d]
    BY <1>4, <2>1 DEF Noted, Texts
  <2>3. q \in [Keys -> SUBSET Text] /\ d \in [Keys -> SUBSET Text]
    BY <1>3
  <2>4. \A k \in Keys : q[k] = Requested(r, k) /\ d[k] = InDefault(r, k)
    OBVIOUS
  <2> HIDE DEF q, d
  <2>5. had'[r].requested = q /\ had'[r].default = d
    BY <2>2
  <2>6. had'[r] \in [{"requested", "default"} -> [Keys -> SUBSET Text]]
    BY <2>2, <2>3
  <2> QED
    BY <2>4, <2>5, <2>6
<1>5. ASSUME NEW r \in Requests
      PROVE  had'[r] \in [{"requested", "default"} -> [Keys -> SUBSET Text]]
  BY <1>1, <1>2, <1>4
<1>6. had' \in [Requests -> [{"requested", "default"} -> [Keys -> SUBSET Text]]]
  BY <1>5 DEF Noted
<1>7. ASSUME NEW r \in Requests
      PROVE  AskInv(r)' /\ NotedInv(r)' /\ FirstInv(r)' /\ AnswerInv(r)'
  <2>1. AskInv(r)'
    BY DEF LocalizationInv, AskInv, IsBundle
  <2>2. CASE r \in InFlight
    <3>1. NotedInv(r)'
      <4>1. ask[r].locale \in Locales /\ Default \in Locales
        BY <2>2, AskTypes, ConstantTypes DEF InFlight
      <4> QED
        BY <1>4, <2>2, <4>1 DEF NotedInv, Now
    <3>2. \A k \in Keys : had[r].requested[k] \subseteq had'[r].requested[k]
      BY <1>4, <2>2
    <3>3. FirstInv(r)'
      <4>1. stage[r] # "idle" => ask[r].keys \subseteq Keys
        BY AskTypes
      <4> QED
        BY <3>2, <4>1 DEF LocalizationInv, FirstInv, IsBundle, Missed
    <3>4. AnswerInv(r)'
      BY <2>2 DEF InFlight, AnswerInv
    <3> QED
      BY <2>1, <3>1, <3>3, <3>4
  <2>3. CASE r \notin InFlight
    <3>1. NotedInv(r)' /\ FirstInv(r)'
      BY <2>3 DEF InFlight, NotedInv, FirstInv
    <3>2. AnswerInv(r)'
      BY <1>1, <2>3 DEF LocalizationInv, AnswerInv, HasCause, Missed, IsBundle
    <3> QED
      BY <2>1, <3>1, <3>2
  <2> QED
    BY <2>2, <2>3
<1> QED
  BY <1>6, <1>7 DEF RequestsInv

LEMMA OnTextType ==
  ASSUME LocalizationInv, NEW e \in Editors, OnText(e)
  PROVE  page[e].slot \in Slots /\ page[e].row \in Row /\ page[e].row.revision \in Nat
BY DEF LocalizationInv, LocalizationTypeOK, OnText, NoPage, Row

LEMMA SaveTextKeeps ==
  ASSUME LocalizationInv, NEW e \in Editors, SaveText(e)
  PROVE  LocalizationInv'
<1> DEFINE slot == page[e].slot
           new == [revision |-> NextRevision(overrides[slot]), text |-> FirstEdit + edits]
<1>1. /\ overrides' = [overrides EXCEPT ![slot] = new]
      /\ edits' = edits + 1 /\ edits < MaxEdits
      /\ Close(e) /\ had' = Noted(overrides')
      /\ UNCHANGED <<languages, stage, ask, first, failed, answer>>
  BY DEF SaveText
<1>2. slot \in Slots
  BY OnTextType DEF SaveText
<1>3. new \in Row /\ new.revision = overrides[slot].revision + 1
  <2>1. overrides[slot].revision + 1 \in Nat
    BY <1>2 DEF LocalizationInv, LocalizationTypeOK, Row
  <2>2. edits \in 0..(MaxEdits - 1)
    BY <1>1, LocalizationAssumption
    DEF LocalizationInv, LocalizationTypeOK, LocalizationAssumption
  <2> QED
    BY <2>1, <2>2, ConstantTypes DEF Row, NextRevision
<1> HIDE DEF slot, new
<1>4. /\ overrides' \in [Slots -> Row]
      /\ \A s \in Slots : overrides'[s] = IF s = slot THEN new ELSE overrides[s]
  BY <1>1, <1>3 DEF LocalizationInv, LocalizationTypeOK
<1>5. edits' \in 0..MaxEdits
  BY <1>1, LocalizationAssumption
  DEF LocalizationInv, LocalizationTypeOK, LocalizationAssumption
<1>6. /\ page' \in [Editors -> [on : {"text"}, slot : Slots, row : Row]
                          \cup [on : {"language"}, locale : Locales, row : LanguageRow]
                          \cup {NoPage}]
      /\ replaced' \subseteq Editors
      /\ page'[e] = NoPage /\ \A f \in Editors \ {e} : page'[f] = page[f]
      /\ replaced' = replaced \ {e}
  BY <1>1 DEF Close, LocalizationInv, LocalizationTypeOK
<1>7. ASSUME NEW f \in Editors
      PROVE  PageInv(f)'
  <2>1. CASE f = e
    BY <1>6, <2>1 DEF PageInv, OnText, NoPage
  <2>2. CASE f # e
    <3> SUFFICES ASSUME OnText(f), f \notin replaced
                 PROVE  \/ overrides'[page[f].slot] = page[f].row
                        \/ overrides'[page[f].slot].revision > page[f].row.revision
      BY <1>6, <2>2 DEF PageInv, OnText
    <3>1. /\ page[f].slot \in Slots /\ page[f].row.revision \in Nat
          /\ overrides[page[f].slot].revision \in Nat
      BY OnTextType DEF LocalizationInv, LocalizationTypeOK, Row
    <3>2. \/ overrides[page[f].slot] = page[f].row
          \/ overrides[page[f].slot].revision > page[f].row.revision
      BY DEF LocalizationInv, PageInv
    <3> QED
      BY <1>3, <1>4, <3>1, <3>2
  <2> QED
    BY <2>1, <2>2
<1>8. LocalizationTypeOK'
  BY <1>1, <1>4, <1>5, <1>6, NotedKeeps DEF LocalizationInv, LocalizationTypeOK
<1> QED
  BY <1>1, <1>4, <1>7, <1>8, NotedKeeps DEF LocalizationInv, RequestsInv

LEMMA DeleteTextKeeps ==
  ASSUME LocalizationInv, NEW e \in Editors, DeleteText(e)
  PROVE  LocalizationInv'
<1> DEFINE slot == page[e].slot
<1>1. /\ overrides' = [overrides EXCEPT ![slot] = NoRow]
      /\ had' = Noted(overrides')
      /\ page' = [page EXCEPT ![e] = NoPage]
      /\ replaced' = (replaced \cup {f \in Editors : OnText(f) /\ page[f].slot = slot}) \ {e}
      /\ UNCHANGED <<languages, edits, stage, ask, first, failed, answer>>
  BY DEF DeleteText
<1> HIDE DEF slot
<1>2. /\ overrides' \in [Slots -> Row]
      /\ \A s \in Slots \ {slot} : overrides'[s] = overrides[s]
  BY <1>1, ConstantTypes DEF LocalizationInv, LocalizationTypeOK
<1>3. /\ page' \in [Editors -> [on : {"text"}, slot : Slots, row : Row]
                          \cup [on : {"language"}, locale : Locales, row : LanguageRow]
                          \cup {NoPage}]
      /\ replaced' \subseteq Editors
      /\ page'[e] = NoPage /\ \A f \in Editors \ {e} : page'[f] = page[f]
  BY <1>1 DEF LocalizationInv, LocalizationTypeOK
<1>4. ASSUME NEW f \in Editors
      PROVE  PageInv(f)'
  <2>1. CASE f = e
    BY <1>3, <2>1 DEF PageInv, OnText, NoPage
  <2>2. CASE f # e
    <3> SUFFICES ASSUME OnText(f), f \notin replaced'
                 PROVE  \/ overrides'[page[f].slot] = page[f].row
                        \/ overrides'[page[f].slot].revision > page[f].row.revision
      BY <1>3, <2>2 DEF PageInv, OnText
    <3>1. f \notin replaced /\ page[f].slot # slot
      BY <1>1, <2>2
    <3>2. page[f].slot \in Slots
      BY OnTextType
    <3> QED
      BY <1>2, <3>1, <3>2 DEF LocalizationInv, PageInv
  <2> QED
    BY <2>1, <2>2
<1>5. LocalizationTypeOK'
  BY <1>1, <1>2, <1>3, NotedKeeps DEF LocalizationInv, LocalizationTypeOK
<1> QED
  BY <1>1, <1>2, <1>4, <1>5, NotedKeeps DEF LocalizationInv, RequestsInv

-----------------------------------------------------------------------------
(* Requests.                                                               *)

RequestStates == {"idle", "requested", "default", "answered"}
Reads == {"requested", "default"}
Asks == [kind : {"bundle", "message"}, locale : Locales, scope : Scopes, keys : SUBSET Keys]
HadTexts == [{"requested", "default"} -> [Keys -> SUBSET Text]]
Answers == [locale : Locales, texts : [Keys -> Text]]

(* A step of one request leaves what the others know.                      *)
LEMMA RequestKeeps ==
  ASSUME LocalizationInv, NEW r \in Requests, UNCHANGED <<store, editing>>,
         stage' \in [Requests -> RequestStates], ask' \in [Requests -> Asks \cup {NoAsk}],
         first' \in [Requests -> [Keys -> Text]], failed' \in [Requests -> SUBSET Reads],
         had' \in [Requests -> HadTexts], answer' \in [Requests -> Answers],
         \A s \in Requests \ {r} :
           /\ stage'[s] = stage[s] /\ ask'[s] = ask[s] /\ first'[s] = first[s]
           /\ failed'[s] = failed[s] /\ had'[s] = had[s] /\ answer'[s] = answer[s],
         AskInv(r)', NotedInv(r)', FirstInv(r)', AnswerInv(r)'
  PROVE  LocalizationInv'
<1>1. UNCHANGED <<overrides, languages, edits, page, replaced>>
  BY DEF store, editing
<1>2. LocalizationTypeOK'
  BY <1>1 DEF LocalizationInv, LocalizationTypeOK, RequestStates, Reads, Asks, HadTexts, Answers
<1>3. ASSUME NEW s \in Requests \ {r}
      PROVE  AskInv(s)' /\ NotedInv(s)' /\ FirstInv(s)' /\ AnswerInv(s)'
  <2>1. /\ stage'[s] = stage[s] /\ ask'[s] = ask[s] /\ first'[s] = first[s]
        /\ failed'[s] = failed[s] /\ had'[s] = had[s] /\ answer'[s] = answer[s]
    OBVIOUS
  <2>2. AskInv(s) /\ NotedInv(s) /\ FirstInv(s) /\ AnswerInv(s)
    BY DEF LocalizationInv
  <2>3. AskInv(s)'
    BY <2>1, <2>2 DEF AskInv, IsBundle
  <2>4. NotedInv(s)'
    BY <1>1, <2>1, <2>2 DEF NotedInv, Now
  <2>5. FirstInv(s)'
    BY <2>1, <2>2 DEF FirstInv, Missed, IsBundle
  <2>6. HasCause(s)' <=> HasCause(s)
    BY <2>1 DEF HasCause, Missed, IsBundle, FallbackMessage
  <2>7. AnswerInv(s)'
    BY <2>1, <2>2, <2>6 DEF AnswerInv
  <2> QED
    BY <2>3, <2>4, <2>5, <2>7
<1>4. \A e \in Editors : PageInv(e)'
  BY <1>1 DEF LocalizationInv, PageInv, OnText
<1> QED
  BY <1>2, <1>3, <1>4 DEF LocalizationInv

(* A request begins with the texts there are.                              *)
LEMMA BeginKeeps ==
  ASSUME LocalizationInv, NEW r \in Requests, UNCHANGED <<store, editing, answer>>,
         NEW what \in Asks, Begin(r, what),
         what.kind = "bundle" => what.keys = Keys,
         what.kind = "message" => \E k \in Keys : what.keys = {k},
         first' \in [Requests -> [Keys -> Text]], failed' \in [Requests -> SUBSET Reads],
         \A s \in Requests \ {r} : first'[s] = first[s] /\ failed'[s] = failed[s]
  PROVE  LocalizationInv'
<1> DEFINE requested == [k \in Keys |-> {InForce(overrides, what.locale, what.scope, k)}]
           default == [k \in Keys |-> {InForce(overrides, Default, what.scope, k)}]
           noted == [requested |-> requested, default |-> default]
<1>1. /\ stage' = [stage EXCEPT ![r] = "requested"]
      /\ ask' = [ask EXCEPT ![r] = what]
      /\ had' = [had EXCEPT ![r] = noted]
  BY DEF Begin
<1>2. /\ requested \in [Keys -> SUBSET Text] /\ default \in [Keys -> SUBSET Text]
      /\ \A k \in Keys :
           /\ InForce(overrides, what.locale, what.scope, k) \in requested[k]
           /\ InForce(overrides, Default, what.scope, k) \in default[k]
  <2>1. what.locale \in Locales /\ what.scope \in Scopes /\ Default \in Locales
    BY ConstantTypes DEF Asks
  <2>2. \A k \in Keys : /\ InForce(overrides, what.locale, what.scope, k) \in Text
                        /\ InForce(overrides, Default, what.scope, k) \in Text
    BY <2>1, InForceType DEF LocalizationInv, LocalizationTypeOK
  <2> QED
    BY <2>2
<1> HIDE DEF requested, default
<1>3. noted \in HadTexts /\ noted.requested = requested /\ noted.default = default
  BY <1>2 DEF HadTexts
<1> HIDE DEF noted
<1>4. /\ stage' \in [Requests -> RequestStates] /\ ask' \in [Requests -> Asks \cup {NoAsk}]
      /\ had' \in [Requests -> HadTexts] /\ answer' \in [Requests -> Answers]
      /\ stage'[r] = "requested" /\ ask'[r] = what /\ had'[r] = noted
      /\ \A s \in Requests \ {r} :
           stage'[s] = stage[s] /\ ask'[s] = ask[s] /\ had'[s] = had[s] /\ answer'[s] = answer[s]
  BY <1>1, <1>3 DEF LocalizationInv, LocalizationTypeOK, RequestStates, Asks, HadTexts, Answers
<1>5. AskInv(r)'
  <2>1. what # NoAsk /\ what.kind \in {"bundle", "message"}
    BY DEF Asks, NoAsk
  <2> QED
    BY <1>4, <2>1 DEF AskInv, IsBundle
<1>6. NotedInv(r)'
  BY <1>2, <1>3, <1>4 DEF NotedInv, Now, store
<1>7. FirstInv(r)' /\ AnswerInv(r)'
  BY <1>4 DEF FirstInv, AnswerInv
<1> QED
  BY <1>4, <1>5, <1>6, <1>7, RequestKeeps

LEMMA AskKeeps ==
  ASSUME LocalizationInv, NEW r \in Requests,
         \/ \E l \in Locales, s \in Scopes : AskBundle(r, l, s)
         \/ \E l \in Locales, k \in Keys : AskMessage(r, l, k)
  PROVE  LocalizationInv'
<1>1. UNCHANGED <<store, editing, first, failed, answer>>
  BY DEF AskBundle, AskMessage
<1>2. first' \in [Requests -> [Keys -> Text]] /\ failed' \in [Requests -> SUBSET Reads]
  BY <1>1 DEF LocalizationInv, LocalizationTypeOK, Reads
<1>3. ASSUME NEW l \in Locales, NEW s \in Scopes, AskBundle(r, l, s)
      PROVE  LocalizationInv'
  <2> DEFINE what == [kind |-> "bundle", locale |-> l, scope |-> s, keys |-> Keys]
  <2>1. what \in Asks /\ what.kind = "bundle" /\ what.keys = Keys /\ Begin(r, what)
    BY <1>3 DEF Asks, AskBundle
  <2> HIDE DEF what
  <2> QED
    BY <1>1, <1>2, <2>1, BeginKeeps
<1>4. ASSUME NEW l \in Locales, NEW k \in Keys, AskMessage(r, l, k)
      PROVE  LocalizationInv'
  <2> DEFINE what == [kind |-> "message", locale |-> l, scope |-> Shared, keys |-> {k}]
  <2>1. what \in Asks /\ what.kind = "message" /\ what.keys = {k} /\ Begin(r, what)
    BY <1>4, ConstantTypes DEF Asks, AskMessage
  <2> HIDE DEF what
  <2> QED
    BY <1>1, <1>2, <2>1, BeginKeeps
<1> QED
  BY <1>3, <1>4

(* What a read finds.                                                      *)
LEMMA FoundTexts ==
  ASSUME LocalizationInv, NEW r \in Requests, stage[r] # "idle", NEW l \in Locales
  PROVE  /\ Found(r, l) \in [Keys -> Text]
         /\ \A k \in ask[r].keys : Found(r, l)[k] = Now(r, l, k)
         /\ Found(r, l) # NoTexts => \E k \in ask[r].keys : Now(r, l, k) # NoText
         /\ Found(r, l) = NoTexts => \A k \in ask[r].keys : Now(r, l, k) = NoText
<1>1. ask[r].scope \in Scopes /\ ask[r].keys \subseteq Keys
  BY AskTypes
<1>2. \A k \in Keys : Now(r, l, k) \in Text
  BY <1>1, InForceType DEF Now, LocalizationInv, LocalizationTypeOK
<1>3. Found(r, l) = [k \in Keys |-> IF k \in ask[r].keys THEN Now(r, l, k) ELSE NoText]
  BY Prevails DEF Found, Translations, Now
<1> QED
  BY <1>1, <1>2, <1>3, ConstantTypes DEF NoTexts

(* A request is answered.                                                  *)
LEMMA RespondKeeps ==
  ASSUME LocalizationInv, NEW r \in Requests, stage[r] # "idle",
         UNCHANGED <<store, editing, ask, had>>,
         NEW l \in Locales, NEW texts \in [Keys -> Text], Respond(r, l, texts),
         failed' \in [Requests -> SUBSET Reads],
         \A s \in Requests \ {r} : failed'[s] = failed[s],
         \A k \in ask[r].keys :
           \/ texts[k] # NoText /\ texts[k] \in had[r].requested[k]
           \/ /\ Missed(r, k, "requested")' /\ texts[k] \in had[r].default[k]
              /\ texts[k] # NoText \/ IsBundle(r)
           \/ /\ ~IsBundle(r) /\ texts[k] = FallbackMessage
              /\ Missed(r, k, "requested")'
              /\ ask[r].locale # Default => Missed(r, k, "default")',
         l # Default => \E k \in ask[r].keys : texts[k] \in had[r].requested[k] \ {NoText}
  PROVE  LocalizationInv'
<1> DEFINE new == [locale |-> l, texts |-> texts]
<1>1. new \in Answers /\ new.locale = l /\ new.texts = texts
  BY DEF Answers
<1>2. /\ stage' = [stage EXCEPT ![r] = "answered"] /\ first' = [first EXCEPT ![r] = NoTexts]
      /\ answer' = [answer EXCEPT ![r] = new]
  BY DEF Respond
<1> HIDE DEF new
<1>3. /\ stage' \in [Requests -> RequestStates] /\ first' \in [Requests -> [Keys -> Text]]
      /\ answer' \in [Requests -> Answers]
      /\ stage'[r] = "answered" /\ answer'[r] = new
      /\ \A s \in Requests \ {r} :
           stage'[s] = stage[s] /\ first'[s] = first[s] /\ answer'[s] = answer[s]
  BY <1>1, <1>2, ConstantTypes DEF LocalizationInv, LocalizationTypeOK, RequestStates, Answers
<1>4. ask' \in [Requests -> Asks \cup {NoAsk}] /\ had' \in [Requests -> HadTexts]
  BY DEF LocalizationInv, LocalizationTypeOK, Asks, HadTexts
<1>5. AskInv(r)' /\ NotedInv(r)' /\ FirstInv(r)'
  BY <1>3 DEF LocalizationInv, AskInv, NotedInv, FirstInv, IsBundle
<1>6. AnswerInv(r)'
  BY <1>1, <1>3 DEF AnswerInv, HasCause, IsBundle, FallbackMessage
<1> QED
  BY <1>3, <1>4, <1>5, <1>6, RequestKeeps

LEMMA ReadRequestedKeeps ==
  ASSUME LocalizationInv, NEW r \in Requests, ReadRequested(r)
  PROVE  LocalizationInv'
<1> DEFINE l == ask[r].locale
           texts == Found(r, l)
           complete == ~IsBundle(r) /\ texts # NoTexts
<1>1. /\ stage[r] = "requested" /\ UNCHANGED <<store, editing, ask, failed, had>>
      /\ failed' \in [Requests -> SUBSET Reads]
  BY DEF ReadRequested, LocalizationInv, LocalizationTypeOK, Reads
<1>2. /\ l \in Locales /\ ask[r].keys \subseteq Keys
      /\ ~IsBundle(r) => \E k \in Keys : ask[r].keys = {k}
  BY <1>1, AskTypes DEF LocalizationInv, AskInv
<1>3. /\ texts \in [Keys -> Text]
      /\ \A k \in ask[r].keys : texts[k] = Now(r, l, k)
      /\ texts # NoTexts => \E k \in ask[r].keys : Now(r, l, k) # NoText
      /\ texts = NoTexts => \A k \in ask[r].keys : Now(r, l, k) = NoText
  BY <1>1, <1>2, FoundTexts
<1>4. \A k \in ask[r].keys : /\ Now(r, l, k) \in had[r].requested[k]
                             /\ Now(r, Default, k) \in had[r].default[k]
  BY <1>1, <1>2 DEF LocalizationInv, NotedInv
<1>5. CASE complete /\ Respond(r, l, texts)
  <2>1. \A k \in ask[r].keys : texts[k] # NoText /\ texts[k] \in had[r].requested[k]
    BY <1>2, <1>3, <1>4, <1>5
  <2>2. ask[r].keys # {}
    BY <1>1, AskTypes
  <2> HIDE DEF l, texts
  <2> QED
    BY <1>1, <1>2, <1>3, <1>5, <2>1, <2>2, RespondKeeps
<1>6. CASE IsBundle(r) /\ l = Default /\ Respond(r, l, texts)
  <2>1. \A k \in ask[r].keys :
          texts[k] \in had[r].requested[k] /\ texts[k] \in had[r].default[k]
    BY <1>3, <1>4, <1>6
  <2> HIDE DEF l, texts
  <2>2. \A k \in ask[r].keys : texts[k] = NoText => Missed(r, k, "requested")'
    BY <1>1, <2>1 DEF Missed
  <2> QED
    BY <1>1, <1>2, <1>3, <1>6, <2>1, <2>2, RespondKeeps
<1>7. CASE /\ ~complete /\ l # Default
           /\ first' = [first EXCEPT ![r] = texts]
           /\ stage' = [stage EXCEPT ![r] = "default"]
           /\ UNCHANGED answer
  <2> HIDE DEF texts
  <2>1. /\ stage' \in [Requests -> RequestStates] /\ first' \in [Requests -> [Keys -> Text]]
        /\ stage'[r] = "default" /\ first'[r] = texts
        /\ \A s \in Requests \ {r} : stage'[s] = stage[s] /\ first'[s] = first[s]
    BY <1>3, <1>7 DEF LocalizationInv, LocalizationTypeOK, RequestStates
  <2>2. /\ ask' \in [Requests -> Asks \cup {NoAsk}] /\ had' \in [Requests -> HadTexts]
        /\ answer' \in [Requests -> Answers]
    BY <1>1, <1>7 DEF LocalizationInv, LocalizationTypeOK, Asks, HadTexts, Answers
  <2>3. AskInv(r)' /\ AnswerInv(r)'
    BY <1>1, <2>1 DEF LocalizationInv, AskInv, AnswerInv, IsBundle
  <2>4. NotedInv(r)'
    BY <1>1, <2>1 DEF LocalizationInv, NotedInv, Now, store
  <2>5. FirstInv(r)'
    <3>1. IsBundle(r) => ask[r].keys = Keys
      BY <1>1 DEF LocalizationInv, AskInv
    <3>2. ~IsBundle(r) => \A k \in ask[r].keys : NoText \in had[r].requested[k]
      BY <1>3, <1>4, <1>7
    <3> HIDE DEF complete
    <3> QED
      BY <1>1, <1>3, <1>4, <1>7, <2>1, <3>1, <3>2 DEF FirstInv, Missed, IsBundle
  <2> QED
    BY <1>1, <1>7, <2>1, <2>2, <2>3, <2>4, <2>5, RequestKeeps
<1>8. CASE /\ ~complete /\ ~IsBundle(r) /\ l = Default
           /\ Respond(r, Default, LastResort(r))
  <2>1. \A k \in ask[r].keys :
          Missed(r, k, "requested")' /\ LastResort(r)[k] = FallbackMessage
    BY <1>1, <1>2, <1>3, <1>4, <1>8 DEF LastResort, Missed
  <2>2. LastResort(r) \in [Keys -> Text]
    BY ConstantTypes DEF LastResort
  <2> QED
    BY <1>1, <1>8, <2>1, <2>2, ConstantTypes, RespondKeeps
<1> QED
  BY <1>5, <1>6, <1>7, <1>8 DEF ReadRequested

LEMMA ReadDefaultKeeps ==
  ASSUME LocalizationInv, NEW r \in Requests, ReadDefault(r)
  PROVE  LocalizationInv'
<1> DEFINE defaults == Found(r, Default)
<1>1. /\ stage[r] = "default" /\ UNCHANGED <<store, editing, ask, failed, had>>
      /\ failed' \in [Requests -> SUBSET Reads] /\ first[r] \in [Keys -> Text]
  BY DEF ReadDefault, LocalizationInv, LocalizationTypeOK, Reads
<1>2. /\ ask[r].locale \in Locales /\ ask[r].keys \subseteq Keys /\ Default \in Locales
      /\ ~IsBundle(r) => \E k \in Keys : ask[r].keys = {k}
      /\ IsBundle(r) => ask[r].keys = Keys
  BY <1>1, AskTypes, ConstantTypes DEF LocalizationInv, AskInv
<1>3. /\ defaults \in [Keys -> Text]
      /\ \A k \in ask[r].keys : defaults[k] = Now(r, Default, k)
      /\ defaults # NoTexts => \E k \in ask[r].keys : Now(r, Default, k) # NoText
      /\ defaults = NoTexts => \A k \in ask[r].keys : Now(r, Default, k) = NoText
  BY <1>1, <1>2, FoundTexts
<1>4. \A k \in ask[r].keys : Now(r, Default, k) \in had[r].default[k]
  BY <1>1, <1>2 DEF LocalizationInv, NotedInv
<1>5. /\ IsBundle(r) => \A k \in Keys : first[r][k] \in had[r].requested[k]
      /\ ~IsBundle(r) => \A k \in ask[r].keys : Missed(r, k, "requested")'
  BY <1>1 DEF LocalizationInv, FirstInv, Missed
<1> HIDE DEF defaults
<1>6. ASSUME IsBundle(r),
             Respond(r, IF first[r] = NoTexts THEN Default ELSE ask[r].locale,
                     Merged(first[r], defaults))
      PROVE  LocalizationInv'
  <2> DEFINE texts == Merged(first[r], defaults)
             l == IF first[r] = NoTexts THEN Default ELSE ask[r].locale
  <2>1. /\ texts \in [Keys -> Text]
        /\ \A k \in Keys : texts[k] = IF first[r][k] # NoText THEN first[r][k] ELSE defaults[k]
    BY <1>1, <1>3 DEF Merged, Or
  <2>2. l \in Locales
    BY <1>2
  <2> HIDE DEF texts
  <2>3. l # Default =>
          \E k \in ask[r].keys : texts[k] \in had[r].requested[k] \ {NoText}
    <3>1. first[r] # NoTexts => \E k \in Keys : first[r][k] # NoText
      BY <1>1 DEF NoTexts
    <3> QED
      BY <1>2, <1>5, <1>6, <2>1, <3>1
  <2>4. \A k \in ask[r].keys :
          \/ texts[k] # NoText /\ texts[k] \in had[r].requested[k]
          \/ Missed(r, k, "requested")' /\ texts[k] \in had[r].default[k]
    BY <1>1, <1>2, <1>3, <1>4, <1>5, <1>6, <2>1 DEF Missed
  <2>5. Respond(r, l, texts)
    BY <1>6 DEF texts
  <2> HIDE DEF l
  <2> QED
    BY <1>1, <1>6, <2>1, <2>2, <2>3, <2>4, <2>5, RespondKeeps
<1>7. ASSUME ~IsBundle(r), defaults # NoTexts, Respond(r, Default, defaults)
      PROVE  LocalizationInv'
  <2>1. \A k \in ask[r].keys :
          /\ Missed(r, k, "requested")'
          /\ defaults[k] # NoText /\ defaults[k] \in had[r].default[k]
    BY <1>1, <1>2, <1>3, <1>4, <1>5, <1>7
  <2> QED
    BY <1>1, <1>2, <1>3, <1>7, <2>1, RespondKeeps
<1>8. ASSUME ~IsBundle(r), defaults = NoTexts, Respond(r, Default, LastResort(r))
      PROVE  LocalizationInv'
  <2>1. \A k \in ask[r].keys :
          /\ Missed(r, k, "requested")' /\ Missed(r, k, "default")'
          /\ LastResort(r)[k] = FallbackMessage
    BY <1>1, <1>2, <1>3, <1>4, <1>5, <1>8 DEF LastResort, Missed
  <2>2. LastResort(r) \in [Keys -> Text]
    BY ConstantTypes DEF LastResort
  <2> QED
    BY <1>1, <1>2, <1>8, <2>1, <2>2, RespondKeeps
<1> QED
  BY <1>6, <1>7, <1>8 DEF ReadDefault, defaults

(* A failed read leads to the error's message, to the default locale or to *)
(* the last resort.                                                        *)
LEMMA ReadFailsKeeps ==
  ASSUME LocalizationInv, NEW r \in Requests, ReadFails(r)
  PROVE  LocalizationInv'
<1>1. /\ stage[r] \in {"requested", "default"} /\ stage[r] # "idle"
      /\ UNCHANGED <<store, editing>>
      /\ failed' = [failed EXCEPT ![r] = IF IsBundle(r) THEN {} ELSE @ \cup {stage[r]}]
  BY DEF ReadFails
<1>2. /\ failed' \in [Requests -> SUBSET Reads]
      /\ ~IsBundle(r) => failed'[r] = failed[r] \cup {stage[r]}
      /\ \A s \in Requests \ {r} : failed'[s] = failed[s]
  BY <1>1 DEF LocalizationInv, LocalizationTypeOK, Reads
<1>3. ask[r].locale \in Locales /\ ask[r].keys \subseteq Keys
  BY <1>1, AskTypes
<1>4. ASSUME IsBundle(r),
             Begin(r, [kind |-> "message", locale |-> ask[r].locale,
                       scope |-> Shared, keys |-> {Internal}]),
             first' = [first EXCEPT ![r] = NoTexts], UNCHANGED answer
      PROVE  LocalizationInv'
  <2> DEFINE what == [kind |-> "message", locale |-> ask[r].locale,
                      scope |-> Shared, keys |-> {Internal}]
  <2>1. /\ what \in Asks /\ what.kind = "message" /\ what.keys = {Internal}
        /\ Begin(r, what) /\ Internal \in Keys
    BY <1>3, <1>4, ConstantTypes DEF Asks
  <2> HIDE DEF what
  <2>2. /\ first' \in [Requests -> [Keys -> Text]]
        /\ \A s \in Requests \ {r} : first'[s] = first[s]
    BY <1>4, ConstantTypes DEF LocalizationInv, LocalizationTypeOK
  <2> QED
    BY <1>1, <1>2, <1>4, <2>1, <2>2, BeginKeeps
<1>5. ASSUME ~IsBundle(r), stage[r] = "requested", ask[r].locale # Default,
             stage' = [stage EXCEPT ![r] = "default"], UNCHANGED <<ask, first, had, answer>>
      PROVE  LocalizationInv'
  <2>1. /\ stage' \in [Requests -> RequestStates] /\ stage'[r] = "default"
        /\ \A s \in Requests \ {r} : stage'[s] = stage[s]
    BY <1>5 DEF LocalizationInv, LocalizationTypeOK, RequestStates
  <2>2. /\ ask' \in [Requests -> Asks \cup {NoAsk}] /\ had' \in [Requests -> HadTexts]
        /\ first' \in [Requests -> [Keys -> Text]] /\ answer' \in [Requests -> Answers]
    BY <1>5 DEF LocalizationInv, LocalizationTypeOK, Asks, HadTexts, Answers
  <2>3. AskInv(r)' /\ AnswerInv(r)'
    BY <1>1, <1>5, <2>1 DEF LocalizationInv, AskInv, AnswerInv, IsBundle
  <2>4. NotedInv(r)'
    BY <1>1, <1>5, <2>1 DEF LocalizationInv, NotedInv, Now, store
  <2>5. FirstInv(r)'
    BY <1>2, <1>5 DEF FirstInv, Missed, IsBundle
  <2> QED
    BY <1>1, <1>2, <1>5, <2>1, <2>2, <2>3, <2>4, <2>5, RequestKeeps
<1>6. ASSUME ~IsBundle(r), stage[r] = "default" \/ ask[r].locale = Default,
             Respond(r, Default, LastResort(r)), UNCHANGED <<ask, had>>
      PROVE  LocalizationInv'
  <2>1. \A k \in ask[r].keys : LastResort(r)[k] = FallbackMessage
    BY <1>3 DEF LastResort
  <2>2. LastResort(r) \in [Keys -> Text]
    BY ConstantTypes DEF LastResort
  <2>3. \A k \in ask[r].keys : Missed(r, k, "requested")'
    <3>1. CASE stage[r] = "requested"
      BY <1>2, <1>6, <3>1 DEF Missed
    <3>2. CASE stage[r] = "default"
      BY <1>2, <1>6, <3>2 DEF LocalizationInv, FirstInv, Missed
    <3> QED
      BY <1>1, <3>1, <3>2
  <2>4. \A k \in ask[r].keys : ask[r].locale # Default => Missed(r, k, "default")'
    BY <1>2, <1>6 DEF Missed
  <2> QED
    BY <1>1, <1>2, <1>6, <2>1, <2>2, <2>3, <2>4, ConstantTypes, RespondKeeps
<1> QED
  BY <1>4, <1>5, <1>6 DEF ReadFails

LEMMA EndKeeps ==
  ASSUME LocalizationInv, NEW r \in Requests, End(r)
  PROVE  LocalizationInv'
<1>1. /\ UNCHANGED <<store, editing, first>>
      /\ stage' = [stage EXCEPT ![r] = "idle"] /\ ask' = [ask EXCEPT ![r] = NoAsk]
      /\ failed' = [failed EXCEPT ![r] = {}] /\ had' = [had EXCEPT ![r] = NothingHad]
      /\ answer' = [answer EXCEPT ![r] = NoAnswer]
  BY DEF End
<1>2. NothingHad \in HadTexts /\ NoAnswer \in Answers
  BY ConstantTypes DEF NothingHad, HadTexts, NoAnswer, Answers
<1>3. /\ stage' \in [Requests -> RequestStates] /\ ask' \in [Requests -> Asks \cup {NoAsk}]
      /\ first' \in [Requests -> [Keys -> Text]] /\ failed' \in [Requests -> SUBSET Reads]
      /\ had' \in [Requests -> HadTexts] /\ answer' \in [Requests -> Answers]
  BY <1>1, <1>2
  DEF LocalizationInv, LocalizationTypeOK, RequestStates, Reads, Asks, HadTexts, Answers
<1>4. /\ stage'[r] = "idle"
      /\ \A s \in Requests \ {r} :
           /\ stage'[s] = stage[s] /\ ask'[s] = ask[s] /\ first'[s] = first[s]
           /\ failed'[s] = failed[s] /\ had'[s] = had[s] /\ answer'[s] = answer[s]
  BY <1>1 DEF LocalizationInv, LocalizationTypeOK
<1>5. AskInv(r)' /\ NotedInv(r)' /\ FirstInv(r)' /\ AnswerInv(r)'
  BY <1>4 DEF AskInv, NotedInv, FirstInv, AnswerInv
<1> QED
  BY <1>1, <1>3, <1>4, <1>5, RequestKeeps

-----------------------------------------------------------------------------
LEMMA LocalizationStarts == LocalizationInit => LocalizationInv
<1> SUFFICES ASSUME LocalizationInit
             PROVE  LocalizationInv
  OBVIOUS
<1> USE DEF LocalizationInit
<1>1. overrides \in [Slots -> Row] /\ first \in [Requests -> [Keys -> Text]]
  BY ConstantTypes
<1>2. languages \in [Locales -> LanguageRow]
  BY DEF LanguageRow
<1>3. NothingHad \in [{"requested", "default"} -> [Keys -> SUBSET Text]]
  BY DEF NothingHad
<1>4. NoAnswer \in [locale : Locales, texts : [Keys -> Text]]
  BY ConstantTypes DEF NoAnswer
<1>5. edits \in 0..MaxEdits
  BY LocalizationAssumption DEF LocalizationAssumption
<1>6. LocalizationTypeOK
  BY <1>1, <1>2, <1>3, <1>4, <1>5 DEF LocalizationTypeOK
<1>7. \A r \in Requests : AskInv(r) /\ NotedInv(r) /\ FirstInv(r) /\ AnswerInv(r)
  BY DEF AskInv, NotedInv, FirstInv, AnswerInv
<1>8. \A e \in Editors : PageInv(e)
  BY DEF PageInv, OnText, NoPage
<1> QED
  BY <1>6, <1>7, <1>8 DEF LocalizationInv

LEMMA LocalizationKeeps ==
  LocalizationInv /\ [LocalizationNext]_localizationVars => LocalizationInv'
<1> SUFFICES ASSUME LocalizationInv, [LocalizationNext]_localizationVars
             PROVE  LocalizationInv'
  OBVIOUS
<1>1. ASSUME NEW e \in Editors,
             \/ \E slot \in Edited : OpenText(e, slot)
             \/ \E l \in Locales : OpenLanguage(e, l)
             \/ SaveText(e) \/ DeleteText(e) \/ Refuse(e)
             \/ \E active \in BOOLEAN : SaveLanguage(e, active)
      PROVE  LocalizationInv'
  BY <1>1, OpenKeeps, SaveTextKeeps, DeleteTextKeeps, RefuseKeeps, SaveLanguageKeeps
<1>2. ASSUME NEW r \in Requests,
             \/ \E l \in Locales, s \in Scopes : AskBundle(r, l, s)
             \/ \E l \in Locales, k \in Keys : AskMessage(r, l, k)
             \/ ReadRequested(r) \/ ReadDefault(r) \/ ReadFails(r) \/ End(r)
      PROVE  LocalizationInv'
  BY <1>2, AskKeeps, ReadRequestedKeeps, ReadDefaultKeeps, ReadFailsKeeps, EndKeeps
<1>3. CASE UNCHANGED localizationVars
  <2>1. UNCHANGED <<overrides, languages, edits, page, replaced, request>>
    BY <1>3 DEF localizationVars, store, editing
  <2>2. LocalizationTypeOK'
    BY <2>1 DEF LocalizationInv, LocalizationTypeOK, request
  <2>3. \A e \in Editors : PageInv(e)'
    BY <2>1 DEF LocalizationInv, PageInv, OnText
  <2> QED
    BY <2>1, <2>2, <2>3, RequestsRest DEF LocalizationInv, RequestsInv
<1> QED
  BY <1>1, <1>2, <1>3 DEF LocalizationNext

(* Whatever super administrators edit between the two transactions of a    *)
(* request, in whatever order, and whichever read fails: the rows, pages,  *)
(* requests and answers keep their forms, a request knows the texts there  *)
(* are and what it found first, and an editor's page is the row or an      *)
(* older state of it.                                                      *)
THEOREM TextsInvariant == LocalizationSpec => []LocalizationInv
BY LocalizationStarts, LocalizationKeeps, PTL DEF LocalizationSpec

(* The variables keep their types.                                         *)
THEOREM TextsTyped == LocalizationSpec => []LocalizationTypeOK
<1>1. LocalizationInv => LocalizationTypeOK
  BY DEF LocalizationInv
<1> QED
  BY <1>1, TextsInvariant, PTL

(* GetTranslations, ErrorMessage and AuditDescription answer with texts    *)
(* that were in force while they were served, by the precedence of         *)
(* overrides and scopes: the requested locale's, or the default's where    *)
(* that had none or its read failed, or for a message the last resort,     *)
(* whatever was edited between the two transactions.                       *)
THEOREM TextsCaused == LocalizationSpec => []TextHasCause
<1>1. LocalizationInv => TextHasCause
  BY DEF LocalizationInv, AnswerInv, TextHasCause
<1> QED
  BY <1>1, TextsInvariant, PTL

(* UpsertTranslationOverride and DeleteTranslationOverride compare the     *)
(* revision of the editor's page with the row's: what they replace is what *)
(* the editor saw, except where the row was deleted since.                 *)
THEOREM TextsNotLost == LocalizationSpec => NoLostText
<1>1. ASSUME LocalizationInv, NEW e \in Editors, SaveText(e) \/ DeleteText(e)
      PROVE  overrides[page[e].slot] = page[e].row \/ e \in replaced
  <2>1. OnText(e) /\ overrides[page[e].slot].revision = page[e].row.revision
    BY <1>1 DEF SaveText, DeleteText, Current
  <2>2. page[e].row.revision \in Nat
    BY <1>1, <2>1, OnTextType
  <2> QED
    BY <1>1, <2>1, <2>2 DEF LocalizationInv, PageInv
<1>2. LocalizationInv =>
        [\A e \in Editors : (SaveText(e) \/ DeleteText(e)) =>
           \/ overrides[page[e].slot] = page[e].row
           \/ e \in replaced]_localizationVars
  BY <1>1
<1> QED
  BY <1>2, TextsInvariant, PTL DEF NoLostText
=============================================================================
