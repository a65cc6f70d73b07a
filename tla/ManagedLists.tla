---------------------------- MODULE ManagedLists ----------------------------
(***************************************************************************)
(* Keyset pagination: one client goes through one managed list, page by    *)
(* page, while others change its rows.  Every page is a query of its own;  *)
(* all that ties it to the one before is the cursor, which names the last  *)
(* row by its sort value and ID and carries a fingerprint of the query.    *)
(*                                                                         *)
(* A row is its ID and its value for the sort of the query; value 0 stands *)
(* for the empty text, which sorts first.                                  *)
(***************************************************************************)
EXTENDS Naturals, FiniteSets

CONSTANTS
  Kinds,     \* lists to look at
  Ids,       \* rows, in the order of their IDs
  Values,    \* sort values that are not empty
  PageSize,  \* EffectiveLimit of the request
  MaxDay     \* bound: days that begin

ASSUME ManagedListsAssumption ==
  /\ IsFiniteSet(Ids) /\ Ids \subseteq Nat
  /\ Values \subseteq Nat \ {0}
  /\ PageSize \in Nat \ {0}
  /\ MaxDay \in Nat

VARIABLES
  value,    \* sort value of each row
  visible,  \* rows that exist and match the filter
  today,    \* days begun since the listing did
  state,    \* of the listing
  query,    \* what the client lists
  cursor,   \* NextCursor of the last page
  seen,     \* how often each row was listed
  touched   \* history: rows that came, went or moved meanwhile

rows == <<value, visible, touched>>
vars == <<value, visible, today, state, query, cursor, seen, touched>>

-----------------------------------------------------------------------------
(* The lists: how they can be sorted, which sort values an update changes, *)
(* and whether their rows can be deleted.                                  *)

ListTenants == [kind |-> "tenants", sorts |-> {"name", "created_at"},
                moving |-> {"name"}, deletes |-> FALSE]
ListUsers == [kind |-> "users", sorts |-> {"email", "created_at"},
              moving |-> {}, deletes |-> FALSE]
ListMemberships == [kind |-> "memberships", sorts |-> {"email", "created_at"},
                    moving |-> {}, deletes |-> FALSE]
ListRoles == [kind |-> "roles", sorts |-> {"name", "created_at"},
              moving |-> {"name"}, deletes |-> TRUE]
ListInvitations == [kind |-> "invitations",
                    sorts |-> {"email", "created_at", "expires_at"},
                    moving |-> {"email"}, deletes |-> FALSE]
ListLanguages == [kind |-> "languages", sorts |-> {"name", "code"},
                  moving |-> {"name"}, deletes |-> FALSE]
ListTranslationOverrides == [kind |-> "translation-overrides",
                             sorts |-> {"key", "updated_at"},
                             moving |-> {"updated_at"}, deletes |-> TRUE]
ListAuditEvents == [kind |-> "audit", sorts |-> {"occurred_at"},
                    moving |-> {}, deletes |-> FALSE]

Lists == {ListTenants, ListUsers, ListMemberships, ListRoles, ListInvitations,
          ListLanguages, ListTranslationOverrides, ListAuditEvents}

(* Without a filter of the client's ("none"), the audit log has one of its *)
(* own: the last thirty days.                                              *)
Queries ==
  UNION {[kind : {l.kind}, sort : l.sorts, descending : BOOLEAN,
          filter : {"none", "given"}] : l \in {l \in Lists : l.kind \in Kinds}}

ListOf(q) == CHOOSE l \in Lists : l.kind = q.kind
Moves(q) == q.sort \in ListOf(q).moving
Shrinks(q) == q.filter = "given" \/ ListOf(q).deletes

(* Anonymized invitations have the empty text for an e-mail.               *)
HasBlanks(q) == q.kind = "invitations" /\ q.sort = "email"

-----------------------------------------------------------------------------
(* Keys and cursors                                                        *)

Key(i) == [value |-> value[i], id |-> i]

(* (sort, id) < or > (cursor_sort, cursor_id), as the direction has it.    *)
Before(q, a, b) ==
  LET Less(x, y) == x.value < y.value \/ (x.value = y.value /\ x.id < y.id)
  IN IF q.descending THEN Less(b, a) ELSE Less(a, b)

(* keysetFingerprint and the kind.  The default bounds of the audit log    *)
(* are those of today, and go into the fingerprint.                        *)
DefaultBounds(q) == q.kind = "audit" /\ q.filter = "none"
Fingerprint(q) == [query |-> q, day |-> IF DefaultBounds(q) THEN today ELSE 0]

NoCursor == [print |-> "none", key |-> [value |-> 0, id |-> 0]]

(* decodeKeysetCursor *)
Accepted(q) == cursor.print = Fingerprint(q) /\ cursor.key.value # 0

-----------------------------------------------------------------------------
TypeOK ==
  /\ value \in [Ids -> Values \cup {0}]
  /\ visible \subseteq Ids
  /\ today \in Nat
  /\ state \in {"new", "open", "complete", "refused", "mismatched"}
  /\ query \in Queries
  /\ cursor.key \in [value : Nat, id : Nat]
  /\ state = "open" => cursor.print \in [query : Queries, day : Nat]
  /\ seen \in [Ids -> Nat]
  /\ touched \subseteq Ids

Init ==
  /\ query \in Queries
  /\ value \in [Ids -> IF HasBlanks(query) THEN Values \cup {0} ELSE Values]
  /\ visible \in SUBSET Ids
  /\ today = 0
  /\ state = "new"
  /\ cursor = NoCursor
  /\ seen = [i \in Ids |-> 0]
  /\ touched = {}

-----------------------------------------------------------------------------
(* A page                                                                  *)

(* Mutant: the row the cursor names is included.                           *)
BeyondOrAt ==
  {i \in visible : \/ state = "new" \/ Key(i) = cursor.key
                   \/ Before(query, cursor.key, Key(i))}

(* Mutant: rows with the sort value of the last one are skipped.           *)
BeyondValue ==
  {i \in visible :
     \/ state = "new"
     \/ IF query.descending THEN value[i] < cursor.key.value
                            ELSE value[i] > cursor.key.value}

Beyond == {i \in visible : state = "new" \/ Before(query, cursor.key, Key(i))}

(* ORDER BY ... LIMIT: the first of the rows, as many as fit on the page.  *)
IsPage(page, all) ==
  /\ page \subseteq all
  /\ \A i \in page, j \in all \ page : Before(query, Key(i), Key(j))
  /\ IF Cardinality(all) > PageSize THEN Cardinality(page) = PageSize
                                    ELSE page = all

IsLast(i, page) ==
  i \in page /\ \A j \in page \ {i} : Before(query, Key(j), Key(i))

(* The row fetched beyond the page tells whether there is another page.    *)
ListPage ==
  \E page \in SUBSET Beyond :
    /\ IsPage(page, Beyond)
    /\ seen' = [i \in Ids |-> IF i \in page THEN seen[i] + 1 ELSE seen[i]]
    /\ IF Cardinality(Beyond) > PageSize
       THEN /\ state' = "open"
            /\ \E i \in page :
                 /\ IsLast(i, page)
                 /\ cursor' = [print |-> Fingerprint(query), key |-> Key(i)]
       ELSE state' = "complete" /\ cursor' = NoCursor

FirstPage ==
  /\ state = "new"
  /\ ListPage
  /\ UNCHANGED <<rows, today, query>>

NextPage ==
  /\ state = "open" /\ Accepted(query)
  /\ ListPage
  /\ UNCHANGED <<rows, today, query>>

(* Mutant: the error of the decoder is not mapped to ErrorValidation.      *)
RefuseCursorInternally ==
  /\ state = "open"
  /\ \E q \in Queries : ~Accepted(q)
  /\ state' = "internal"
  /\ UNCHANGED <<rows, today, query, cursor, seen>>

(* ErrorValidation: the client asks for the next page and is refused, with *)
(* the query unchanged ("refused") or with another one ("mismatched").     *)
RefuseCursor ==
  /\ state = "open"
  /\ \E q \in Queries :
       /\ ~Accepted(q)
       /\ state' = IF q = query THEN "refused" ELSE "mismatched"
  /\ UNCHANGED <<rows, today, query, cursor, seen>>

-----------------------------------------------------------------------------
(* Meanwhile                                                               *)

Listing == state \in {"new", "open"}
Touch(i) ==
  /\ touched' = touched \cup {i}
  /\ UNCHANGED <<today, state, query, cursor, seen>>

(* Inserted, or changed so that the filter matches.                        *)
Appear(i) ==
  /\ Listing /\ i \notin visible
  /\ visible' = visible \cup {i}
  /\ Touch(i) /\ UNCHANGED value

Disappear(i) ==
  /\ Listing /\ Shrinks(query) /\ i \in visible
  /\ visible' = visible \ {i}
  /\ Touch(i) /\ UNCHANGED value

(* Renamed; an override's updated_at only grows.                           *)
Move(i) ==
  /\ Listing /\ Moves(query) /\ ~HasBlanks(query)
  /\ \E v \in Values :
       /\ query.sort = "updated_at" => v >= value[i]
       /\ value' = [value EXCEPT ![i] = v]
  /\ Touch(i) /\ UNCHANGED visible

(* AnonymizeExpiredInvitations blanks the address.                         *)
Anonymize(i) ==
  /\ Listing /\ HasBlanks(query)
  /\ value' = [value EXCEPT ![i] = 0]
  /\ Touch(i) /\ UNCHANGED visible

Midnight ==
  /\ Listing /\ today < MaxDay
  /\ today' = today + 1
  /\ UNCHANGED <<rows, state, query, cursor, seen>>

Next ==
  \/ FirstPage \/ NextPage \/ RefuseCursor \/ Midnight
  \/ \E i \in Ids : Appear(i) \/ Disappear(i) \/ Move(i) \/ Anonymize(i)

Spec == Init /\ [][Next]_vars
-----------------------------------------------------------------------------
(***************************************************************************)
(* Properties                                                              *)
(***************************************************************************)

(* A row that is left alone while the client goes through the list is      *)
(* listed exactly once, whatever is inserted, deleted or moved around it,  *)
(* and with any number of equal sort values.                               *)
ListedOnce ==
  state = "complete" =>
    \A i \in Ids \ touched : seen[i] = IF i \in visible THEN 1 ELSE 0

(* Under a sort whose values never change no row is listed twice, not even *)
(* one that goes out of the filter and comes back.                         *)
NeverTwice == ~Moves(query) => \A i \in Ids : seen[i] <= 1

(* "Versioned cursors bind the normalized filters, sort field, and         *)
(* direction and are invalid when reused with a different query": a cursor *)
(* that is used with the same query is valid.                              *)
CursorContinues == state # "refused"
=============================================================================
