---------------------------- MODULE Localization ----------------------------
(***************************************************************************)
(* Languages and texts: the product catalog built into the server, the     *)
(* overrides super administrators put over it, and how a text is found.    *)
(*                                                                         *)
(* A text is looked for in the requested locale and then in the default    *)
(* one, each in a transaction of its own; overrides are edited between the *)
(* two, and either may fail.  A bundle gives up on a failure, and the      *)
(* error message it is answered with is looked for in the same way; a      *)
(* message falls back instead, to the default locale and then to a text of *)
(* the program.                                                            *)
(*                                                                         *)
(* Rows are edited with the revision of the page the editor has before     *)
(* them.  Texts are numbers: those of the product, then one per save.      *)
(***************************************************************************)
EXTENDS Integers

CONSTANTS
  Locales,      \* locales that are asked for
  Default,      \* productDefaultLocale
  Scopes,       \* application scopes
  Shared,       \* ScopeShared
  Keys,         \* keys of texts
  Internal,     \* the key error.internal
  Product,      \* productTranslationEntries: a text or NoText
  FirstEdit,    \* texts of the product are smaller
  Installed,    \* languages of the baseline migration
  Edited,       \* bound: the texts that are edited
  Editors,      \* super administrators at work
  Requests,     \* requests in flight
  MaxEdits      \* bound on the number of saves

NoText == 0
NoRow == [revision |-> 0, text |-> NoText]
Slots == Locales \X Scopes \X Keys

(* NewProductCatalog refuses a catalog without the last resort.            *)
ASSUME LocalizationAssumption ==
  /\ Default \in Installed /\ Installed \subseteq Locales
  /\ Shared \in Scopes /\ Internal \in Keys
  /\ FirstEdit \in Nat \ {0} /\ MaxEdits \in Nat
  /\ Edited \subseteq Slots
  /\ Product \in [Slots -> 0..(FirstEdit - 1)]
  /\ Product[<<Default, Shared, Internal>>] # NoText

VARIABLES
  overrides,  \* translation_overrides
  languages,  \* languages: revision (0 without a row) and is_active
  edits,      \* saves so far
  page,       \* what each editor has before them: a slot or a locale, and
              \* the row read for it, or NoPage
  replaced,   \* history: editors whose row was deleted since they read it
  stage,      \* where each request is
  ask,        \* what it is for: locale, scope and keys
  first,      \* the texts found in the requested locale
  failed,     \* history: the reads of this text that failed
  had,        \* history: the texts each key had during the request, in the
              \* requested and in the default locale
  answer      \* its answer: a locale and texts

store == <<overrides, languages, edits>>
editing == <<page, replaced>>
request == <<stage, ask, first, failed, had, answer>>
localizationVars == <<store, editing, request>>

Text == 0..(FirstEdit + MaxEdits)
Row == [revision : Nat, text : Text]
LanguageRow == [revision : Nat, active : BOOLEAN]
NoPage == [on |-> "nothing"]
NoAsk == [kind |-> "nothing"]
NoTexts == [k \in Keys |-> NoText]
NoAnswer == [locale |-> Default, texts |-> NoTexts]
NothingHad == [requested |-> [k \in Keys |-> {}], default |-> [k \in Keys |-> {}]]

LocalizationTypeOK ==
  /\ overrides \in [Slots -> Row]
  /\ languages \in [Locales -> LanguageRow]
  /\ edits \in 0..MaxEdits
  /\ page \in [Editors -> [on : {"text"}, slot : Slots, row : Row]
                          \cup [on : {"language"}, locale : Locales, row : LanguageRow]
                          \cup {NoPage}]
  /\ replaced \subseteq Editors
  /\ stage \in [Requests -> {"idle", "requested", "default", "answered"}]
  /\ ask \in [Requests -> [kind : {"bundle", "message"}, locale : Locales,
                           scope : Scopes, keys : SUBSET Keys] \cup {NoAsk}]
  /\ first \in [Requests -> [Keys -> Text]]
  /\ failed \in [Requests -> SUBSET {"requested", "default"}]
  /\ had \in [Requests -> [{"requested", "default"} -> [Keys -> SUBSET Text]]]
  /\ answer \in [Requests -> [locale : Locales, texts : [Keys -> Text]]]

LocalizationInit ==
  /\ overrides = [slot \in Slots |-> NoRow]
  /\ languages = [l \in Locales |->
       [revision |-> IF l \in Installed THEN 1 ELSE 0, active |-> l \in Installed]]
  /\ edits = 0
  /\ page = [e \in Editors |-> NoPage]
  /\ replaced = {}
  /\ stage = [r \in Requests |-> "idle"]
  /\ ask = [r \in Requests |-> NoAsk]
  /\ first = [r \in Requests |-> NoTexts]
  /\ failed = [r \in Requests |-> {}]
  /\ had = [r \in Requests |-> NothingHad]
  /\ answer = [r \in Requests |-> NoAnswer]
-----------------------------------------------------------------------------
(* A text from the given one or, if there is none, from the other.         *)
Or(text, other) == IF text # NoText THEN text ELSE other

(* Mutant: the query returns the shared override last.                     *)
EffectiveSharedLast(rows, l, s, k) ==
  Or(Or(rows[<<l, Shared, k>>].text, rows[<<l, s, k>>].text),
     Or(Product[<<l, s, k>>], Product[<<l, Shared, k>>]))

(* The text of a key in a locale and scope.  The query returns the scope's *)
(* override after the shared one, which it takes the place of, and the     *)
(* product is treated likewise.  Overrides, of either scope, are put over  *)
(* the product.                                                            *)
Effective(rows, l, s, k) ==
  Or(Or(rows[<<l, s, k>>].text, rows[<<l, Shared, k>>].text),
     Or(Product[<<l, s, k>>], Product[<<l, Shared, k>>]))

(* ProductCatalog.Translations, and Message for one key of ScopeShared.    *)
Translations(l, s, keys) ==
  [k \in Keys |-> IF k \in keys THEN Effective(overrides, l, s, k) ELSE NoText]

(* FallbackMessage, which stands for auditFallback too: the action and the *)
(* target of the event.                                                    *)
FallbackMessage == Product[<<Default, Shared, Internal>>]

(* The text in force, for the history, as the glossary has it: a shared    *)
(* text holds where the scope has none, and any override overlays the      *)
(* product.                                                                *)
InForce(rows, l, s, k) ==
  LET overriding == {c \in {s, Shared} : rows[<<l, c, k>>].text # NoText}
      providing == {c \in {s, Shared} : Product[<<l, c, k>>] # NoText}
      Nearest(scopes) == IF s \in scopes THEN s ELSE Shared
  IN CASE overriding # {} -> rows[<<l, Nearest(overriding), k>>].text
       [] overriding = {} /\ providing # {} -> Product[<<l, Nearest(providing), k>>]
       [] OTHER -> NoText

(* Requests in flight take note of the texts there are now.                *)
InFlight == {r \in Requests : stage[r] \in {"requested", "default"}}
Texts(rows, r, l) == [k \in Keys |-> {InForce(rows, l, ask[r].scope, k)}]
Noted(rows) ==
  [r \in Requests |->
     IF r \in InFlight
     THEN [requested |-> [k \in Keys |-> had[r].requested[k]
                                         \cup Texts(rows, r, ask[r].locale)[k]],
           default |-> [k \in Keys |-> had[r].default[k]
                                       \cup Texts(rows, r, Default)[k]]]
     ELSE had[r]]
-----------------------------------------------------------------------------
(* Super administrators                                                    *)

(* An editor opens a text, or a language, and has its row before them.     *)
OpenText(e, slot) ==
  /\ page[e] = NoPage
  /\ page' = [page EXCEPT ![e] = [on |-> "text", slot |-> slot, row |-> overrides[slot]]]
  /\ UNCHANGED <<store, replaced, request>>

OpenLanguage(e, l) ==
  /\ page[e] = NoPage
  /\ page' = [page EXCEPT ![e] = [on |-> "language", locale |-> l, row |-> languages[l]]]
  /\ UNCHANGED <<store, replaced, request>>

Close(e) ==
  /\ page' = [page EXCEPT ![e] = NoPage]
  /\ replaced' = replaced \ {e}

OnText(e) == page[e].on = "text"
OnLanguage(e) == page[e].on = "language"

(* Mutant: the UPDATE does not count the revision up.                      *)
SameRevision(row) == IF row.revision = 0 THEN 1 ELSE row.revision

(* A row is inserted with revision 1 and counted up by updates.            *)
NextRevision(row) == row.revision + 1

(* With revision 0 the row is inserted, unless there is one; otherwise it  *)
(* is updated, if it still has the revision.                               *)
Current(e, row) == row.revision = page[e].row.revision

(* UpsertTranslationOverride; the locale must have a language.             *)
SaveText(e) ==
  LET slot == page[e].slot
      row == overrides[slot]
  IN
  /\ OnText(e) /\ edits < MaxEdits
  /\ Current(e, row) /\ languages[slot[1]].revision > 0
  /\ overrides' = [overrides EXCEPT ![slot] =
       [revision |-> NextRevision(row), text |-> FirstEdit + edits]]
  /\ edits' = edits + 1
  /\ Close(e)
  /\ had' = Noted(overrides')
  /\ UNCHANGED <<languages, stage, ask, first, failed, answer>>

(* DeleteTranslationOverride, which needs a revision.                      *)
DeleteText(e) ==
  LET slot == page[e].slot
      row == overrides[slot]
  IN
  /\ OnText(e)
  /\ Current(e, row) /\ row.revision > 0
  /\ overrides' = [overrides EXCEPT ![slot] = NoRow]
  /\ page' = [page EXCEPT ![e] = NoPage]
  /\ replaced' = (replaced \cup {f \in Editors : OnText(f) /\ page[f].slot = slot})
                 \ {e}
  /\ had' = Noted(overrides')
  /\ UNCHANGED <<languages, edits, stage, ask, first, failed, answer>>

(* SaveLanguage: the default language stays active.                        *)
SaveLanguage(e, active) ==
  LET l == page[e].locale
      row == languages[l]
  IN
  /\ OnLanguage(e) /\ edits < MaxEdits
  /\ l = Default => active
  /\ Current(e, row)
  /\ languages' = [languages EXCEPT ![l] =
       [revision |-> NextRevision(row), active |-> active]]
  /\ edits' = edits + 1
  /\ Close(e)
  /\ UNCHANGED <<overrides, request>>

(* The edit is refused: a conflict, or a deletion or deactivation that is  *)
(* not valid.  The editor starts over.                                     *)
Refuse(e) ==
  /\ \/ OnText(e) /\ LET row == overrides[page[e].slot]
                     IN \/ ~Current(e, row) \/ row.revision = 0
                        \/ languages[page[e].slot[1]].revision = 0
     \/ OnLanguage(e) /\ \/ ~Current(e, languages[page[e].locale])
                         \/ page[e].locale = Default
  /\ Close(e)
  /\ UNCHANGED <<store, request>>
-----------------------------------------------------------------------------
(* Requests                                                                *)

Begin(r, what) ==
  /\ stage' = [stage EXCEPT ![r] = "requested"]
  /\ ask' = [ask EXCEPT ![r] = what]
  /\ had' = [had EXCEPT ![r] =
       [requested |-> [k \in Keys |-> {InForce(overrides, what.locale, what.scope, k)}],
        default |-> [k \in Keys |-> {InForce(overrides, Default, what.scope, k)}]]]

(* GetTranslations asks for all keys of a scope,                           *)
AskBundle(r, l, s) ==
  /\ stage[r] = "idle"
  /\ Begin(r, [kind |-> "bundle", locale |-> l, scope |-> s, keys |-> Keys])
  /\ UNCHANGED <<store, editing, first, failed, answer>>

(* ErrorMessage and AuditDescription for one shared text.                  *)
AskMessage(r, l, k) ==
  /\ stage[r] = "idle"
  /\ Begin(r, [kind |-> "message", locale |-> l, scope |-> Shared, keys |-> {k}])
  /\ UNCHANGED <<store, editing, first, failed, answer>>

Respond(r, l, texts) ==
  /\ stage' = [stage EXCEPT ![r] = "answered"]
  /\ first' = [first EXCEPT ![r] = NoTexts]
  /\ answer' = [answer EXCEPT ![r] = [locale |-> l, texts |-> texts]]

IsBundle(r) == ask[r].kind = "bundle"
Found(r, l) == Translations(l, ask[r].scope, ask[r].keys)
LastResort(r) == [k \in Keys |-> IF k \in ask[r].keys THEN FallbackMessage ELSE NoText]

(* Mutant: the default's texts over those of the requested locale.         *)
MergedDefaultFirst(texts, defaults) == [k \in Keys |-> Or(defaults[k], texts[k])]

(* mergeTranslations: the requested locale's texts over the default's.     *)
Merged(texts, defaults) == [k \in Keys |-> Or(texts[k], defaults[k])]

(* The first transaction.                                                  *)
ReadRequested(r) ==
  LET texts == Found(r, ask[r].locale)
      complete == ~IsBundle(r) /\ texts # NoTexts
  IN
  /\ stage[r] = "requested"
  /\ \/ /\ complete \/ (IsBundle(r) /\ ask[r].locale = Default)
        /\ Respond(r, ask[r].locale, texts)
     \/ /\ ~complete /\ ask[r].locale # Default
        /\ first' = [first EXCEPT ![r] = texts]
        /\ stage' = [stage EXCEPT ![r] = "default"]
        /\ UNCHANGED answer
     \/ /\ ~complete /\ ~IsBundle(r) /\ ask[r].locale = Default
        /\ Respond(r, Default, LastResort(r))
  /\ UNCHANGED <<store, editing, ask, failed, had>>

(* The second transaction.  A locale without any text is answered with the *)
(* default's.                                                              *)
ReadDefault(r) ==
  LET defaults == Found(r, Default) IN
  /\ stage[r] = "default"
  /\ \/ /\ IsBundle(r)
        /\ Respond(r, IF first[r] = NoTexts THEN Default ELSE ask[r].locale,
                  Merged(first[r], defaults))
     \/ /\ ~IsBundle(r)
        /\ Respond(r, Default, IF defaults # NoTexts THEN defaults ELSE LastResort(r))
  /\ UNCHANGED <<store, editing, ask, failed, had>>

(* A read fails.  A bundle is answered with an error, whose message is     *)
(* looked for afresh; a message falls back.                                *)
ReadFails(r) ==
  /\ stage[r] \in {"requested", "default"}
  /\ failed' = [failed EXCEPT ![r] = IF IsBundle(r) THEN {} ELSE @ \cup {stage[r]}]
  /\ \/ /\ IsBundle(r)
        /\ Begin(r, [kind |-> "message", locale |-> ask[r].locale,
                     scope |-> Shared, keys |-> {Internal}])
        /\ first' = [first EXCEPT ![r] = NoTexts]
        /\ UNCHANGED answer
     \/ /\ ~IsBundle(r) /\ stage[r] = "requested" /\ ask[r].locale # Default
        /\ stage' = [stage EXCEPT ![r] = "default"]
        /\ UNCHANGED <<ask, first, had, answer>>
     \/ /\ ~IsBundle(r) /\ (stage[r] = "default" \/ ask[r].locale = Default)
        /\ Respond(r, Default, LastResort(r))
        /\ UNCHANGED <<ask, had>>
  /\ UNCHANGED <<store, editing>>

End(r) ==
  /\ stage[r] = "answered"
  /\ stage' = [stage EXCEPT ![r] = "idle"]
  /\ ask' = [ask EXCEPT ![r] = NoAsk]
  /\ failed' = [failed EXCEPT ![r] = {}]
  /\ had' = [had EXCEPT ![r] = NothingHad]
  /\ answer' = [answer EXCEPT ![r] = NoAnswer]
  /\ UNCHANGED <<store, editing, first>>

LocalizationNext ==
  \/ \E e \in Editors :
       \/ \E slot \in Edited : OpenText(e, slot)
       \/ \E l \in Locales : OpenLanguage(e, l)
       \/ SaveText(e) \/ DeleteText(e) \/ Refuse(e)
       \/ \E active \in BOOLEAN : SaveLanguage(e, active)
  \/ \E r \in Requests :
       \/ \E l \in Locales, s \in Scopes : AskBundle(r, l, s)
       \/ \E l \in Locales, k \in Keys : AskMessage(r, l, k)
       \/ ReadRequested(r) \/ ReadDefault(r) \/ ReadFails(r) \/ End(r)

LocalizationSpec == LocalizationInit /\ [][LocalizationNext]_localizationVars
-----------------------------------------------------------------------------
(***************************************************************************)
(* Properties                                                              *)
(***************************************************************************)

(* The answer's texts and its locale, given what was noted.  A message in  *)
(* the default locale is looked for once.                                  *)
Missed(r, k, locale) == NoText \in had[r][locale][k] \/ locale \in failed[r]

HasCause(r) ==
  /\ \A k \in ask[r].keys :
       LET text == answer[r].texts[k] IN
       \/ text # NoText /\ text \in had[r].requested[k]
       \/ /\ Missed(r, k, "requested") /\ text \in had[r].default[k]
          /\ text # NoText \/ IsBundle(r)
       \/ /\ ~IsBundle(r) /\ text = FallbackMessage
          /\ Missed(r, k, "requested")
          /\ ask[r].locale # Default => Missed(r, k, "default")
  /\ answer[r].locale # Default =>
       \E k \in ask[r].keys : answer[r].texts[k] \in had[r].requested[k] \ {NoText}

(* Every text answered was in force while the request was served, by the   *)
(* precedence of overrides and scopes: a text of the requested locale was  *)
(* its text then, a text of the default locale was that locale's, while at *)
(* some moment the requested one had none or its read failed, and only a   *)
(* message may be the last resort, when the default locale failed it too.  *)
(* The locale named is the one of some text, or the default.               *)
TextHasCause == \A r \in Requests : stage[r] = "answered" => HasCause(r)

(* Two edits of a text never lose one: what an accepted save or deletion   *)
(* replaces is what its editor had before them.  The exception is a text   *)
(* that was deleted meanwhile: a new row starts at revision 1 again, and   *)
(* an edit meant for the old row is accepted.                              *)
NoLostText ==
  [][\A e \in Editors : (SaveText(e) \/ DeleteText(e)) =>
       \/ overrides[page[e].slot] = page[e].row
       \/ e \in replaced]_localizationVars
=============================================================================
