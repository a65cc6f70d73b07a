------------------------------- MODULE SignIn -------------------------------
(***************************************************************************)
(* Signing in with a password or with Google, and linking a Google account *)
(* to a user, from several tabs of one browser.                            *)
(*                                                                         *)
(* The server keeps nothing of an attempt.  What it must remember between  *)
(* the start and Google's answer is sealed in a cookie, and that the user  *)
(* entered a password of late is another cookie, bound to the session      *)
(* token.  All tabs share the cookies: a request carries those there are   *)
(* when it is sent, an answer sets its own when it arrives, and answers    *)
(* are delayed, reordered and lost.  A request of the application is       *)
(* served when it is sent; the callback, which waits for Google, takes its *)
(* time.                                                                   *)
(*                                                                         *)
(* Sealing and signing are not modelled: a cookie holds what it says.  The *)
(* state, nonce and PKCE verifier of an attempt are drawn together, and    *)
(* stand here as its number.  Memberships, and how a login reads the user  *)
(* before it issues a token, are in Sessions; which invitation is accepted *)
(* is in InvitationAcceptance.  Registration, and acceptance with a        *)
(* password, set the session cookie alone, as SwitchTenant does, and are   *)
(* left out.                                                               *)
(***************************************************************************)
EXTENDS Integers

CONSTANTS
  Users,            \* users
  SuperAdmins,      \* those with the global role
  Tabs,             \* tabs of the browser
  VerificationTTL,  \* passwordVerificationTTL
  AttemptTTL,       \* oidcAttemptTTL
  MaxClock,         \* bound on time
  MaxTokens,        \* bound on the session tokens issued
  MaxAttempts       \* bound on the attempts started

ASSUME SignInAssumption ==
  /\ SuperAdmins \subseteq Users
  /\ VerificationTTL \in Nat /\ AttemptTTL \in Nat

None == [none |-> TRUE]
Modes == {"login", "link", "invite"}

VARIABLES
  clock,     \* time, on the server
  version,   \* users.session_version, 0 without an account
  linked,    \* users with an external identity; its e-mail is the user's
  tokens,    \* session tokens issued so far
  attempts,  \* attempts started so far
  jar,       \* the browser's cookies: session, verified and attempt
  pc,        \* where each tab is
  sent,      \* the cookies its callback carries
  reply,     \* the cookies its answer sets; None clears one
  own,       \* the attempt it has started
  account,   \* the user whose Google account answers it
  found,     \* the user of the session that links an identity
  password   \* history: when each user last logged in with the password,
             \* or before both lifetimes

database == <<version, linked, tokens>>
tab == <<pc, sent, reply, own, account, found>>
signInVars == <<clock, database, attempts, jar, tab, password>>

NoCookies == [session |-> None, verified |-> None, attempt |-> None]
NoReply == [c \in {} |-> None]

SignInInit ==
  /\ clock = 0
  /\ version \in [Users -> {0, 1}]
  /\ \A u \in SuperAdmins : version[u] = 1
  /\ linked = {}
  /\ tokens = 0 /\ attempts = 0
  /\ jar = NoCookies
  /\ pc = [t \in Tabs |-> "idle"]
  /\ sent = [t \in Tabs |-> NoCookies]
  /\ reply = [t \in Tabs |-> NoReply]
  /\ own = [t \in Tabs |-> None]
  /\ account = [t \in Tabs |-> None]
  /\ found = [t \in Tabs |-> None]
  /\ password = [u \in Users |-> -(VerificationTTL + AttemptTTL)]

Tick ==
  /\ clock < MaxClock
  /\ clock' = clock + 1
  /\ UNCHANGED <<database, attempts, jar, tab, password>>

Goto(t, label) == pc' = [pc EXCEPT ![t] = label]

(* The handler is done and answers; the request's data is dropped.         *)
Answer(t, cookies) ==
  /\ Goto(t, "answered")
  /\ reply' = [reply EXCEPT ![t] = cookies]
  /\ sent' = [sent EXCEPT ![t] = NoCookies]
  /\ found' = [found EXCEPT ![t] = None]

Token(u, v) == [user |-> u, version |-> v, number |-> tokens]
Issue == tokens < MaxTokens /\ tokens' = tokens + 1

(* CurrentSession: the token's version is the user's.                      *)
Live(token) == token # None /\ token.version = version[token.user]

(* The user's next version, which ends all sessions there are.             *)
Rotate(u) == version' = [version EXCEPT ![u] = @ + 1]
-----------------------------------------------------------------------------
(* Requests of the application                                             *)

(* Login and LoginSuperAdmin, with the right password; the latter does not *)
(* set the verified cookie.                                                *)
Login(t, u) ==
  LET token == Token(u, version[u])
      verified == [token |-> token, expires |-> clock + VerificationTTL]
  IN
  /\ pc[t] = "idle" /\ version[u] > 0
  /\ Issue
  /\ password' = [password EXCEPT ![u] = clock]
  /\ \/ u \notin SuperAdmins /\ Answer(t, [session |-> token, verified |-> verified])
     \/ u \in SuperAdmins /\ Answer(t, [session |-> token])
  /\ UNCHANGED <<clock, version, linked, attempts, jar, own, account>>

(* Logout clears the cookies, whether or not the session was valid.        *)
Logout(t) ==
  LET token == jar.session IN
  /\ pc[t] = "idle"
  /\ IF Live(token) THEN Rotate(token.user) ELSE UNCHANGED version
  /\ Answer(t, [session |-> None, verified |-> None])
  /\ UNCHANGED <<clock, linked, tokens, attempts, jar, own, account, password>>

(* SwitchTenant ends the user's sessions and answers with a token of the   *)
(* next version.                                                           *)
Switch(t) ==
  LET u == jar.session.user IN
  /\ pc[t] = "idle" /\ Live(jar.session) /\ u \notin SuperAdmins
  /\ Rotate(u)
  /\ Issue
  /\ Answer(t, [session |-> Token(u, version[u] + 1)])
  /\ UNCHANGED <<clock, linked, attempts, jar, own, account, password>>

(* The tab is done with its attempt, if it had one.                        *)
Leave(t) ==
  /\ own' = [own EXCEPT ![t] = None]
  /\ account' = [account EXCEPT ![t] = None]

(* The answer arrives, and its cookies are those of all tabs; or it is     *)
(* lost.                                                                   *)
SetCookies(cookies) ==
  jar' = [c \in DOMAIN jar |-> IF c \in DOMAIN cookies THEN cookies[c] ELSE jar[c]]

Receive(t) ==
  /\ pc[t] = "answered"
  /\ SetCookies(reply[t])
  /\ IF "attempt" \in DOMAIN reply[t] /\ reply[t].attempt # None
     THEN Goto(t, "google") /\ UNCHANGED <<own, account>>
     ELSE Goto(t, "idle") /\ Leave(t)
  /\ reply' = [reply EXCEPT ![t] = NoReply]
  /\ UNCHANGED <<clock, database, attempts, sent, found, password>>

Lose(t) ==
  /\ pc[t] = "answered"
  /\ Goto(t, "idle")
  /\ reply' = [reply EXCEPT ![t] = NoReply]
  /\ Leave(t)
  /\ UNCHANGED <<clock, database, attempts, jar, sent, found, password>>
-----------------------------------------------------------------------------
(* googleOIDCStart                                                         *)

(* Mutant: the time in the signed value is not looked at.                  *)
VerifiedForGood(cookies) ==
  /\ cookies.verified # None
  /\ cookies.verified.token = cookies.session

(* hasPasswordVerified: signed for this session, and not expired.          *)
HasPasswordVerified(cookies) ==
  /\ cookies.verified # None
  /\ clock < cookies.verified.expires
  /\ cookies.verified.token = cookies.session

MayStart(mode) == mode = "link" => Live(jar.session) /\ HasPasswordVerified(jar)

(* The new attempt, and as a history who asked for it.                     *)
NewAttempt(mode) ==
  [number |-> attempts, mode |-> mode, expires |-> clock + AttemptTTL,
   by |-> IF mode = "link" THEN jar.session.user ELSE None]

(* A start that is refused changes nothing.                                *)
Start(t, mode) ==
  /\ pc[t] = "idle" /\ MayStart(mode)
  /\ attempts < MaxAttempts
  /\ attempts' = attempts + 1
  /\ Answer(t, [attempt |-> NewAttempt(mode)])
  /\ own' = [own EXCEPT ![t] = NewAttempt(mode)]
  /\ UNCHANGED <<clock, database, jar, account, password>>
-----------------------------------------------------------------------------
(* googleOIDCCallback                                                      *)

Cleared == [attempt |-> None]

(* Google redirects the tab to the callback, with the account of a user.   *)
GoogleAnswers(t, u) ==
  /\ pc[t] = "google"
  /\ account' = [account EXCEPT ![t] = u]
  /\ sent' = [sent EXCEPT ![t] = jar]
  /\ Goto(t, "callback")
  /\ UNCHANGED <<clock, database, attempts, jar, reply, own, found, password>>

(* The user declines there; the callback clears the attempt.               *)
GoogleDeclines(t) ==
  /\ pc[t] = "google"
  /\ Answer(t, IF jar.attempt = None THEN NoReply ELSE Cleared)
  /\ UNCHANGED <<clock, database, attempts, jar, own, account, password>>

(* Mutant: the state is not compared.                                      *)
AnyState(t) == sent[t].attempt # None

(* The state in the query is the one in the cookie.                        *)
SameState(t) == sent[t].attempt # None /\ sent[t].attempt.number = own[t].number

(* openOIDCAttempt, and the state.  With another attempt in the cookie,    *)
(* the answer clears it all the same.                                      *)
OpenAttempt(t) ==
  /\ pc[t] = "callback"
  /\ SameState(t) /\ clock < sent[t].attempt.expires
  /\ Goto(t, "exchange")
  /\ UNCHANGED <<clock, database, attempts, jar, sent, reply, own, account,
                 found, password>>

RefuseAttempt(t) ==
  /\ pc[t] = "callback"
  /\ ~(SameState(t) /\ clock < sent[t].attempt.expires)
  /\ Answer(t, IF sent[t].attempt = None THEN NoReply ELSE Cleared)
  /\ UNCHANGED <<clock, database, attempts, jar, own, account, password>>

(* Exchange: the code gives the identity, whose nonce and challenge are    *)
(* those of the tab's attempt; or it fails.                                *)
Exchange(t) ==
  /\ pc[t] = "exchange"
  /\ Goto(t, sent[t].attempt.mode)
  /\ UNCHANGED <<clock, database, attempts, jar, sent, reply, own, account, found, password>>

ExchangeFails(t) ==
  /\ pc[t] = "exchange"
  /\ Answer(t, Cleared)
  /\ UNCHANGED <<clock, database, attempts, jar, own, account, password>>

(* LoginExternal, unless the identity is not linked or the user is a super *)
(* administrator.                                                          *)
LoginExternal(t) ==
  /\ pc[t] = "login"
  /\ LET u == account[t] IN
     \/ /\ u \in linked \ SuperAdmins
        /\ Issue
        /\ Answer(t, [session |-> Token(u, version[u]), attempt |-> None])
     \/ /\ u \notin linked \ SuperAdmins
        /\ Answer(t, Cleared)
        /\ UNCHANGED tokens
  /\ UNCHANGED <<clock, version, linked, attempts, jar, own, account, password>>

(* AcceptExternalInvitation signs the invited user in and links the        *)
(* identity, or fails.  A new account has version 1, and that of an        *)
(* existing user rises.                                                    *)
AcceptExternal(t) ==
  /\ pc[t] = "invite"
  /\ LET u == account[t] IN
     \/ /\ u \notin linked \cup SuperAdmins
        /\ Rotate(u)
        /\ Issue
        /\ linked' = linked \cup {u}
        /\ Answer(t, [session |-> Token(u, version[u] + 1), attempt |-> None])
     \/ /\ Answer(t, Cleared)
        /\ UNCHANGED <<version, linked, tokens>>
  /\ UNCHANGED <<clock, attempts, jar, own, account, password>>

(* Linking needs the session the callback came with,                       *)
CheckSession(t) ==
  LET token == sent[t].session IN
  /\ pc[t] = "link"
  /\ \/ /\ Live(token)
        /\ found' = [found EXCEPT ![t] = token.user]
        /\ Goto(t, "linking")
        /\ UNCHANGED <<sent, reply>>
     \/ /\ ~Live(token)
        /\ Answer(t, Cleared)
  /\ UNCHANGED <<clock, database, attempts, jar, own, account, password>>

(* and the e-mail of the session's user, who has no identity yet.          *)
MayLink(t) ==
  /\ found[t] \notin SuperAdmins \cup linked
  /\ found[t] = account[t]

LinkExternalIdentity(t) ==
  /\ pc[t] = "linking"
  /\ \/ /\ MayLink(t)
        /\ linked' = linked \cup {found[t]}
        /\ Answer(t, [verified |-> None, attempt |-> None])
     \/ /\ ~MayLink(t)
        /\ Answer(t, Cleared)
        /\ UNCHANGED linked
  /\ UNCHANGED <<clock, version, tokens, attempts, jar, own, account, password>>

Callback(t) ==
  \/ OpenAttempt(t) \/ RefuseAttempt(t) \/ Exchange(t) \/ ExchangeFails(t)
  \/ LoginExternal(t) \/ AcceptExternal(t) \/ CheckSession(t) \/ LinkExternalIdentity(t)

SignInNext ==
  \/ Tick
  \/ \E t \in Tabs :
       \/ \E u \in Users : Login(t, u) \/ GoogleAnswers(t, u)
       \/ \E mode \in Modes : Start(t, mode)
       \/ Logout(t) \/ Switch(t) \/ Receive(t) \/ Lose(t)
       \/ GoogleDeclines(t) \/ Callback(t)

SignInSpec == SignInInit /\ [][SignInNext]_signInVars
-----------------------------------------------------------------------------
(***************************************************************************)
(* Properties                                                              *)
(***************************************************************************)

(* Whatever the tabs do and whichever answers are late or lost: when a     *)
(* link attempt is opened, the user who asked for it logged in with the    *)
(* password no longer ago than the two lifetimes together.                 *)
LinkFollowsPassword ==
  [][\A t \in Tabs : OpenAttempt(t) /\ sent[t].attempt.mode = "link" =>
       clock < password[sent[t].attempt.by] + VerificationTTL + AttemptTTL]_signInVars

(* A tab's answer from Google is used for what the tab asked: tabs that    *)
(* overwrite one another's attempt make an answer fail, never link an      *)
(* account where a login was asked for, or the reverse.                    *)
ActsAsAsked ==
  \A t \in Tabs :
    pc[t] \in {"login", "link", "invite", "linking"} =>
      sent[t].attempt = own[t]
=============================================================================
