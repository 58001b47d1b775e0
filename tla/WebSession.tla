----------------------------- MODULE WebSession ------------------------------
(***************************************************************************)
(* Sign-up, login, logout and authorship on the web site.                  *)
(*                                                                         *)
(* server.py replaces Flask's `session' by one object it makes itself when *)
(* the process starts (line 34).  It is an ordinary dictionary: it lives   *)
(* in one worker, is shared by all browsers this worker serves, is unknown *)
(* to the other workers, and is lost when the worker restarts.  A browser  *)
(* has no say in which worker serves its next request.                     *)
(***************************************************************************)
CONSTANTS Browsers,   \* browsers in use
          Workers,    \* gunicorn workers
          People,     \* people; each has an email address and a user name
          Nobody      \* no `username' in a session, nobody logged in

ASSUME NobodyAssumption == Nobody \notin People

VARIABLES accounts,   \* people with a Firebase account
          profiles,   \* people with a document in Users
          session,    \* worker -> whose name its session holds
          signing,    \* worker -> sign-up between create_user and add_user
          seated,     \* browser -> who logged in there and did not log out
          alone,      \* history: logins nobody logged in or out over since
          authored    \* who wrote what under whose name

vars == <<accounts, profiles, session, signing, seated, alone, authored>>

NoSign == [person |-> Nobody]
Sign == [person : People, browser : Browsers]

Serves(w) == signing[w] = NoSign

\* The logins that stay alone when browser b logs in or out on worker w: those
\* of other browsers on other workers.
LeftAlone(b, w) == {x \in alone : x[1] # b /\ x[2] # w}

-----------------------------------------------------------------------------
(* sign                                                                    *)

\* Faulty variant: sign fills the session before it creates the account.
CreateUserLate(b, w, p) ==
  /\ Serves(w)
  /\ p \notin accounts
  /\ session' = [session EXCEPT ![w] = p]
  /\ accounts' \in {accounts, accounts \union {p}}
  /\ signing' = [signing EXCEPT ![w] = [person |-> p, browser |-> b]]
  /\ UNCHANGED <<profiles, seated, alone, authored>>

\* Faulty variant: create_user takes an existing account for a new one.
CreateUserAgain(b, w, p) ==
  /\ Serves(w)
  /\ accounts' = accounts \union {p}
  /\ signing' \in {signing, [signing EXCEPT ![w] = [person |-> p, browser |-> b]]}
  /\ UNCHANGED <<profiles, session, seated, alone, authored>>

\* Faulty variant: sign goes on with no person when the mail was not sent.
CreateUserNameless(b, w, p) ==
  /\ Serves(w)
  /\ p \notin accounts
  /\ accounts' = accounts \union {p}
  /\ signing' = [signing EXCEPT ![w] = [person |-> Nobody, browser |-> b]]
  /\ UNCHANGED <<profiles, session, seated, alone, authored>>

\* create_user makes the account at Firebase.  Then it sends the verification
\* mail; when this raises, sign raises with it and leaves the account behind.
\* (Firebase_config.py hands over the localId where the library wants an id
\* token, so the mail may well raise always; the library is not in the
\* repository, and both outcomes are kept.)
CreateUser(b, w, p) ==
  /\ Serves(w)
  /\ p \notin accounts
  /\ accounts' = accounts \union {p}
  /\ signing' \in {signing, [signing EXCEPT ![w] = [person |-> p, browser |-> b]]}
  /\ UNCHANGED <<profiles, session, seated, alone, authored>>

\* The session is set, then add_user inserts the document; when the insert
\* raises the exception is swallowed and the user is redirected all the same.
AddUser(w) ==
  /\ ~ Serves(w)
  /\ LET p == signing[w].person
     IN  /\ session' = [session EXCEPT ![w] = p]
         /\ profiles' \in {profiles, profiles \union {p}}
         /\ seated' = [seated EXCEPT ![signing[w].browser] = p]
         /\ alone' = LeftAlone(signing[w].browser, w)
                       \union {<<signing[w].browser, w>>}
  /\ signing' = [signing EXCEPT ![w] = NoSign]
  /\ UNCHANGED <<accounts, authored>>

-----------------------------------------------------------------------------
(* login and logout                                                        *)

\* Faulty variant: a session that already has a name is not filled again.
LoginKeeps(b, w, p) ==
  /\ Serves(w)
  /\ p \in accounts
  /\ p \in profiles
  /\ session' = [session EXCEPT ![w] = IF @ = Nobody THEN p ELSE @]
  /\ seated' = [seated EXCEPT ![b] = p]
  /\ alone' = LeftAlone(b, w) \union {<<b, w>>}
  /\ UNCHANGED <<accounts, profiles, signing, authored>>

\* Firebase knows the person and Users has a document with the name.  Without
\* the account the login page comes back, without the document the handler
\* raises; neither changes anything.
Login(b, w, p) ==
  /\ Serves(w)
  /\ p \in accounts
  /\ p \in profiles
  /\ session' = [session EXCEPT ![w] = p]
  /\ seated' = [seated EXCEPT ![b] = p]
  /\ alone' = LeftAlone(b, w) \union {<<b, w>>}
  /\ UNCHANGED <<accounts, profiles, signing, authored>>

\* On a worker whose session is empty, pop raises and the page is an error.
Logout(b, w) ==
  /\ Serves(w)
  /\ session[w] # Nobody
  /\ session' = [session EXCEPT ![w] = Nobody]
  /\ seated' = [seated EXCEPT ![b] = Nobody]
  /\ alone' = LeftAlone(b, w)
  /\ UNCHANGED <<accounts, profiles, signing, authored>>

-----------------------------------------------------------------------------
\* handle_data, experience and add_question store session['username'] as the
\* author; on a worker whose session is empty they raise before the insert.
Author(b, w) ==
  /\ Serves(w)
  /\ session[w] # Nobody
  /\ authored' = authored \union {[by |-> seated[b], name |-> session[w],
                                    alone |-> <<b, w>> \in alone]}
  /\ UNCHANGED <<accounts, profiles, session, signing, seated, alone>>

\* A worker is killed, or exits in the argparse call of youtube_search, and
\* gunicorn starts a new one.
Restart(w) ==
  /\ session' = [session EXCEPT ![w] = Nobody]
  /\ signing' = [signing EXCEPT ![w] = NoSign]
  /\ UNCHANGED <<accounts, profiles, seated, alone, authored>>

-----------------------------------------------------------------------------
Init ==
  /\ accounts = {}
  /\ profiles = {}
  /\ session = [w \in Workers |-> Nobody]
  /\ signing = [w \in Workers |-> NoSign]
  /\ seated = [b \in Browsers |-> Nobody]
  /\ alone = {}
  /\ authored = {}

Next ==
  \E w \in Workers :
    \/ \E b \in Browsers, p \in People : CreateUser(b, w, p) \/ Login(b, w, p)
    \/ AddUser(w)
    \/ \E b \in Browsers : Logout(b, w) \/ Author(b, w)
    \/ Restart(w)

Spec == Init /\ [][Next]_vars

-----------------------------------------------------------------------------
(* Properties.                                                             *)

\* Type invariant of accounts, sessions and authorship.
TypeOK ==
  /\ accounts \subseteq People
  /\ profiles \subseteq People
  /\ session \in [Workers -> People \union {Nobody}]
  /\ signing \in [Workers -> {NoSign} \union Sign]
  /\ seated \in [Browsers -> People \union {Nobody}]
  /\ alone \subseteq Browsers \X Workers
  /\ authored \subseteq [by : People \union {Nobody}, name : People, alone : BOOLEAN]

\* Nobody holds a session, a document or an authorship without an account,
\* whatever part of a sign-up fails, whoever's session a worker holds and
\* wherever the worker restarts.
NamesHaveAccounts ==
  /\ profiles \subseteq accounts
  /\ \A w \in Workers : session[w] # Nobody => session[w] \in accounts
  /\ \A b \in Browsers : seated[b] # Nobody => seated[b] \in accounts
  /\ \A a \in authored : a.name \in accounts

\* Whoever a sign-up left half way (no mail, swallowed insert, killed worker):
\* an account without a document, and no sign-up under way.
LockedOut == {p \in accounts \ profiles : \A w \in Workers : signing[w].person # p}

SigningUp == {signing[w].person : w \in {v \in Workers : ~ Serves(v)}}

SignUps == INSTANCE Delivery
             WITH Items <- People, pending <- SigningUp, delivered <- profiles,
                  lost <- LockedOut

\* Sign-ups implement Delivery: a person signs up once, on one worker, and then
\* has a document or is locked out for good; no login, logout, restart or second
\* sign-up, by anybody on any worker, ever adds the missing document.
SignedUpOnce == SignUps!Spec

\* `session=Session() #handle sessions' (server.py): what a logged-in person
\* publishes carries this person's name.
Attribution == \A a \in authored : a.by # Nobody => a.name = a.by

\* What is left of it with one session for all browsers of a worker.  Where the
\* author's browser logged in and, since then, nobody else logged in or out on
\* this worker nor this browser on another one, the author's name is right,
\* through restarts of any worker and whatever others do elsewhere.
AttributionUnlessShared == \A a \in authored : a.alone => a.name = a.by
=============================================================================
