-------------------------- MODULE WebSessionProofs ---------------------------
(***************************************************************************)
(* Proofs about WebSession, for any browsers, workers and people.  The     *)
(* accounts that names need exist already while a sign-up is under way:    *)
(* Inv adds this to NamesHaveAccounts and is inductive together with the   *)
(* type invariant.  AloneInv ties the session of a worker to the browser   *)
(* that is alone there.  Sign-ups are shown to implement Delivery.         *)
(***************************************************************************)
EXTENDS WebSession, TLAPS

\* A sign-up between its two calls has its account.
SigningHasAccount ==
  \A w \in Workers : signing[w] # NoSign => signing[w].person \in accounts

Inv == TypeOK /\ NamesHaveAccounts /\ SigningHasAccount

-----------------------------------------------------------------------------
\* Who signs up on a worker is a person, who signs up on none is nobody.
LEMMA SigningPerson ==
  ASSUME TypeOK, NEW w \in Workers
  PROVE  /\ signing[w] # NoSign => /\ signing[w].person \in People
                                   /\ signing[w].browser \in Browsers
         /\ signing[w] = NoSign => signing[w].person = Nobody
BY DEF TypeOK, Sign, NoSign

\* A worker that starts a sign-up holds a well-formed one.
LEMMA SignIsSign ==
  ASSUME NEW p \in People, NEW b \in Browsers
  PROVE  /\ [person |-> p, browser |-> b] \in Sign
         /\ [person |-> p, browser |-> b].person = p
         /\ [person |-> p, browser |-> b] # NoSign
<1>1. [person |-> p, browser |-> b].person = p
  OBVIOUS
<1>2. NoSign.person = Nobody
  BY DEF NoSign
<1> QED BY <1>1, <1>2, NobodyAssumption DEF Sign

-----------------------------------------------------------------------------
(* The type invariant.                                                     *)

\* What a login or a logout leaves of alone, and what a login adds to it.
LEMMA LeftAloneType ==
  ASSUME TypeOK, NEW b \in Browsers, NEW w \in Workers
  PROVE  /\ LeftAlone(b, w) \subseteq Browsers \X Workers
         /\ LeftAlone(b, w) \union {<<b, w>>} \subseteq Browsers \X Workers
BY DEF TypeOK, LeftAlone

\* One more authorship.
LEMMA AuthoredType ==
  ASSUME TypeOK, NEW b \in Browsers, NEW w \in Workers, Author(b, w)
  PROVE  authored' \subseteq [by : People \union {Nobody}, name : People,
                              alone : BOOLEAN]
<1> DEFINE a == [by |-> seated[b], name |-> session[w], alone |-> <<b, w>> \in alone]
<1>1. seated[b] \in People \union {Nobody} /\ session[w] \in People
  BY DEF TypeOK, Author
<1>2. (<<b, w>> \in alone) \in BOOLEAN
  OBVIOUS
<1>3. a \in [by : People \union {Nobody}, name : People, alone : BOOLEAN]
  BY <1>1, <1>2
<1>4. authored' = authored \union {a}
  BY DEF Author
<1> HIDE DEF a
<1> QED
  BY <1>3, <1>4 DEF TypeOK

LEMMA TypeStep ==
  ASSUME TypeOK, [Next]_vars
  PROVE  TypeOK'
<1> USE DEF TypeOK
<1>1. ASSUME UNCHANGED vars PROVE TypeOK'
  BY <1>1 DEF vars
<1>2. ASSUME NEW w \in Workers, NEW b \in Browsers, NEW p \in People,
             CreateUser(b, w, p)
      PROVE  TypeOK'
  BY <1>2, SignIsSign DEF CreateUser
<1>3. ASSUME NEW w \in Workers, NEW b \in Browsers, NEW p \in People,
             Login(b, w, p)
      PROVE  TypeOK'
  BY <1>3, LeftAloneType DEF Login
<1>4. ASSUME NEW w \in Workers, AddUser(w)
      PROVE  TypeOK'
  BY <1>4, SigningPerson, LeftAloneType DEF AddUser, Serves
<1>5. ASSUME NEW w \in Workers, NEW b \in Browsers, Logout(b, w)
      PROVE  TypeOK'
  BY <1>5, LeftAloneType DEF Logout
<1>6. ASSUME NEW w \in Workers, NEW b \in Browsers, Author(b, w)
      PROVE  TypeOK'
  BY <1>6, AuthoredType DEF Author
<1>7. ASSUME NEW w \in Workers, Restart(w)
      PROVE  TypeOK'
  BY <1>7 DEF Restart
<1> QED BY <1>1, <1>2, <1>3, <1>4, <1>5, <1>6, <1>7 DEF Next

-----------------------------------------------------------------------------
(* Names have accounts.                                                    *)

LEMMA InvInit == Init => Inv
<1> SUFFICES ASSUME Init PROVE Inv
  OBVIOUS
<1>1. TypeOK
  BY DEF Init, TypeOK
<1>2. NamesHaveAccounts
  BY DEF Init, NamesHaveAccounts
<1>3. SigningHasAccount
  BY DEF Init, SigningHasAccount
<1> QED BY <1>1, <1>2, <1>3 DEF Inv

LEMMA InvStep ==
  ASSUME Inv, [Next]_vars
  PROVE  Inv'
<1>1. TypeOK /\ TypeOK'
  BY TypeStep DEF Inv
<1> SUFFICES NamesHaveAccounts' /\ SigningHasAccount'
  BY <1>1 DEF Inv
<1> USE <1>1 DEF Inv, NamesHaveAccounts, SigningHasAccount
<1>2. ASSUME UNCHANGED vars
      PROVE  NamesHaveAccounts' /\ SigningHasAccount'
  BY <1>2 DEF vars
<1>3. ASSUME NEW w \in Workers, NEW b \in Browsers, NEW p \in People,
             CreateUser(b, w, p)
      PROVE  NamesHaveAccounts' /\ SigningHasAccount'
  <2>1. NamesHaveAccounts'
    BY <1>3 DEF CreateUser
  <2>2. SigningHasAccount'
    BY <1>3, SignIsSign DEF CreateUser, TypeOK
  <2> QED BY <2>1, <2>2
<1>4. ASSUME NEW w \in Workers, NEW b \in Browsers, NEW p \in People,
             Login(b, w, p)
      PROVE  NamesHaveAccounts' /\ SigningHasAccount'
  BY <1>4 DEF Login, TypeOK
<1>5. ASSUME NEW w \in Workers, AddUser(w)
      PROVE  NamesHaveAccounts' /\ SigningHasAccount'
  <2>1. signing[w].person \in accounts
    BY <1>5 DEF AddUser, Serves
  <2> QED BY <1>5, <2>1 DEF AddUser, TypeOK
<1>6. ASSUME NEW w \in Workers, NEW b \in Browsers, Logout(b, w)
      PROVE  NamesHaveAccounts' /\ SigningHasAccount'
  BY <1>6 DEF Logout, TypeOK
<1>7. ASSUME NEW w \in Workers, NEW b \in Browsers, Author(b, w)
      PROVE  NamesHaveAccounts' /\ SigningHasAccount'
  BY <1>7 DEF Author
<1>8. ASSUME NEW w \in Workers, Restart(w)
      PROVE  NamesHaveAccounts' /\ SigningHasAccount'
  BY <1>8 DEF Restart, TypeOK
<1> QED BY <1>2, <1>3, <1>4, <1>5, <1>6, <1>7, <1>8 DEF Next

-----------------------------------------------------------------------------
(* Attribution of those who do not share.                                  *)

\* Who is alone on a worker finds there the own name or none; an authorship keeps
\* what was so when it was made.
AloneInv ==
  /\ \A b \in Browsers, w \in Workers :
       <<b, w>> \in alone /\ session[w] # Nobody => session[w] = seated[b]
  /\ AttributionUnlessShared

\* Logging in or out leaves alone only logins of other browsers elsewhere.
LEMMA OthersAlone ==
  ASSUME TypeOK, AloneInv, NEW b \in Browsers, NEW w \in Workers,
         NEW c \in Browsers, NEW v \in Workers, <<c, v>> \in LeftAlone(b, w)
  PROVE  c # b /\ v # w /\ (session[v] # Nobody => session[v] = seated[c])
BY DEF LeftAlone, AloneInv

\* A login: the browser and the session get the same name.
LEMMA LoginAlone ==
  ASSUME TypeOK, AloneInv, NEW b \in Browsers, NEW w \in Workers, NEW p \in People,
         session' = [session EXCEPT ![w] = p],
         seated' = [seated EXCEPT ![b] = p],
         alone' = LeftAlone(b, w) \union {<<b, w>>},
         authored' = authored
  PROVE  AloneInv'
<1>1. ASSUME NEW c \in Browsers, NEW v \in Workers,
             <<c, v>> \in alone', session'[v] # Nobody
      PROVE  session'[v] = seated'[c]
  <2>1. CASE c = b /\ v = w
    BY <2>1 DEF TypeOK
  <2>2. CASE <<c, v>> \in LeftAlone(b, w)
    <3>1. c # b /\ v # w /\ (session[v] # Nobody => session[v] = seated[c])
      BY <2>2, OthersAlone
    <3> QED
      BY <1>1, <3>1 DEF TypeOK
  <2> QED
    BY <1>1, <2>1, <2>2
<1> QED
  BY <1>1 DEF AloneInv, AttributionUnlessShared

LEMMA AloneStep ==
  ASSUME TypeOK, AloneInv, [Next]_vars
  PROVE  AloneInv'
<1>1. ASSUME UNCHANGED <<session, seated, alone, authored>>
      PROVE  AloneInv'
  BY <1>1 DEF AloneInv, AttributionUnlessShared
<1>2. ASSUME NEW w \in Workers, NEW b \in Browsers, NEW p \in People,
             CreateUser(b, w, p)
      PROVE  AloneInv'
  BY <1>1, <1>2 DEF CreateUser
<1>3. ASSUME NEW w \in Workers, NEW b \in Browsers, NEW p \in People,
             Login(b, w, p)
      PROVE  AloneInv'
  BY <1>3, LoginAlone DEF Login
<1>4. ASSUME NEW w \in Workers, AddUser(w)
      PROVE  AloneInv'
  <2>1. signing[w].person \in People /\ signing[w].browser \in Browsers
    BY <1>4, SigningPerson DEF AddUser, Serves
  <2> QED
    BY <1>4, <2>1, LoginAlone DEF AddUser
<1>5. ASSUME NEW w \in Workers, NEW b \in Browsers, Logout(b, w)
      PROVE  AloneInv'
  <2>1. ASSUME NEW c \in Browsers, NEW v \in Workers,
               <<c, v>> \in alone', session'[v] # Nobody
        PROVE  session'[v] = seated'[c]
    <3>1. c # b /\ v # w /\ (session[v] # Nobody => session[v] = seated[c])
      BY <1>5, <2>1, OthersAlone DEF Logout
    <3> QED
      BY <1>5, <2>1, <3>1 DEF Logout, TypeOK
  <2> QED
    BY <1>5, <2>1 DEF Logout, AloneInv, AttributionUnlessShared
<1>6. ASSUME NEW w \in Workers, NEW b \in Browsers, Author(b, w)
      PROVE  AloneInv'
  <2>1. <<b, w>> \in alone => session[w] = seated[b]
    BY <1>6 DEF Author, AloneInv
  <2> DEFINE new == [by |-> seated[b], name |-> session[w],
                     alone |-> <<b, w>> \in alone]
  <2>2. ASSUME NEW a \in authored', a.alone
        PROVE  a.name = a.by
    <3>1. /\ new.by = seated[b] /\ new.name = session[w]
          /\ new.alone <=> <<b, w>> \in alone
      OBVIOUS
    <3>2. authored' = authored \union {new}
      BY <1>6 DEF Author
    <3> HIDE DEF new
    <3> QED
      BY <2>1, <2>2, <3>1, <3>2 DEF AloneInv, AttributionUnlessShared
  <2> QED
    BY <1>6, <2>2 DEF Author, AloneInv, AttributionUnlessShared
<1>7. ASSUME NEW w \in Workers, Restart(w)
      PROVE  AloneInv'
  BY <1>7 DEF Restart, AloneInv, AttributionUnlessShared, TypeOK
<1> QED
  BY <1>1, <1>2, <1>3, <1>4, <1>5, <1>6, <1>7 DEF Next, vars

-----------------------------------------------------------------------------
\* The variables of the web site keep their types: whoever a worker adds to
\* Users, a session or an authorship is a person.
THEOREM TypeCorrect == Spec => []TypeOK
<1>1. Init => TypeOK
  BY InvInit DEF Inv
<1>2. TypeOK /\ [Next]_vars => TypeOK'
  BY TypeStep
<1> QED BY <1>1, <1>2, PTL DEF Spec

\* Every name in a session, a document or an authorship has an account,
\* although sessions are shared, lost and half filled.
THEOREM AccountsBehindNames == Spec => []NamesHaveAccounts
<1>1. Inv /\ [Next]_vars => Inv'
  BY InvStep
<1>2. Inv => NamesHaveAccounts
  BY DEF Inv
<1> QED BY <1>1, <1>2, InvInit, PTL DEF Spec

\* Whoever logged in on a worker, and has not shared it since, publishes under
\* the own name there: the session holds this name or, after a restart, none.
THEOREM AttributedUnlessShared == Spec => []AttributionUnlessShared
<1>1. Init => AloneInv
  BY DEF Init, AloneInv, AttributionUnlessShared
<1>2. TypeOK /\ AloneInv /\ [Next]_vars => AloneInv'
  BY AloneStep
<1>3. AloneInv => AttributionUnlessShared
  BY DEF AloneInv
<1> QED BY <1>1, <1>2, <1>3, TypeCorrect, PTL DEF Spec

-----------------------------------------------------------------------------
(* Sign-ups implement Delivery.                                            *)

\* A person signs up on one worker at a time and has no document meanwhile.
OnceInv ==
  /\ \A v, w \in Workers : ~ Serves(v) /\ ~ Serves(w) /\ v # w =>
                            signing[v].person # signing[w].person
  /\ SigningUp \intersect profiles = {}

\* The people the abstract specification sees.
Split ==
  /\ SigningUp \subseteq accounts /\ SigningUp \subseteq People
  /\ profiles \subseteq accounts
  /\ LockedOut = (accounts \ profiles) \ SigningUp

LEMMA PeopleSplit == Inv => Split
<1> SUFFICES ASSUME Inv PROVE Split
  OBVIOUS
<1>1. TypeOK /\ profiles \subseteq accounts
  BY DEF Inv, NamesHaveAccounts
<1>2. SigningUp \subseteq accounts
  BY DEF Inv, SigningHasAccount, SigningUp, Serves
<1>3. ASSUME NEW p \in accounts
      PROVE  p \in SigningUp <=> \E w \in Workers : signing[w].person = p
  BY <1>1, NobodyAssumption DEF SigningUp, Serves, NoSign, TypeOK
<1> QED
  BY <1>1, <1>2, <1>3 DEF Split, LockedOut, TypeOK

\* A worker that ends a sign-up, and one that begins it.
LEMMA SignUpEnds ==
  ASSUME TypeOK, OnceInv, NEW w \in Workers, ~ Serves(w),
         signing' = [signing EXCEPT ![w] = NoSign]
  PROVE  SigningUp' = SigningUp \ {signing[w].person}
<1>1. /\ ~ (~ Serves(w))'
      /\ \A v \in Workers : v # w =>
           (Serves(v)' <=> Serves(v)) /\ signing'[v] = signing[v]
  BY DEF TypeOK, Serves
<1>2. \A v \in Workers : ~ Serves(v) /\ v # w => signing[v].person # signing[w].person
  BY DEF OnceInv
<1> QED
  BY <1>1, <1>2 DEF SigningUp

LEMMA SignUpBegins ==
  ASSUME TypeOK, NEW w \in Workers, Serves(w), NEW p \in People, NEW b \in Browsers,
         signing' = [signing EXCEPT ![w] = [person |-> p, browser |-> b]]
  PROVE  SigningUp' = SigningUp \union {p}
<1>1. /\ ~ Serves(w)' /\ signing'[w].person = p
      /\ \A v \in Workers : v # w =>
           (Serves(v)' <=> Serves(v)) /\ signing'[v] = signing[v]
  BY NobodyAssumption DEF TypeOK, Serves, NoSign
<1> QED
  BY <1>1 DEF SigningUp

\* Each step is a step of SignUps or leaves its people alone.
LEMMA OnceStep ==
  ASSUME Inv, OnceInv, [Next]_vars
  PROVE  OnceInv' /\ [SignUps!Next]_(SignUps!vars)
<1>1. Inv'
  BY InvStep
<1>2. TypeOK
  BY DEF Inv
<1>3. /\ SigningUp \subseteq accounts /\ SigningUp \subseteq People
      /\ profiles \subseteq accounts
      /\ LockedOut = (accounts \ profiles) \ SigningUp
  BY PeopleSplit DEF Split
<1>4. LockedOut' = (accounts' \ profiles') \ SigningUp'
  <2>1. Split'
    BY <1>1, PeopleSplit, PTL
  <2> QED
    BY <2>1 DEF Split
<1> SUFFICES ASSUME TRUE
             PROVE  /\ OnceInv'
                    /\ \/ UNCHANGED <<SigningUp, profiles, LockedOut>>
                       \/ \E p \in People : \/ SignUps!Take(p) \/ SignUps!Refuse(p)
                                            \/ SignUps!Deliver(p)
                       \/ \E some \in SUBSET SigningUp : SignUps!Lose(some)
  BY DEF SignUps!Next, SignUps!vars
<1>5. ASSUME NEW w \in Workers, NEW b \in Browsers, NEW p \in People,
             CreateUser(b, w, p)
      PROVE  OnceInv' /\ (SignUps!Take(p) \/ SignUps!Refuse(p))
  <2>1. /\ p \notin accounts /\ accounts' = accounts \union {p}
        /\ profiles' = profiles /\ Serves(w)
    BY <1>5 DEF CreateUser
  <2>2. p \in SignUps!New
    BY <1>3, <2>1 DEF SignUps!New
  <2>3. CASE signing' = signing
    <3>1. SigningUp' = SigningUp
      BY <2>3 DEF SigningUp, Serves
    <3>2. LockedOut' = LockedOut \union {p}
      BY <1>3, <1>4, <2>1, <3>1
    <3>3. OnceInv'
      BY <2>1, <2>3, <3>1 DEF OnceInv, Serves
    <3> QED
      BY <2>1, <2>2, <3>1, <3>2, <3>3 DEF SignUps!Refuse
  <2>4. CASE signing' = [signing EXCEPT ![w] = [person |-> p, browser |-> b]]
    <3>1. SigningUp' = SigningUp \union {p}
      BY <1>2, <2>1, <2>4, SignUpBegins
    <3>2. LockedOut' = LockedOut
      BY <1>3, <1>4, <2>1, <3>1
    <3>3. \A v \in Workers : ~ Serves(v) => signing[v].person # p
      BY <1>3, <2>1 DEF SigningUp
    <3>4. OnceInv'
      <4>1. SigningUp' \intersect profiles' = {}
        BY <1>3, <2>1, <3>1 DEF OnceInv
      <4>2. /\ signing'[w].person = p
            /\ \A v \in Workers : v # w =>
                 (Serves(v)' <=> Serves(v)) /\ signing'[v] = signing[v]
        BY <1>2, <2>4 DEF TypeOK, Serves
      <4> QED
        BY <3>3, <4>1, <4>2 DEF OnceInv
    <3> QED
      BY <2>1, <2>2, <3>1, <3>2, <3>4 DEF SignUps!Take
  <2> QED
    BY <1>5, <2>3, <2>4 DEF CreateUser
<1>6. ASSUME NEW w \in Workers, ~ Serves(w), signing' = [signing EXCEPT ![w] = NoSign],
             accounts' = accounts,
             profiles' \in {profiles, profiles \union {signing[w].person}}
      PROVE  /\ OnceInv'
             /\ \/ \E p \in People : SignUps!Deliver(p)
                \/ \E some \in SUBSET SigningUp : SignUps!Lose(some)
  <2> DEFINE p == signing[w].person
  <2>1. p \in SigningUp /\ p \in People /\ p \in accounts /\ p \notin profiles
    BY <1>3, <1>6 DEF SigningUp, OnceInv
  <2>2. SigningUp' = SigningUp \ {p}
    BY <1>2, <1>6, SignUpEnds
  <2>3. OnceInv'
    <3>1. SigningUp' \intersect profiles' = {}
      BY <1>6, <2>2 DEF OnceInv
    <3>2. /\ Serves(w)'
          /\ \A v \in Workers : v # w =>
               (Serves(v)' <=> Serves(v)) /\ signing'[v] = signing[v]
      BY <1>2, <1>6 DEF TypeOK, Serves
    <3> QED
      BY <3>1, <3>2 DEF OnceInv
  <2> HIDE DEF p
  <2>4. CASE profiles' = profiles
    <3>1. LockedOut' = LockedOut \union {p}
      BY <1>3, <1>4, <1>6, <2>1, <2>2, <2>4
    <3>2. SignUps!Lose({p})
      BY <2>2, <2>4, <3>1 DEF SignUps!Lose
    <3> QED
      BY <2>1, <2>3, <3>2
  <2>5. CASE profiles' = profiles \union {p}
    <3>1. LockedOut' = LockedOut
      BY <1>3, <1>4, <1>6, <2>1, <2>2, <2>5
    <3>2. SignUps!Deliver(p)
      BY <2>1, <2>2, <2>5, <3>1 DEF SignUps!Deliver
    <3> QED
      BY <2>1, <2>3, <3>2
  <2> QED
    BY <1>6, <2>4, <2>5 DEF p
<1>7. ASSUME UNCHANGED <<signing, profiles, accounts>>
      PROVE  OnceInv' /\ UNCHANGED <<SigningUp, profiles, LockedOut>>
  BY <1>7 DEF OnceInv, SigningUp, LockedOut, Serves
<1>8. ASSUME NEW w \in Workers, AddUser(w)
      PROVE  /\ OnceInv'
             /\ \/ \E p \in People : SignUps!Deliver(p)
                \/ \E some \in SUBSET SigningUp : SignUps!Lose(some)
  BY <1>6, <1>8 DEF AddUser
<1>9. ASSUME NEW w \in Workers, Restart(w)
      PROVE  /\ OnceInv'
             /\ \/ UNCHANGED <<SigningUp, profiles, LockedOut>>
                \/ \E p \in People : SignUps!Deliver(p)
                \/ \E some \in SUBSET SigningUp : SignUps!Lose(some)
  <2>1. CASE Serves(w)
    <3>1. signing' = signing
      BY <1>2, <1>9, <2>1 DEF Restart, Serves, TypeOK
    <3> QED
      BY <1>7, <1>9, <3>1 DEF Restart
  <2>2. CASE ~ Serves(w)
    BY <1>6, <1>9, <2>2 DEF Restart
  <2> QED
    BY <2>1, <2>2
<1>10. ASSUME NEW w \in Workers, NEW b \in Browsers,
              \/ \E p \in People : Login(b, w, p)
              \/ Logout(b, w) \/ Author(b, w)
       PROVE  UNCHANGED <<signing, profiles, accounts>>
  BY <1>10 DEF Login, Logout, Author
<1> QED
  BY <1>5, <1>7, <1>8, <1>9, <1>10 DEF Next, vars

\* Sign-ups implement Delivery: whoever begins to sign up does it once, ends
\* with a document or without one, and stays so, whatever fails in between and
\* whoever logs in or restarts.
THEOREM SignUpRefinement == Spec => SignedUpOnce
<1>1. Init => OnceInv /\ SignUps!Init
  <2> SUFFICES ASSUME Init PROVE OnceInv /\ SignUps!Init
    OBVIOUS
  <2>1. \A w \in Workers : Serves(w)
    BY DEF Init, Serves
  <2>2. SigningUp = {} /\ LockedOut = {} /\ profiles = {}
    BY <2>1 DEF Init, SigningUp, LockedOut
  <2> QED
    BY <2>1, <2>2 DEF OnceInv, SignUps!Init
<1>2. Inv /\ OnceInv /\ [Next]_vars => Inv' /\ OnceInv' /\ [SignUps!Next]_(SignUps!vars)
  BY InvStep, OnceStep
<1> QED
  BY <1>1, <1>2, InvInit, PTL DEF Spec, SignedUpOnce, SignUps!Spec
=============================================================================
