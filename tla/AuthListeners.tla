---------------------------- MODULE AuthListeners ----------------------------
(***************************************************************************)
(* Who is signed in on a phone, and the auth listeners of Firebase that    *)
(* the screens of the app register and never remove.                       *)
(*                                                                         *)
(* FIRAuth calls a listener asynchronously on the main thread: once after  *)
(* its registration, and again whenever the user signed in has another uid *)
(* than the one it was called with last, or has signed out.  It keeps the  *)
(* block, and with it the screen the block refers to, until it is removed. *)
(***************************************************************************)
EXTENDS Naturals, Sequences

CONSTANTS Users,       \* Firebase users of the phone
          Verified,    \* those whose email address is verified
          NoUser,      \* nobody is signed in
          Never,       \* the listener has not been called yet
          MaxSignIns   \* bound on the sign-ins

ASSUME UsersAssumption ==
  /\ Verified \subseteq Users
  /\ NoUser \notin Users
  /\ Never \notin Users \union {NoUser}
  /\ MaxSignIns \in Nat

VARIABLES signedIn,    \* current user of FIRAuth
          atHome,      \* the tabs are shown, not the login screen
          told,        \* listener -> user it was called with last
          signIns      \* number of sign-ins so far

authVars == <<signedIn, atHome, told, signIns>>

MaybeUser == Users \union {NoUser}

-----------------------------------------------------------------------------
\* Faulty variant: the block is registered as an ID token listener, which is
\* called again for the same user when the token is refreshed.
DueOnRefresh(i) == signedIn # NoUser \/ told[i] # signedIn

\* A call of listener i is waiting in the main queue.
Due(i) == told[i] # signedIn

\* addStateDidChangeListener: the listener is registered, its first call due.
AddListener == told' = Append(told, Never)

\* The call itself; the block finds the user signed in now.
Called(i) ==
  /\ Due(i)
  /\ told' = [told EXCEPT ![i] = signedIn]
  /\ UNCHANGED <<signedIn, atHome, signIns>>

\* A user whose address is not verified is signed in all the same; only the
\* way to the tabs stays closed.
LoginClick(u) ==
  /\ ~ atHome
  /\ signIns < MaxSignIns
  /\ signedIn' = u
  /\ atHome' = (u \in Verified)
  /\ signIns' = signIns + 1
  /\ UNCHANGED told

logOutPressed ==
  /\ atHome
  /\ signedIn' = NoUser
  /\ atHome' = FALSE
  /\ UNCHANGED <<told, signIns>>

\* The app is killed or crashes.  The listeners are gone, the user is kept by
\* Firebase on the phone, and the app starts on its welcome screen again.
Relaunch ==
  /\ told' = <<>>
  /\ atHome' = FALSE
  /\ UNCHANGED <<signedIn, signIns>>

AuthInit ==
  /\ signedIn = NoUser
  /\ atHome = FALSE
  /\ told = <<>>
  /\ signIns = 0

AuthTypeOK ==
  /\ signedIn \in MaybeUser
  /\ atHome \in BOOLEAN
  /\ told \in Seq(MaybeUser \union {Never})
  /\ signIns \in 0 .. MaxSignIns
=============================================================================
