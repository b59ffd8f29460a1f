--------------------------- MODULE SessionProofs ---------------------------
(***************************************************************************)
(* A login has at most one usable refresh token, and who is signed in      *)
(* stays signed in: proofs of OneLiveSession and StaysSignedIn for every   *)
(* number of requests, accounts, sessions and tabs, with every             *)
(* interleaving of logins, rotations, replays, logouts, password changes,  *)
(* erasures, expiries, crashes and lost answers.                           *)
(*                                                                         *)
(* OneHolder says the first in logic: a family is held by one live session *)
(* or by one call about to mint its successor, never by two.  It is        *)
(* inductive with the facts that families are sessions in use, so that a   *)
(* login opens a family that nobody holds, and that a rotation retires a   *)
(* session of the family it will mint in (FamiliesInUse).                  *)
(*                                                                         *)
(* The second follows a session from the answer that carries its token     *)
(* (AnswersOK) to the cookie (CookieOK) to the exchange that retires it    *)
(* (ExchangeOK, OneExchange): until then it is live, or its family spoilt. *)
(***************************************************************************)
EXTENDS Accounts, Browser, FiniteSetTheorems, WellFoundedInduction, TLAPS

IsSession(r) ==
    r \in [state : {r.state}, user : {r.user}, family : {r.family}, expired : {r.expired},
           proof : {r.proof}]
IsCall(a) ==
    a \in [pc : {a.pc}, op : {a.op}, user : {a.user}, member : {a.member},
           email : {a.email}, session : {a.session}, family : {a.family},
           proof : {a.proof}, step : {a.step}]

Shapes ==
    /\ sessions = [s \in Sessions |-> sessions[s]]
    /\ \A s \in Sessions : IsSession(sessions[s])
    /\ calls = [c \in Callers |-> calls[c]]
    /\ \A c \in Callers : IsCall(calls[c])

IsLive(s) == sessions[s].state = "live"
InUse(f) == f \in Sessions /\ sessions[f].state # "unused"

FamiliesInUse ==
    /\ \A s \in Sessions :
          sessions[s].state \in {"live", "revoked"} => InUse(sessions[s].family)
    /\ \A c \in Callers : At(c, "mint") => InUse(calls[c].family)
    /\ \A c \in Callers : At(c, "retire") =>
          /\ InUse(calls[c].session)
          /\ InUse(calls[c].family)
          /\ IsLive(calls[c].session) => sessions[calls[c].session].family = calls[c].family

OneHolder ==
    /\ \A s, t \in Sessions :
          IsLive(s) /\ IsLive(t) /\ sessions[s].family = sessions[t].family => s = t
    /\ \A c, d \in Callers :
          At(c, "mint") /\ At(d, "mint") /\ calls[c].family = calls[d].family => c = d
    /\ \A s \in Sessions, c \in Callers :
          IsLive(s) /\ At(c, "mint") => sessions[s].family # calls[c].family

SessionsInv == Shapes /\ FamiliesInUse /\ OneHolder

LEMMA IdleCall == IsCall(Idle) /\ Idle.pc = "idle"
  BY DEF IsCall, Idle

LEMMA SessionsInvInit == AccountsInit => SessionsInv
<1> SUFFICES ASSUME AccountsInit PROVE SessionsInv
  OBVIOUS
<1>1. /\ sessions = [s \in Sessions |-> NoSession("unused")]
      /\ calls = [c \in Callers |-> Idle]
  BY DEF AccountsInit
<1>2. IsSession(NoSession("unused")) /\ NoSession("unused").state = "unused"
  BY DEF IsSession, NoSession
<1> QED
  BY <1>1, <1>2, IdleCall DEF SessionsInv, Shapes, FamiliesInUse, OneHolder, IsLive, At

(***************************************************************************)
(* Most steps give nobody anything to hold: the sessions stay, are revoked *)
(* or deleted, and the call goes on to something else than a rotation.     *)
(***************************************************************************)
Shrinks ==
    /\ sessions' = [s \in Sessions |-> sessions'[s]]
    /\ \A s \in Sessions :
          /\ IsSession(sessions'[s])
          /\ \/ sessions'[s].state = "deleted"
             \/ /\ sessions'[s].family = sessions[s].family
                /\ \/ sessions'[s].state = sessions[s].state
                   \/ sessions[s].state = "live" /\ sessions'[s].state = "revoked"

QuietCall(c) ==
    \/ UNCHANGED calls
    \/ \E a : /\ calls' = [calls EXCEPT ![c] = a]
              /\ IsCall(a) /\ a.pc \notin {"mint", "retire"}

LEMMA QuietSteps ==
  ASSUME SessionsInv, NEW c \in Callers, Shrinks, QuietCall(c)
  PROVE  SessionsInv'
<1>1. /\ calls' = [d \in Callers |-> calls'[d]]
      /\ \A d \in Callers :
            /\ IsCall(calls'[d])
            /\ calls'[d].pc \in {"mint", "retire"} => calls'[d] = calls[d]
  <2>1. CASE UNCHANGED calls
    BY <2>1 DEF SessionsInv, Shapes
  <2>2. CASE ~UNCHANGED calls
    <3>1. PICK a : /\ calls' = [calls EXCEPT ![c] = a]
                   /\ IsCall(a) /\ a.pc \notin {"mint", "retire"}
      BY <2>2 DEF QuietCall
    <3>2. calls'[c] = a /\ \A d \in Callers \ {c} : calls'[d] = calls[d]
      BY <3>1 DEF SessionsInv, Shapes
    <3> QED
      BY <3>1, <3>2 DEF SessionsInv, Shapes
  <2> QED
    BY <2>1, <2>2
<1>2. Shapes'
  BY <1>1 DEF Shapes, Shrinks, IsSession, IsCall
<1>3. \A s \in Sessions :
         /\ IsLive(s)' => IsLive(s) /\ sessions'[s].family = sessions[s].family
         /\ InUse(s) => InUse(s)'
  BY DEF Shrinks, IsLive, InUse
<1>4. FamiliesInUse'
  <2>1. \A s \in Sessions : (sessions[s].state \in {"live", "revoked"} => InUse(sessions[s].family))'
    <3> SUFFICES ASSUME NEW s \in Sessions, sessions'[s].state \in {"live", "revoked"}
                 PROVE  InUse(sessions[s].family)'
      OBVIOUS
    <3>1. /\ sessions'[s].family = sessions[s].family
          /\ sessions[s].state \in {"live", "revoked"}
      BY DEF Shrinks
    <3>2. PICK f : f = sessions[s].family /\ InUse(f)
      BY <3>1 DEF SessionsInv, FamiliesInUse
    <3> QED
      BY <3>1, <3>2, <1>3 DEF InUse
  <2>2. \A d \in Callers : (At(d, "mint") => InUse(calls[d].family))'
    BY <1>1, <1>3 DEF SessionsInv, FamiliesInUse, InUse, At
  <2>3. \A d \in Callers : (At(d, "retire") =>
          /\ InUse(calls[d].session)
          /\ InUse(calls[d].family)
          /\ IsLive(calls[d].session) => sessions[calls[d].session].family = calls[d].family)'
    BY <1>1, <1>3 DEF SessionsInv, FamiliesInUse, InUse, At
  <2> QED
    BY <2>1, <2>2, <2>3 DEF FamiliesInUse
<1>5. OneHolder'
  BY <1>1, <1>3 DEF SessionsInv, OneHolder, At
<1> QED
  BY <1>2, <1>4, <1>5 DEF SessionsInv

LEMMA KeptShrinks ==
  ASSUME SessionsInv, UNCHANGED sessions PROVE Shrinks
  BY DEF SessionsInv, Shapes, Shrinks

LEMMA RevokeShrinks ==
  ASSUME SessionsInv, NEW S, Revoke(S)
  PROVE  /\ Shrinks
         /\ \A s \in S \cap Sessions : ~IsLive(s)'
<1>1. \A s \in Sessions :
         sessions'[s] = IF s \in S /\ sessions[s].state = "live"
                        THEN [sessions[s] EXCEPT !.state = "revoked"] ELSE sessions[s]
  BY DEF Revoke
<1>2. ASSUME NEW r, IsSession(r), NEW q, q = [r EXCEPT !.state = "revoked"]
      PROVE  IsSession(q) /\ q.state = "revoked" /\ q.family = r.family
  BY <1>2 DEF IsSession
<1>3. sessions' = [s \in Sessions |-> sessions'[s]]
  BY DEF Revoke
<1> QED
  BY <1>1, <1>2, <1>3 DEF SessionsInv, Shapes, Shrinks, IsLive

LEMMA EndQuiet ==
  ASSUME NEW c, End(c) PROVE QuietCall(c)
  BY IdleCall DEF End, Continue, QuietCall

LEMMA GotoQuiet ==
  ASSUME SessionsInv, NEW c \in Callers, NEW pc, pc \notin {"mint", "retire"}, Goto(c, pc)
  PROVE  QuietCall(c)
<1> DEFINE a == [calls[c] EXCEPT !.pc = pc]
<1>1. IsCall(a) /\ a.pc = pc
  BY DEF SessionsInv, Shapes, IsCall
<1> HIDE DEF a
<1> QED
  BY <1>1 DEF Goto, Continue, QuietCall, a

(***************************************************************************)
(* Rotation and login.                                                     *)
(***************************************************************************)
LEMMA FreshIsIn ==
  ASSUME NEW S, S \subseteq Nat, S # {}
  PROVE  Fresh(S) \in S
<1>1. PICK i \in S : \A j \in S : <<j, i>> \notin OpToRel(<, Nat)
  BY WFMin, NatLessThanWellFounded, Zenon
<1>2. \A j \in S : i <= j
  <2> SUFFICES ASSUME NEW j \in S PROVE i <= j
    OBVIOUS
  <2>1. i \in Nat /\ j \in Nat
    OBVIOUS
  <2>2. ~(j < i)
    BY <1>1, <2>1, Zenon DEF OpToRel
  <2> QED
    BY <2>1, <2>2
<1> QED
  BY <1>2 DEF Fresh

LEMMA NewSessionIsFree ==
  ASSUME SessionsInv, Unused(sessions) # {}
  PROVE  FreshSession \in Sessions /\ sessions[FreshSession].state = "unused"
<1>1. Unused(sessions) \subseteq Sessions /\ Sessions \subseteq Nat
  BY AccountsAssumption DEF SessionsInv, Shapes, Unused, Sessions
<1>2. Unused(sessions) \subseteq Nat
  BY <1>1
<1>3. FreshSession \in Unused(sessions)
  BY <1>2, FreshIsIn DEF FreshSession
<1> QED
  BY <1>1, <1>3 DEF Unused

LEMMA CreateSessionFacts ==
  ASSUME SessionsInv, Unused(sessions) # {}, NEW u, NEW f, NEW p, CreateSession(u, f, p)
  PROVE  /\ sessions' = [s \in Sessions |-> sessions'[s]]
         /\ \A s \in Sessions : IsSession(sessions'[s])
         /\ sessions'[FreshSession].state = "live" /\ sessions'[FreshSession].family = f
         /\ sessions'[FreshSession].expired = FALSE
         /\ \A s \in Sessions \ {FreshSession} : sessions'[s] = sessions[s]
<1> DEFINE n == FreshSession
           r == [state |-> "live", user |-> u, family |-> f, expired |-> FALSE, proof |-> p]
<1>1. n \in Sessions
  BY NewSessionIsFree
<1>2. IsSession(r) /\ r.state = "live" /\ r.family = f /\ r.expired = FALSE
  BY DEF IsSession
<1>3. sessions' = [sessions EXCEPT ![n] = r]
  BY DEF CreateSession
<1> HIDE DEF n, r
<1>4. sessions'[n] = r /\ \A s \in Sessions \ {n} : sessions'[s] = sessions[s]
  BY <1>1, <1>3 DEF SessionsInv, Shapes
<1>5. sessions' = [s \in Sessions |-> sessions'[s]]
  BY <1>3 DEF SessionsInv, Shapes
<1>6. \A s \in Sessions : IsSession(sessions'[s])
  BY <1>2, <1>4 DEF SessionsInv, Shapes
<1> QED
  BY <1>2, <1>4, <1>5, <1>6 DEF n

(* A new session of family f when nobody holds f any more.                  *)
LEMMA NewHolder ==
  ASSUME SessionsInv, NEW c \in Callers, NEW u, NEW f, NEW p,
         Unused(sessions) # {}, CreateSession(u, f, p), End(c),
         InUse(f) \/ f = FreshSession,
         \A s \in Sessions : IsLive(s) => sessions[s].family # f,
         \A d \in Callers \ {c} : At(d, "mint") => calls[d].family # f
  PROVE  SessionsInv'
<1> PICK n : n = FreshSession
  OBVIOUS
<1>1. n \in Sessions /\ sessions[n].state = "unused"
  BY NewSessionIsFree
<1>2. /\ sessions' = [s \in Sessions |-> sessions'[s]]
      /\ \A s \in Sessions : IsSession(sessions'[s])
      /\ sessions'[n].state = "live" /\ sessions'[n].family = f
      /\ \A s \in Sessions \ {n} : sessions'[s] = sessions[s]
  BY CreateSessionFacts
<1>3. /\ calls' = [d \in Callers |-> calls'[d]]
      /\ \A d \in Callers : IsCall(calls'[d])
      /\ calls'[c].pc = "idle"
      /\ \A d \in Callers \ {c} : calls'[d] = calls[d]
  BY IdleCall DEF SessionsInv, Shapes, End, Continue
<1>4. Shapes'
  BY <1>2, <1>3 DEF Shapes, IsSession, IsCall
<1>5. \A g : InUse(g) => InUse(g)' /\ g # n
  BY <1>1, <1>2 DEF InUse
<1>6. InUse(f)'
  BY <1>1, <1>2, <1>5 DEF InUse
<1>7. FamiliesInUse'
  <2>1. \A s \in Sessions : (sessions[s].state \in {"live", "revoked"} => InUse(sessions[s].family))'
    <3> SUFFICES ASSUME NEW s \in Sessions, sessions'[s].state \in {"live", "revoked"}
                 PROVE  InUse(sessions[s].family)'
      OBVIOUS
    <3>1. CASE s = n
      BY <3>1, <1>2, <1>6 DEF InUse
    <3>2. CASE s # n
      <4>1. sessions'[s] = sessions[s]
        BY <3>2, <1>2
      <4>2. PICK g : g = sessions[s].family /\ InUse(g)
        BY <4>1 DEF SessionsInv, FamiliesInUse
      <4> QED
        BY <4>1, <4>2, <1>5 DEF InUse
    <3> QED
      BY <3>1, <3>2
  <2>2. \A d \in Callers : (At(d, "mint") => InUse(calls[d].family))'
    BY <1>3, <1>5 DEF SessionsInv, FamiliesInUse, InUse, At
  <2>3. \A d \in Callers : (At(d, "retire") =>
          /\ InUse(calls[d].session)
          /\ InUse(calls[d].family)
          /\ IsLive(calls[d].session) => sessions[calls[d].session].family = calls[d].family)'
    BY <1>2, <1>3, <1>5 DEF SessionsInv, FamiliesInUse, InUse, IsLive, At
  <2> QED
    BY <2>1, <2>2, <2>3 DEF FamiliesInUse
<1>8. OneHolder'
  BY <1>2, <1>3 DEF SessionsInv, OneHolder, IsLive, At
<1> QED
  BY <1>4, <1>7, <1>8 DEF SessionsInv

LEMMA StartSessionKeeps ==
  ASSUME SessionsInv, NEW c \in Callers, StartSession(c)
  PROVE  SessionsInv'
<1>1. ~InUse(FreshSession)
  BY NewSessionIsFree DEF StartSession, InUse
<1>2. /\ \A s \in Sessions : IsLive(s) => sessions[s].family # FreshSession
      /\ \A d \in Callers : At(d, "mint") => calls[d].family # FreshSession
  BY <1>1 DEF SessionsInv, FamiliesInUse, IsLive
<1> QED
  BY <1>2, NewHolder DEF StartSession

LEMMA MintKeeps ==
  ASSUME SessionsInv, NEW c \in Callers, Mint(c)
  PROVE  SessionsInv'
<1>1. At(c, "mint") /\ InUse(calls[c].family)
  BY DEF Mint, SessionsInv, FamiliesInUse
<1>2. /\ \A s \in Sessions : IsLive(s) => sessions[s].family # calls[c].family
      /\ \A d \in Callers \ {c} : At(d, "mint") => calls[d].family # calls[c].family
  BY <1>1 DEF SessionsInv, OneHolder
<1> QED
  BY <1>1, <1>2, NewHolder DEF Mint
(* Of several rotations of one session, the one that retires it mints.      *)
LEMMA RetireKeeps ==
  ASSUME SessionsInv, NEW c \in Callers, Retire(c)
  PROVE  SessionsInv'
<1> PICK s, f : s = calls[c].session /\ f = calls[c].family
  OBVIOUS
<1>1. /\ At(c, "retire") /\ Revoke({s})
      /\ Goto(c, IF IsLive(s) THEN "mint" ELSE "kill")
  BY DEF Retire, WonRetirement, IsLive
<1>2. /\ InUse(s) /\ InUse(f)
      /\ IsLive(s) => sessions[s].family = f
  BY <1>1 DEF SessionsInv, FamiliesInUse
<1>3. Shrinks /\ ~IsLive(s)'
  BY <1>1, <1>2, RevokeShrinks DEF InUse
<1>4. CASE ~IsLive(s)
  BY <1>1, <1>3, <1>4, GotoQuiet, QuietSteps
<1>5. CASE IsLive(s)
  <2> DEFINE a == [calls[c] EXCEPT !.pc = "mint"]
  <2>1. IsCall(a) /\ a.pc = "mint" /\ a.family = f
    BY DEF SessionsInv, Shapes, IsCall
  <2>2. calls' = [calls EXCEPT ![c] = a]
    BY <1>1, <1>5 DEF Goto, Continue
  <2> HIDE DEF a
  <2>3. /\ calls' = [d \in Callers |-> calls'[d]]
        /\ calls'[c] = a
        /\ \A d \in Callers \ {c} : calls'[d] = calls[d]
    BY <2>2 DEF SessionsInv, Shapes
  <2>4. Shapes'
    BY <1>3, <2>1, <2>3 DEF SessionsInv, Shapes, Shrinks, IsSession, IsCall
  <2>5. \A t \in Sessions :
           /\ IsLive(t)' => t # s /\ IsLive(t) /\ sessions'[t].family = sessions[t].family
           /\ sessions'[t].state \in {"live", "revoked"} =>
                 /\ sessions[t].state \in {"live", "revoked"}
                 /\ sessions'[t].family = sessions[t].family
           /\ InUse(t) => InUse(t)'
    BY <1>2, <1>3 DEF Shrinks, IsLive, InUse
  <2>6. \A t \in Sessions \ {s} : IsLive(t) => sessions[t].family # f
    BY <1>2, <1>5 DEF SessionsInv, OneHolder, InUse
  <2>7. \A d \in Callers : At(d, "mint") => calls[d].family # f
    BY <1>2, <1>5 DEF SessionsInv, OneHolder, InUse
  <2>8. FamiliesInUse'
    <3>1. \A t \in Sessions : (sessions[t].state \in {"live", "revoked"} => InUse(sessions[t].family))'
      <4> SUFFICES ASSUME NEW t \in Sessions, sessions'[t].state \in {"live", "revoked"}
                   PROVE  InUse(sessions[t].family)'
        OBVIOUS
      <4>1. PICK g : g = sessions[t].family /\ g = sessions'[t].family /\ InUse(g)
        BY <2>5 DEF SessionsInv, FamiliesInUse
      <4> QED
        BY <4>1, <2>5 DEF InUse
    <3>2. \A d \in Callers : (At(d, "mint") => InUse(calls[d].family))'
      BY <1>2, <2>1, <2>3, <2>5 DEF SessionsInv, FamiliesInUse, InUse, At
    <3>3. \A d \in Callers : (At(d, "retire") =>
            /\ InUse(calls[d].session)
            /\ InUse(calls[d].family)
            /\ IsLive(calls[d].session) => sessions[calls[d].session].family = calls[d].family)'
      BY <2>1, <2>3, <2>5 DEF SessionsInv, FamiliesInUse, InUse, At
    <3> QED
      BY <3>1, <3>2, <3>3 DEF FamiliesInUse
  <2>9. OneHolder'
    BY <2>1, <2>3, <2>5, <2>6, <2>7 DEF SessionsInv, OneHolder, At
  <2> QED
    BY <2>4, <2>8, <2>9 DEF SessionsInv
<1> QED
  BY <1>4, <1>5

LEMMA PresentFacts ==
  ASSUME SessionsInv, NEW c \in Callers, NEW s \in Sessions, PresentToken(c, s)
  PROVE  /\ UNCHANGED sessions /\ InUse(s)
         /\ \E a : /\ Continue(c, a) /\ IsCall(a)
                  /\ a.session = s /\ a.family = sessions[s].family
                  /\ \/ a.pc = "kill" /\ ~IsLive(s)
                     \/ a.pc = "retireExpired" /\ IsLive(s) /\ sessions[s].expired
                     \/ a.pc = "retire" /\ IsLive(s)
<1> DEFINE pc == IF sessions[s].state = "revoked" THEN "kill"
                 ELSE IF sessions[s].expired THEN "retireExpired" ELSE "retire"
           a == [Idle EXCEPT !.pc = pc, !.op = "rotate", !.user = sessions[s].user,
                             !.session = s, !.family = sessions[s].family,
                             !.proof = sessions[s].proof]
<1>1. UNCHANGED sessions /\ sessions[s].state \in {"live", "revoked"}
  BY DEF PresentToken
<1>2. \/ pc = "kill" /\ ~IsLive(s)
      \/ pc = "retireExpired" /\ IsLive(s) /\ sessions[s].expired
      \/ pc = "retire" /\ IsLive(s)
  <2>1. CASE sessions[s].state = "revoked"
    BY <2>1 DEF IsLive
  <2>2. CASE sessions[s].state = "live"
    <3>1. sessions[s].state # "revoked"
      BY <2>2
    <3> QED
      BY <2>2, <3>1, Zenon DEF IsLive
  <2> QED
    BY <1>1, <2>1, <2>2, Zenon
<1> HIDE DEF pc
<1>3. IsCall(a) /\ a.pc = pc /\ a.session = s /\ a.family = sessions[s].family
  BY DEF Idle, IsCall
<1>4. Continue(c, a)
  BY DEF PresentToken, pc
<1>5. InUse(s)
  BY <1>1 DEF InUse
<1> HIDE DEF a
<1>6. PICK b : b = a
  OBVIOUS
<1>7. /\ Continue(c, b) /\ IsCall(b) /\ b.session = s /\ b.family = sessions[s].family
      /\ \/ b.pc = "kill" /\ ~IsLive(s)
         \/ b.pc = "retireExpired" /\ IsLive(s) /\ sessions[s].expired
         \/ b.pc = "retire" /\ IsLive(s)
  BY <1>2, <1>3, <1>4, <1>6
<1> QED
  BY <1>1, <1>5, <1>7

LEMMA PresentTokenKeeps ==
  ASSUME SessionsInv, NEW c \in Callers, NEW s \in Sessions, PresentToken(c, s)
  PROVE  SessionsInv'
<1>1. UNCHANGED sessions /\ InUse(s) /\ InUse(sessions[s].family)
  BY PresentFacts DEF SessionsInv, FamiliesInUse, PresentToken
<1> PICK f : f = sessions[s].family
  OBVIOUS
<1>2. PICK a : /\ Continue(c, a) /\ IsCall(a)
               /\ a.session = s /\ a.family = f /\ a.pc # "mint"
  BY PresentFacts
<1>3. /\ calls' = [d \in Callers |-> calls'[d]]
      /\ calls'[c] = a
      /\ \A d \in Callers \ {c} : calls'[d] = calls[d]
  BY <1>2 DEF SessionsInv, Shapes, Continue
<1>4. Shapes'
  BY <1>1, <1>2, <1>3 DEF SessionsInv, Shapes, IsSession, IsCall
<1>5. FamiliesInUse'
  BY <1>1, <1>2, <1>3 DEF SessionsInv, FamiliesInUse, InUse, IsLive, At
<1>6. OneHolder'
  BY <1>1, <1>2, <1>3 DEF SessionsInv, OneHolder, IsLive, At
<1> QED
  BY <1>4, <1>5, <1>6 DEF SessionsInv

(***************************************************************************)
(* Every other step is quiet.                                              *)
(***************************************************************************)
LEMMA NewCallQuiet ==
  ASSUME NEW c, NEW a, Continue(c, a), IsCall(a), a.pc \notin {"mint", "retire"}
  PROVE  QuietCall(c)
  BY DEF Continue, QuietCall

LEMMA SessionStepKeeps ==
  ASSUME SessionsInv, NEW c \in Callers, SessionStep(c)
  PROVE  SessionsInv'
<1>1. CASE RetireExpired(c)
  BY <1>1, RevokeShrinks, EndQuiet, QuietSteps DEF RetireExpired
<1>2. CASE KillFamily(c)
  BY <1>2, RevokeShrinks, EndQuiet, QuietSteps DEF KillFamily
<1>3. CASE SetPassword(c)
  <2>1. Shrinks
    BY <1>3, KeptShrinks DEF SetPassword
  <2>2. ASSUME NEW n PROVE LET a == [calls[c] EXCEPT !.pc = "revokeAll", !.proof = n] IN
               IsCall(a) /\ a.pc = "revokeAll"
    <3>1. IsCall(calls[c])
      BY DEF SessionsInv, Shapes
    <3> QED
      BY <3>1 DEF IsCall
  <2>3. QuietCall(c)
    BY <1>3, <2>2, EndQuiet, NewCallQuiet DEF SetPassword
  <2> QED
    BY <2>1, <2>3, QuietSteps
<1>4. CASE RevokeAll(c)
  BY <1>4, RevokeShrinks, EndQuiet, GotoQuiet, QuietSteps DEF RevokeAll
<1>5. CASE ClearTokens(c)
  BY <1>5, KeptShrinks, GotoQuiet, QuietSteps DEF ClearTokens
<1>6. CASE IssueToken(c)
  BY <1>6, KeptShrinks, EndQuiet, QuietSteps DEF IssueToken
<1>7. CASE MarkVerified(c)
  BY <1>7, KeptShrinks, EndQuiet, GotoQuiet, QuietSteps DEF MarkVerified
<1> QED
  BY <1>1, <1>2, <1>3, <1>4, <1>5, <1>6, <1>7, StartSessionKeeps, RetireKeeps, MintKeeps
  DEF SessionStep

(* A request that is not of a rotation begins with a step of its own.       *)
Asks(c) ==
    \/ \E u \in Users : Login(c, u) \/ ChangePassword(c, u)
    \/ \E kind \in Kinds, u \in Users : RequestToken(c, kind, u)
    \/ \E t \in Tokens : Consume(c, t)

LEMMA AskFacts ==
  ASSUME NEW c, Asks(c)
  PROVE  /\ UNCHANGED sessions
         /\ \E a : /\ Continue(c, a) /\ IsCall(a)
                  /\ a.pc \in {"start", "set", "clear", "verify", "recheck"}
<1>1. ASSUME NEW u \in Users, Login(c, u)
      PROVE  UNCHANGED sessions /\ \E a : Continue(c, a) /\ IsCall(a) /\ a.pc = "start"
  <2>1. \A p : LET a == [Idle EXCEPT !.pc = "start", !.op = "login", !.user = u, !.proof = p] IN
           IsCall(a) /\ a.pc = "start"
    BY DEF Idle, IsCall
  <2> QED
    BY <1>1, <2>1 DEF Login
<1>2. ASSUME NEW u \in Users, ChangePassword(c, u)
      PROVE  UNCHANGED sessions /\ \E a : Continue(c, a) /\ IsCall(a) /\ a.pc = "set"
  <2>1. LET a == [Idle EXCEPT !.pc = "set", !.op = "change", !.user = u] IN
           IsCall(a) /\ a.pc = "set"
    BY DEF Idle, IsCall
  <2> QED
    BY <1>2, <2>1 DEF ChangePassword
<1>3. ASSUME NEW u, NEW kind, RequestToken(c, kind, u)
      PROVE  UNCHANGED sessions /\ \E a : Continue(c, a) /\ IsCall(a) /\ a.pc = "clear"
  <2>1. \A e : LET a == [Idle EXCEPT !.pc = "clear", !.op = kind, !.user = u, !.email = e] IN
           IsCall(a) /\ a.pc = "clear"
    BY DEF Idle, IsCall
  <2> QED
    BY <1>3, <2>1 DEF RequestToken
<1>4. ASSUME NEW t \in Tokens, Consume(c, t)
      PROVE  /\ UNCHANGED sessions
             /\ \E a : Continue(c, a) /\ IsCall(a) /\ a.pc \in {"set", "verify", "recheck"}
  <2> DEFINE kind == tokens[t].kind
             pc == AfterConsume(kind)
             op == IF kind = "invite" THEN "accept" ELSE kind
             u == IF kind = "invite" THEN None ELSE tokens[t].about
             m == IF kind = "invite" THEN tokens[t].about ELSE None
             e == tokens[t].email
             a == [Idle EXCEPT !.pc = pc, !.op = op, !.user = u, !.member = m, !.email = e]
  <2>1. Continue(c, a) /\ UNCHANGED sessions
    BY <1>4 DEF Consume
  <2>2. pc \in {"set", "verify", "recheck"}
    BY DEF AfterConsume
  <2> HIDE DEF pc, op, u, m, e
  <2>3. IsCall(a) /\ a.pc = pc
    BY DEF Idle, IsCall
  <2> HIDE DEF a
  <2> QED
    BY <2>1, <2>2, <2>3
<1> QED
  BY <1>1, <1>2, <1>3, <1>4 DEF Asks

LEMMA AskKeeps ==
  ASSUME SessionsInv, NEW c \in Callers, Asks(c)
  PROVE  SessionsInv'
<1>1. PICK a : Continue(c, a) /\ IsCall(a) /\ a.pc \notin {"mint", "retire"}
  BY AskFacts
<1> QED
  BY <1>1, AskFacts, NewCallQuiet, KeptShrinks, QuietSteps

LEMMA LogoutFacts ==
  ASSUME NEW c, NEW s \in Sessions, Logout(c, s)
  PROVE  /\ UNCHANGED sessions
         /\ \E a : /\ Continue(c, a) /\ IsCall(a)
                  /\ a.pc = "kill" /\ a.family = sessions[s].family
<1>1. \A f : LET a == [Idle EXCEPT !.pc = "kill", !.op = "rotate", !.family = f] IN
         IsCall(a) /\ a.pc = "kill" /\ a.family = f
  BY DEF Idle, IsCall
<1> QED
  BY <1>1 DEF Logout

LEMMA LogoutKeeps ==
  ASSUME SessionsInv, NEW c \in Callers, NEW s \in Sessions, Logout(c, s)
  PROVE  SessionsInv'
<1>1. PICK a : Continue(c, a) /\ IsCall(a) /\ a.pc = "kill"
  BY LogoutFacts
<1> QED
  BY <1>1, LogoutFacts, NewCallQuiet, KeptShrinks, QuietSteps

LEMMA SessionRequestKeeps ==
  ASSUME SessionsInv, NEW c \in Callers, SessionRequest(c)
  PROVE  SessionsInv'
<1>1. ASSUME NEW kind, NEW u \in Users, RequestToken(c, kind, u) PROVE Asks(c)
  BY <1>1 DEF RequestToken, Asks, Kinds
<1> QED
  BY <1>1, AskKeeps, LogoutKeeps, PresentTokenKeeps DEF SessionRequest, Asks

LEMMA OnboardingKeeps ==
  ASSUME SessionsInv, NEW c \in Callers, OnboardingRequest(c) \/ OnboardingStep(c)
  PROVE  SessionsInv'
<1>1. ASSUME NEW e \in Emails, Register(c, e) PROVE SessionsInv'
  <2>1. LET a == [Idle EXCEPT !.pc = "find", !.op = "register", !.email = e] IN
           IsCall(a) /\ a.pc = "find"
    BY DEF Idle, IsCall
  <2> QED
    BY <1>1, <2>1, NewCallQuiet, KeptShrinks, QuietSteps DEF Register
<1>2. ASSUME NEW m \in Members, CreateInvite(c, m) PROVE SessionsInv'
  <2>1. \A e : LET a == [Idle EXCEPT !.pc = "clear", !.op = "invite", !.member = m, !.email = e] IN
           IsCall(a) /\ a.pc = "clear"
    BY DEF Idle, IsCall
  <2> QED
    BY <1>2, <2>1, NewCallQuiet, KeptShrinks, QuietSteps DEF CreateInvite
<1>3. ASSUME NEW m \in Members, RequestErasure(c, m) PROVE SessionsInv'
  <2>1. \A u : LET a == [Idle EXCEPT !.pc = "erase", !.op = "erase", !.member = m, !.user = u,
                                     !.step = 1] IN
           IsCall(a) /\ a.pc = "erase"
    BY DEF Idle, IsCall
  <2> QED
    BY <1>3, <2>1, NewCallQuiet, KeptShrinks, QuietSteps DEF RequestErasure
<1>4. CASE FindCredential(c)
  BY <1>4, KeptShrinks, EndQuiet, GotoQuiet, QuietSteps DEF FindCredential
<1>5. CASE InsertUser(c)
  <2>1. \A u : LET a == [calls[c] EXCEPT !.pc = "identity", !.user = u] IN
               IsCall(a) /\ a.pc = "identity"
    <3>1. IsCall(calls[c])
      BY DEF SessionsInv, Shapes
    <3> QED
      BY <3>1 DEF IsCall
  <2> QED
    BY <1>5, <2>1, KeptShrinks, EndQuiet, NewCallQuiet, QuietSteps DEF InsertUser
<1>6. CASE Compensate(c)
  BY <1>6, KeptShrinks, EndQuiet, QuietSteps DEF Compensate
<1>7. ASSUME NEW fails \in BOOLEAN, InsertIdentity(c, fails) PROVE SessionsInv'
  BY <1>7, KeptShrinks, GotoQuiet, QuietSteps DEF InsertIdentity
<1>8. CASE Recheck(c)
  BY <1>8, KeptShrinks, EndQuiet, GotoQuiet, QuietSteps DEF Recheck
<1>9. CASE LinkMember(c)
  BY <1>9, KeptShrinks, EndQuiet, GotoQuiet, QuietSteps DEF LinkMember
<1>10. CASE CreateMembership(c)
  BY <1>10, KeptShrinks, EndQuiet, GotoQuiet, QuietSteps DEF CreateMembership
<1>11. CASE EraseNext(c)
  <2>1. QuietCall(c)
    <3>1. ASSUME NEW n PROVE LET a == [calls[c] EXCEPT !.step = n] IN
              IsCall(a) /\ a.pc = "erase"
      <4>1. IsCall(calls[c]) /\ calls[c].pc = "erase"
        BY <1>11 DEF SessionsInv, Shapes, EraseNext, At
      <4> QED
        BY <4>1 DEF IsCall
    <3> QED
      BY <1>11, <3>1, EndQuiet, NewCallQuiet DEF EraseNext
  <2>2. Shrinks
    <3>1. \/ UNCHANGED sessions
          \/ sessions' = [s \in Sessions |-> IF sessions[s].user = calls[c].user
                             THEN NoSession("deleted") ELSE sessions[s]]
      BY <1>11 DEF EraseNext
    <3>2. IsSession(NoSession("deleted")) /\ NoSession("deleted").state = "deleted"
      BY DEF IsSession, NoSession
    <3> QED
      BY <3>1, <3>2, KeptShrinks DEF SessionsInv, Shapes, Shrinks
  <2> QED
    BY <2>1, <2>2, QuietSteps
<1> QED
  BY <1>1, <1>2, <1>3, <1>4, <1>5, <1>6, <1>7, <1>8, <1>9, <1>10, <1>11
  DEF OnboardingRequest, OnboardingStep

LEMMA StillKeepsSessions ==
  ASSUME SessionsInv, UNCHANGED <<sessions, calls>>
  PROVE  SessionsInv'
  BY DEF SessionsInv, Shapes, FamiliesInUse, OneHolder, IsLive, InUse, At, IsSession, IsCall

LEMMA ExpireSessionKeeps ==
  ASSUME SessionsInv, Expire
  PROVE  SessionsInv'
<1>1. CASE UNCHANGED sessions
  BY <1>1, StillKeepsSessions DEF Expire
<1>2. CASE ~UNCHANGED sessions
  <2>1. PICK s \in Sessions : sessions' = [sessions EXCEPT ![s].expired = TRUE]
    BY <1>2 DEF Expire
  <2>2. LET r == [sessions[s] EXCEPT !.expired = TRUE] IN
           IsSession(r) /\ r.state = sessions[s].state /\ r.family = sessions[s].family
    BY DEF SessionsInv, Shapes, IsSession
  <2>3. Shrinks
    BY <2>1, <2>2 DEF SessionsInv, Shapes, Shrinks
  <2>4. ASSUME NEW c \in Callers PROVE SessionsInv'
    BY <2>3, QuietSteps DEF Expire, QuietCall
  <2>5. CASE Callers = {}
    BY <2>3, <2>5 DEF Expire, SessionsInv, Shapes, Shrinks, FamiliesInUse, OneHolder,
                      IsLive, InUse, At, IsSession, IsCall
  <2> QED
    BY <2>4, <2>5
<1> QED
  BY <1>1, <1>2

LEMMA SessionsInvStep == SessionsInv /\ [AccountsNext]_accountsVars => SessionsInv'
<1> SUFFICES ASSUME SessionsInv, [AccountsNext]_accountsVars PROVE SessionsInv'
  OBVIOUS
<1>1. CASE UNCHANGED <<sessions, calls>>
  BY <1>1, StillKeepsSessions
<1>2. ASSUME NEW c \in Callers, Crash(c) PROVE SessionsInv'
  BY <1>2, KeptShrinks, EndQuiet, QuietSteps DEF Crash
<1>3. ASSUME NEW m \in Members, NEW e \in Emails, EditMember(m, e) PROVE SessionsInv'
  BY <1>1, <1>3 DEF EditMember
<1> QED
  BY <1>1, <1>2, <1>3, ExpireSessionKeeps, SessionStepKeeps, SessionRequestKeeps, OnboardingKeeps
  DEF AccountsNext, accountsVars

(***************************************************************************)
(* A login has at most one usable refresh token, and none while its        *)
(* rotation is between retiring one and minting the next                   *)
(* (token.service.ts, rotate).                                             *)
(***************************************************************************)
LEMMA AtMostOne ==
  ASSUME NEW S, \A x, y \in S : x = y
  PROVE  Cardinality(S) <= 1 /\ Cardinality(S) \in Nat /\ (S # {} => Cardinality(S) = 1)
<1>1. CASE S = {}
  BY <1>1, FS_EmptySet
<1>2. CASE S # {}
  <2>1. PICK x : x \in S
    BY <1>2
  <2>2. S = {x}
    BY <2>1
  <2>3. Cardinality({x}) = 1
    BY FS_Singleton
  <2>4. Cardinality(S) = 1
    BY <2>2, <2>3
  <2> QED
    BY <2>4
<1> QED
  BY <1>1, <1>2

THEOREM LoginHasOneToken == AccountsSpec => []OneLiveSession
<1>1. SessionsInv => OneLiveSession
  <2> SUFFICES ASSUME SessionsInv, NEW f \in Sessions
               PROVE  Cardinality(LiveIn(f)) + Cardinality(Minting(f)) <= 1
    BY DEF OneLiveSession
  <2>1. \A s, t \in LiveIn(f) : s = t
    BY DEF SessionsInv, OneHolder, LiveIn, IsLive
  <2>2. \A c, d \in Minting(f) : c = d
    BY DEF SessionsInv, OneHolder, Minting, At
  <2>3. LiveIn(f) = {} \/ Minting(f) = {}
    <3> SUFFICES ASSUME NEW s \in LiveIn(f), NEW c \in Minting(f) PROVE FALSE
      OBVIOUS
    <3>1. s \in Sessions /\ IsLive(s) /\ sessions[s].family = f
      BY DEF LiveIn, IsLive
    <3>2. c \in Callers /\ At(c, "mint") /\ calls[c].family = f
      BY DEF Minting
    <3> QED
      BY <3>1, <3>2 DEF SessionsInv, OneHolder
  <2>4. CASE LiveIn(f) = {}
    BY <2>2, <2>4, AtMostOne, FS_EmptySet
  <2>5. CASE Minting(f) = {}
    BY <2>1, <2>5, AtMostOne, FS_EmptySet
  <2> QED
    BY <2>3, <2>4, <2>5
<1> QED
  BY <1>1, SessionsInvInit, SessionsInvStep, PTL DEF AccountsSpec

(***************************************************************************)
(* A browser.  The cookie, every exchange of it that is under way and      *)
(* every answer on its way back name one session each; a session that is   *)
(* neither live nor of a spoilt family is held by the one exchange that    *)
(* has retired it.                                                         *)
(***************************************************************************)
IsRequest(r) ==
    /\ r \in [kind : {r.kind}, tab : {r.tab}, token : {r.token}, got : {r.got}]
    /\ r.got # None => r.got.session \in Sessions \cup {None}

Spoilt(s) == sessions[s].family \in spoilt
Unharmed(s) == IsLive(s) \/ Spoilt(s)
Exchanging(c, s) == requests[c].kind = "refresh" /\ requests[c].token = s
Answered(c, s) == requests[c].got # None /\ requests[c].got.session = s

RequestsTyped ==
    /\ requests = [c \in Callers |-> requests[c]]
    /\ \A c \in Callers : IsRequest(requests[c])

\* The session of the cookie can be exchanged, or is being exchanged.
CookieOK ==
    cookie # None =>
        /\ InUse(cookie)
        /\ Unharmed(cookie) \/ \E c \in Callers : Exchanging(c, cookie)

\* An exchange runs through the steps of a rotation of its token.
ExchangeOK(c) ==
    requests[c].kind = "refresh" =>
        /\ InUse(requests[c].token)
        /\ calls[c].pc \in {"idle", "retire", "retireExpired", "mint", "kill"}
        /\ calls[c].pc # "idle" => calls[c].family = sessions[requests[c].token].family
        /\ calls[c].pc \in {"retire", "retireExpired"} => calls[c].session = requests[c].token
        /\ calls[c].pc = "retire" => Unharmed(requests[c].token)
        /\ requests[c].got # None =>
              \/ requests[c].got.ok /\ requests[c].got.session # None
              \/ Spoilt(requests[c].token)

\* Nothing else does, and only families that are spoilt are revoked.
CallOK(c) ==
    /\ calls[c].pc \in {"retire", "retireExpired", "mint"} => requests[c].kind = "refresh"
    /\ calls[c].pc \in {"kill", "retireExpired"} => calls[c].family \in spoilt
    /\ requests[c].got # None => calls[c].pc = "idle"

OneExchange ==
    \A s \in Sessions, c, d \in Callers :
        Exchanging(c, s) /\ Exchanging(d, s) /\ c # d => Spoilt(s)

\* A session whose token is on its way to the browser is nowhere else.
AnswersOK ==
    \A s \in Sessions, c \in Callers : Answered(c, s) =>
        /\ InUse(s) /\ Unharmed(s) /\ cookie # s
        /\ \A d \in Callers : ~Exchanging(d, s) /\ (Answered(d, s) => d = c)

ExpiredOK == \A s \in Sessions : IsLive(s) /\ sessions[s].expired => Spoilt(s)

BrowserInv ==
    /\ SessionsInv
    /\ RequestsTyped /\ CookieOK /\ OneExchange /\ AnswersOK /\ ExpiredOK
    /\ \A c \in Callers : ExchangeOK(c) /\ CallOK(c)

LEMMA BrowserInvInit == AccountsInit /\ BrowserInit => BrowserInv
<1> SUFFICES ASSUME AccountsInit, BrowserInit PROVE BrowserInv
  OBVIOUS
<1>1. SessionsInv
  BY SessionsInvInit
<1>2. /\ sessions = [s \in Sessions |-> NoSession("unused")]
      /\ calls = [c \in Callers |-> Idle]
      /\ requests = [c \in Callers |-> NoRequest]
      /\ cookie = None
  BY DEF AccountsInit, BrowserInit
<1>3. IsRequest(NoRequest) /\ NoRequest.kind = "none" /\ NoRequest.got = None
  BY DEF IsRequest, NoRequest
<1>4. NoSession("unused").state = "unused"
  BY DEF NoSession
<1>5. RequestsTyped /\ CookieOK /\ OneExchange /\ AnswersOK /\ ExpiredOK
  BY <1>2, <1>3, <1>4 DEF RequestsTyped, CookieOK, OneExchange, AnswersOK, ExpiredOK,
                          Exchanging, Answered, IsLive
<1>6. \A c \in Callers : ExchangeOK(c) /\ CallOK(c)
  BY <1>2, <1>3, IdleCall DEF ExchangeOK, CallOK
<1> QED
  BY <1>1, <1>5, <1>6 DEF BrowserInv

(***************************************************************************)
(* A step of the request c leaves the other requests as they are, and      *)
(* harms no session but the one that c exchanges.                          *)
(***************************************************************************)
Frame(c) ==
    /\ cookie' = cookie /\ spoilt \subseteq spoilt'
    /\ \A d \in Callers \ {c} : calls'[d] = calls[d] /\ requests'[d] = requests[d]
    /\ \A s \in Sessions : InUse(s) =>
          /\ InUse(s)' /\ sessions'[s].family = sessions[s].family
          /\ IsLive(s) => Unharmed(s)' \/ Exchanging(c, s)
          /\ Exchanging(c, s) => Exchanging(c, s)' \/ Spoilt(s)'
    /\ \A s \in Sessions : Exchanging(c, s)' =>
          \/ Exchanging(c, s)
          \/ s = cookie /\ \A d \in Callers : Exchanging(d, s) => Spoilt(s)'
    /\ \A s \in Sessions : Answered(c, s)' =>
          \/ Answered(c, s)
          \/ ~InUse(s) /\ InUse(s)' /\ IsLive(s)'

LEMMA FrameKeeps ==
  ASSUME BrowserInv, NEW c \in Callers, Frame(c),
         SessionsInv', RequestsTyped', ExpiredOK', ExchangeOK(c)', CallOK(c)'
  PROVE  BrowserInv'
<1>1. \A s : InUse(s) => s \in Sessions
  BY DEF InUse
<1>2. \A s : InUse(s) =>
         /\ InUse(s)' /\ sessions'[s].family = sessions[s].family
         /\ Spoilt(s) => Spoilt(s)'
         /\ Unharmed(s) => Unharmed(s)' \/ Exchanging(c, s)
  BY <1>1 DEF Frame, Spoilt, Unharmed
<1>3. ASSUME NEW d \in Callers \ {c} PROVE ExchangeOK(d)' /\ CallOK(d)'
  <2>1. calls'[d] = calls[d] /\ requests'[d] = requests[d]
    BY DEF Frame
  <2>2. ExchangeOK(d) /\ CallOK(d)
    BY DEF BrowserInv
  <2>3. CallOK(d)'
    BY <2>1, <2>2 DEF CallOK, Frame
  <2>4. ASSUME requests[d].kind = "refresh" PROVE ExchangeOK(d)'
    <3>1. PICK s : s = requests[d].token
      OBVIOUS
    <3>2. InUse(s) /\ s \in Sessions
      BY <1>1, <2>2, <2>4, <3>1 DEF ExchangeOK
    <3>3. InUse(s)' /\ sessions'[s].family = sessions[s].family /\ (Spoilt(s) => Spoilt(s)')
      BY <1>2, <3>2
    <3>4. Unharmed(s) => Unharmed(s)'
      <4>1. Exchanging(c, s) => Spoilt(s)
        BY <2>4, <3>1, <3>2 DEF BrowserInv, OneExchange, Exchanging
      <4> QED
        BY <1>2, <3>2, <4>1 DEF Unharmed
    <3> QED
      BY <2>1, <2>2, <2>4, <3>1, <3>3, <3>4 DEF ExchangeOK
  <2>5. ASSUME requests[d].kind # "refresh" PROVE ExchangeOK(d)'
    BY <2>1, <2>5 DEF ExchangeOK
  <2> QED
    BY <2>3, <2>4, <2>5
<1>4. CookieOK'
  <2> SUFFICES ASSUME cookie # None
               PROVE  InUse(cookie)' /\ (Unharmed(cookie)' \/ \E d \in Callers : Exchanging(d, cookie)')
    BY DEF CookieOK, Frame
  <2>1. InUse(cookie) /\ (Unharmed(cookie) \/ \E d \in Callers : Exchanging(d, cookie))
    BY DEF BrowserInv, CookieOK
  <2>2. cookie' = cookie
    BY DEF Frame
  <2>3. \A d \in Callers : Exchanging(d, cookie) => d = c \/ Exchanging(d, cookie)'
    BY <2>2 DEF Frame, Exchanging
  <2>4. InUse(cookie)' /\ (Unharmed(cookie) => Unharmed(cookie)' \/ Exchanging(c, cookie))
    BY <1>2, <2>1, <2>2 DEF InUse, Unharmed, IsLive, Spoilt
  <2>5. Exchanging(c, cookie) => Exchanging(c, cookie)' \/ Unharmed(cookie)'
    BY <1>1, <2>1, <2>2 DEF Frame, Exchanging, Unharmed, IsLive, Spoilt
  <2> QED
    BY <2>1, <2>3, <2>4, <2>5
<1>5. OneExchange'
  <2> SUFFICES ASSUME NEW s \in Sessions, NEW d \in Callers, NEW e \in Callers,
                      Exchanging(d, s)', Exchanging(e, s)', d # e
               PROVE  Spoilt(s)'
    BY DEF OneExchange
  <2>1. \A f \in Callers : Exchanging(f, s) => InUse(s)
    BY DEF BrowserInv, ExchangeOK, Exchanging
  <2>2. \A f \in Callers \ {c} : Exchanging(f, s)' => Exchanging(f, s)
    BY DEF Frame, Exchanging
  <2>3. CASE Exchanging(d, s) /\ Exchanging(e, s)
    BY <1>2, <2>1, <2>3 DEF BrowserInv, OneExchange
  <2>4. CASE ~Exchanging(d, s) \/ ~Exchanging(e, s)
    <3>1. Exchanging(d, s) \/ Exchanging(e, s)
      BY <2>2
    <3>2. Exchanging(c, s)' /\ ~Exchanging(c, s)
      BY <2>2, <2>4
    <3> QED
      BY <3>1, <3>2 DEF Frame
  <2> QED
    BY <2>3, <2>4
<1>6. AnswersOK'
  <2> SUFFICES ASSUME NEW s \in Sessions, NEW d \in Callers, Answered(d, s)'
               PROVE  /\ InUse(s)' /\ Unharmed(s)' /\ cookie' # s
                      /\ \A e \in Callers : ~Exchanging(e, s)' /\ (Answered(e, s)' => e = d)
    BY DEF AnswersOK
  <2>1. /\ cookie' = cookie
        /\ \A e \in Callers \ {c} : /\ Exchanging(e, s)' <=> Exchanging(e, s)
                                    /\ Answered(e, s)' <=> Answered(e, s)
    BY DEF Frame, Exchanging, Answered
  <2>2. Exchanging(c, s)' => Exchanging(c, s) \/ s = cookie
    BY DEF Frame
  <2>3. Answered(c, s)' => Answered(c, s) \/ (~InUse(s) /\ InUse(s)' /\ IsLive(s)')
    BY DEF Frame
  <2>4. CASE InUse(s)
    <3>1. Answered(d, s)
      BY <2>1, <2>3, <2>4
    <3>2. /\ Unharmed(s) /\ cookie # s
          /\ \A e \in Callers : ~Exchanging(e, s) /\ (Answered(e, s) => e = d)
      BY <3>1 DEF BrowserInv, AnswersOK
    <3>3. InUse(s)' /\ Unharmed(s)'
      BY <1>2, <2>4, <3>2
    <3> QED
      BY <2>1, <2>2, <2>3, <2>4, <3>2, <3>3 DEF Answered, Exchanging
  <2>5. CASE ~InUse(s)
    <3>1. \A e \in Callers : ~Exchanging(e, s) /\ ~Answered(e, s)
      BY <2>5 DEF BrowserInv, ExchangeOK, AnswersOK, Exchanging
    <3>2. d = c /\ InUse(s)' /\ IsLive(s)'
      BY <2>1, <2>3, <3>1 DEF Answered
    <3>3. cookie # s
      BY <2>5, BrowserAssumption DEF BrowserInv, CookieOK
    <3> QED
      BY <2>1, <2>2, <3>1, <3>2, <3>3 DEF Unharmed, IsLive, Answered, Exchanging
  <2> QED
    BY <2>4, <2>5
<1> QED
  BY <1>3, <1>4, <1>5, <1>6 DEF BrowserInv

(***************************************************************************)
(* What the server does with a request.                                    *)
(***************************************************************************)
LEMMA RevokeFacts ==
  ASSUME SessionsInv, NEW S, Revoke(S)
  PROVE  \A s \in Sessions :
            /\ sessions'[s].family = sessions[s].family
            /\ sessions'[s].expired = sessions[s].expired
            /\ \/ sessions'[s].state = sessions[s].state
               \/ s \in S /\ IsLive(s) /\ sessions'[s].state = "revoked"
<1>1. \A s \in Sessions :
         sessions'[s] = IF s \in S /\ sessions[s].state = "live"
                        THEN [sessions[s] EXCEPT !.state = "revoked"] ELSE sessions[s]
  BY DEF Revoke
<1>2. ASSUME NEW r, IsSession(r), NEW q, q = [r EXCEPT !.state = "revoked"]
      PROVE  q.state = "revoked" /\ q.family = r.family /\ q.expired = r.expired
  BY <1>2 DEF IsSession
<1> SUFFICES ASSUME NEW s \in Sessions
             PROVE  /\ sessions'[s].family = sessions[s].family
                    /\ sessions'[s].expired = sessions[s].expired
                    /\ \/ sessions'[s].state = sessions[s].state
                       \/ s \in S /\ IsLive(s) /\ sessions'[s].state = "revoked"
  OBVIOUS
<1>3. CASE s \in S /\ IsLive(s)
  <2>1. sessions'[s] = [sessions[s] EXCEPT !.state = "revoked"] /\ IsSession(sessions[s])
    BY <1>1, <1>3 DEF SessionsInv, Shapes, IsLive
  <2> QED
    BY <1>2, <1>3, <2>1
<1>4. CASE ~(s \in S /\ IsLive(s))
  BY <1>1, <1>4 DEF IsLive
<1> QED
  BY <1>3, <1>4

(* At most the session that c exchanges, or one of a spoilt family, ends.   *)
Softened(c) ==
    \A s \in Sessions :
        /\ sessions'[s].family = sessions[s].family
        /\ sessions'[s].expired = sessions[s].expired
        /\ \/ sessions'[s].state = sessions[s].state
           \/ IsLive(s) /\ sessions'[s].state = "revoked" /\ (Exchanging(c, s) \/ Spoilt(s)')

LEMMA ServeFacts ==
  ASSUME BrowserInv, NEW c \in Callers, Serve(c), NEW a, Continue(c, a),
         Granted(c).session \in Sessions \cup {None}
  PROVE  /\ RequestsTyped'
         /\ calls'[c] = a /\ cookie' = cookie /\ spoilt' = spoilt \cup Ended(c)
         /\ \A d \in Callers \ {c} : calls'[d] = calls[d] /\ requests'[d] = requests[d]
         /\ requests'[c].kind = requests[c].kind /\ requests'[c].token = requests[c].token
         /\ a = Idle => requests'[c].got = Granted(c)
         /\ a # Idle => requests'[c].got = requests[c].got
<1>1. /\ calls'[c] = a /\ cookie' = cookie /\ spoilt' = spoilt \cup Ended(c)
      /\ \A d \in Callers \ {c} : calls'[d] = calls[d]
      /\ requests' = IF a = Idle THEN [requests EXCEPT ![c].got = Granted(c)] ELSE requests
  BY DEF Serve, Continue, BrowserInv, SessionsInv, Shapes
<1>2. PICK g : g = Granted(c)
  OBVIOUS
<1>3. PICK r : r = [requests[c] EXCEPT !.got = g]
  OBVIOUS
<1>4. IsRequest(r) /\ r.kind = requests[c].kind /\ r.token = requests[c].token /\ r.got = g
  BY <1>2, <1>3 DEF BrowserInv, RequestsTyped, IsRequest
<1>5. CASE a = Idle
  <2>1. requests' = [requests EXCEPT ![c] = r]
    BY <1>1, <1>2, <1>3, <1>5
  <2> QED
    BY <1>1, <1>2, <1>4, <1>5, <2>1 DEF BrowserInv, RequestsTyped
<1>6. CASE a # Idle
  BY <1>1, <1>6 DEF BrowserInv, RequestsTyped
<1> QED
  BY <1>5, <1>6

LEMMA Served ==
  ASSUME BrowserInv, NEW c \in Callers, Serve(c), Softened(c), SessionsInv',
         calls[c].pc \notin {"idle", "start", "mint"},
         NEW a, Continue(c, a), IsCall(a),
         \/ a = Idle /\ calls[c].family \in spoilt
         \/ requests[c].kind # "refresh" /\ a.pc \in {"idle", "start", "revokeAll", "issue", "link"}
         \/ /\ calls[c].pc = "retire" /\ a.family = calls[c].family
            /\ a.pc = "mint" \/ (a.pc = "kill" /\ a.family \in spoilt)
  PROVE  BrowserInv'
<1>1. Granted(c).session = None
  BY DEF Granted, At
<1>2. /\ RequestsTyped'
      /\ calls'[c] = a /\ cookie' = cookie /\ spoilt \subseteq spoilt'
      /\ \A d \in Callers \ {c} : calls'[d] = calls[d] /\ requests'[d] = requests[d]
      /\ requests'[c].kind = requests[c].kind /\ requests'[c].token = requests[c].token
      /\ \/ requests'[c].got = requests[c].got /\ a # Idle
         \/ requests'[c].got.session = None /\ a = Idle
  BY <1>1, ServeFacts
<1>3. ExchangeOK(c) /\ CallOK(c) /\ requests[c].got = None
  BY DEF BrowserInv, CallOK
<1>4. \A s \in Sessions : InUse(s) =>
         /\ InUse(s)'
         /\ Spoilt(s) => Spoilt(s)'
         /\ IsLive(s) => Unharmed(s)' \/ Exchanging(c, s)
  BY <1>2 DEF Softened, InUse, Spoilt, Unharmed, IsLive
<1>5. Frame(c)
  <2>1. \A s \in Sessions : ~Answered(c, s)'
    BY <1>2, <1>3, BrowserAssumption DEF Answered
  <2>2. \A s : Exchanging(c, s)' <=> Exchanging(c, s)
    BY <1>2 DEF Exchanging
  <2>3. \A s \in Sessions : sessions'[s].family = sessions[s].family
    BY DEF Softened
  <2> QED
    BY <1>2, <1>4, <2>1, <2>2, <2>3 DEF Frame
<1>6. ExpiredOK'
  BY <1>2 DEF BrowserInv, ExpiredOK, Softened, IsLive, Spoilt
<1>7. CallOK(c)'
  BY <1>2, <1>3, IdleCall DEF CallOK
<1>8. ExchangeOK(c)'
  <2> SUFFICES ASSUME requests[c].kind = "refresh" PROVE ExchangeOK(c)'
    BY <1>2 DEF ExchangeOK
  <2>1. PICK s : s = requests[c].token
    OBVIOUS
  <2>2. InUse(s) /\ s \in Sessions /\ calls[c].family = sessions[s].family
    BY <1>3, <2>1 DEF ExchangeOK, InUse
  <2>3. InUse(s)' /\ sessions'[s].family = sessions[s].family
    BY <1>4, <2>2 DEF Softened
  <2>4. CASE a = Idle /\ calls[c].family \in spoilt
    <3>1. Spoilt(s)'
      BY <1>2, <2>2, <2>3, <2>4 DEF Spoilt
    <3> QED
      BY <1>2, <2>1, <2>3, <2>4, <3>1, IdleCall DEF ExchangeOK
  <2>5. CASE /\ calls[c].pc = "retire" /\ a.family = calls[c].family
             /\ a.pc = "mint" \/ (a.pc = "kill" /\ a.family \in spoilt)
    BY <1>2, <1>3, <2>1, <2>2, <2>3, <2>5, IdleCall DEF ExchangeOK
  <2> QED
    BY <2>4, <2>5
<1> QED
  BY <1>2, <1>5, <1>6, <1>7, <1>8, FrameKeeps

(* A step that is not of a rotation goes on to another such step, or ends.  *)
Onward(c) ==
    \E a : /\ Continue(c, a) /\ IsCall(a)
           /\ a.pc \in {"idle", "start", "revokeAll", "issue", "link"}

LEMMA RestServed ==
  ASSUME BrowserInv, NEW c \in Callers, Serve(c),
         SetPassword(c) \/ RevokeAll(c) \/ ClearTokens(c) \/ IssueToken(c) \/ MarkVerified(c)
  PROVE  BrowserInv'
<1>1. calls[c].pc \in {"set", "revokeAll", "clear", "issue", "verify"}
  BY DEF SetPassword, RevokeAll, ClearTokens, IssueToken, MarkVerified, At
<1>2. IsCall(calls[c]) /\ requests[c].kind # "refresh" /\ SessionsInv
  BY <1>1 DEF BrowserInv, SessionsInv, Shapes, ExchangeOK
<1>3. SessionsInv'
  BY <1>2, SessionStepKeeps DEF SessionStep
<1>4. ASSUME NEW pc PROVE LET a == [calls[c] EXCEPT !.pc = pc] IN IsCall(a) /\ a.pc = pc
  BY <1>2 DEF IsCall
<1>5. Onward(c)
  <2>1. CASE End(c)
    BY <2>1, IdleCall DEF End, Onward
  <2>2. ASSUME NEW pc \in {"start", "issue", "link"}, Goto(c, pc) PROVE Onward(c)
    BY <1>4, <2>2 DEF Goto, Onward
  <2>3. ASSUME NEW n, Continue(c, [calls[c] EXCEPT !.pc = "revokeAll", !.proof = n])
        PROVE  Onward(c)
    <3>1. LET a == [calls[c] EXCEPT !.pc = "revokeAll", !.proof = n] IN
             IsCall(a) /\ a.pc = "revokeAll"
      BY <1>2 DEF IsCall
    <3> QED
      BY <2>3, <3>1 DEF Onward
  <2> QED
    BY <2>1, <2>2, <2>3 DEF SetPassword, RevokeAll, ClearTokens, IssueToken, MarkVerified
<1>6. Softened(c)
  <2>1. CASE UNCHANGED sessions
    BY <2>1 DEF Softened
  <2>2. CASE RevokeAll(c)
    <3>1. /\ Revoke(SessionsOf(calls[c].user))
          /\ Ended(c) = {sessions[s].family : s \in SessionsOf(calls[c].user)}
          /\ spoilt' = spoilt \cup Ended(c)
      BY <2>2 DEF RevokeAll, Ended, Serve
    <3> QED
      BY <1>2, <3>1, RevokeFacts DEF Softened, Spoilt
  <2> QED
    BY <2>1, <2>2 DEF SetPassword, ClearTokens, IssueToken, MarkVerified
<1> QED
  BY <1>1, <1>2, <1>3, <1>5, <1>6, Served DEF Onward

LEMMA RotationServed ==
  ASSUME BrowserInv, NEW c \in Callers, Serve(c), Retire(c) \/ RetireExpired(c) \/ KillFamily(c)
  PROVE  BrowserInv'
<1>1. SessionsInv /\ IsCall(calls[c]) /\ ExchangeOK(c) /\ CallOK(c)
  BY DEF BrowserInv, SessionsInv, Shapes
<1>2. SessionsInv'
  BY <1>1, SessionStepKeeps DEF SessionStep
<1>3. spoilt \subseteq spoilt'
  BY DEF Serve
<1>4. CASE KillFamily(c)
  <2>1. /\ calls[c].pc = "kill" /\ End(c)
        /\ Revoke(LiveIn(calls[c].family)) /\ calls[c].family \in spoilt
    BY <1>1, <1>4 DEF KillFamily, At, CallOK
  <2>2. Softened(c)
    BY <1>1, <1>3, <2>1, RevokeFacts DEF Softened, Spoilt, LiveIn
  <2> QED
    BY <1>2, <2>1, <2>2, IdleCall, Served DEF End
<1>5. CASE RetireExpired(c)
  <2>1. /\ calls[c].pc = "retireExpired" /\ End(c)
        /\ Revoke({calls[c].session}) /\ calls[c].family \in spoilt
        /\ Exchanging(c, calls[c].session)
    BY <1>1, <1>5 DEF RetireExpired, At, CallOK, ExchangeOK, Exchanging
  <2>2. Softened(c)
    BY <1>1, <2>1, RevokeFacts DEF Softened
  <2> QED
    BY <1>2, <2>1, <2>2, IdleCall, Served DEF End
<1>6. CASE Retire(c)
  <2>1. PICK s : s = calls[c].session
    OBVIOUS
  <2>2. /\ calls[c].pc = "retire" /\ Revoke({s})
        /\ Goto(c, IF IsLive(s) THEN "mint" ELSE "kill")
        /\ Exchanging(c, s) /\ Unharmed(s) /\ calls[c].family = sessions[s].family
    BY <1>1, <1>6, <2>1 DEF Retire, At, WonRetirement, IsLive, CallOK, ExchangeOK, Exchanging
  <2>3. Softened(c)
    BY <1>1, <2>2, RevokeFacts DEF Softened
  <2>4. PICK pc \in {"mint", "kill"} : Goto(c, pc) /\ (pc = "kill" => calls[c].family \in spoilt)
    BY <2>2 DEF Unharmed, Spoilt
  <2>5. PICK a : a = [calls[c] EXCEPT !.pc = pc]
    OBVIOUS
  <2>6. IsCall(a) /\ a.pc = pc /\ a.family = calls[c].family
    BY <1>1, <2>5 DEF IsCall
  <2>7. Continue(c, a)
    BY <2>4, <2>5 DEF Goto
  <2> QED
    BY <1>2, <2>2, <2>3, <2>4, <2>6, <2>7, Served
<1> QED
  BY <1>4, <1>5, <1>6

LEMMA Minted ==
  ASSUME BrowserInv, NEW c \in Callers, Serve(c), StartSession(c) \/ Mint(c)
  PROVE  BrowserInv'
<1> PICK n : n = FreshSession
  OBVIOUS
<1>1. SessionsInv /\ ExchangeOK(c) /\ CallOK(c)
  BY DEF BrowserInv
<1>2. SessionsInv'
  BY <1>1, SessionStepKeeps DEF SessionStep
<1>3. /\ At(c, "start") \/ At(c, "mint")
      /\ Unused(sessions) # {} /\ Continue(c, Idle)
      /\ \E u, f, p : CreateSession(u, f, p)
  BY DEF StartSession, Mint, End
<1>4. n \in Sessions /\ ~InUse(n)
  BY <1>1, <1>3, NewSessionIsFree DEF InUse
<1>5. /\ sessions'[n].state = "live" /\ sessions'[n].expired = FALSE
      /\ \A s \in Sessions \ {n} : sessions'[s] = sessions[s]
  BY <1>1, <1>3, CreateSessionFacts
<1>6. Granted(c).ok = TRUE /\ Granted(c).session = n
  BY <1>3 DEF Granted
<1>7. /\ RequestsTyped'
      /\ calls'[c] = Idle /\ cookie' = cookie /\ spoilt \subseteq spoilt'
      /\ \A d \in Callers \ {c} : calls'[d] = calls[d] /\ requests'[d] = requests[d]
      /\ requests'[c].kind = requests[c].kind /\ requests'[c].token = requests[c].token
      /\ requests'[c].got.ok /\ requests'[c].got.session = n
  BY <1>3, <1>4, <1>6, ServeFacts
<1>8. Frame(c)
  <2>1. \A s \in Sessions : InUse(s) => /\ InUse(s)' /\ sessions'[s].family = sessions[s].family
                                        /\ IsLive(s) => IsLive(s)'
    BY <1>4, <1>5 DEF InUse, IsLive
  <2>2. \A s : Exchanging(c, s)' <=> Exchanging(c, s)
    BY <1>7 DEF Exchanging
  <2>3. \A s \in Sessions : Answered(c, s)' => s = n
    BY <1>7 DEF Answered
  <2>4. InUse(n)' /\ IsLive(n)'
    BY <1>4, <1>5 DEF InUse, IsLive
  <2>5. \A s \in Sessions : Answered(c, s)' => ~InUse(s) /\ InUse(s)' /\ IsLive(s)'
    BY <1>4, <2>3, <2>4
  <2> QED
    BY <1>7, <2>1, <2>2, <2>5 DEF Frame, Unharmed
<1>9. ExpiredOK'
  BY <1>4, <1>5, <1>7 DEF BrowserInv, ExpiredOK, IsLive, Spoilt
<1>10. CallOK(c)'
  BY <1>7, IdleCall DEF CallOK
<1>11. ExchangeOK(c)'
  <2> PICK s : s = requests[c].token
    OBVIOUS
  <2>1. requests[c].kind = "refresh" => InUse(s)'
    BY <1>1, <1>4, <1>5 DEF ExchangeOK, InUse
  <2>2. n # None
    BY <1>4, BrowserAssumption
  <2> QED
    BY <1>7, <2>1, <2>2, IdleCall DEF ExchangeOK
<1> QED
  BY <1>2, <1>7, <1>8, <1>9, <1>10, <1>11, FrameKeeps

LEMMA ServeKeeps ==
  ASSUME BrowserInv, NEW c \in Callers, Serve(c)
  PROVE  BrowserInv'
  BY RestServed, RotationServed, Minted DEF Serve, SessionStep

(***************************************************************************)
(* What the tabs send.                                                     *)
(***************************************************************************)
LEMMA SendFacts ==
  ASSUME BrowserInv, NEW c \in Callers, NEW kind, NEW t, Free(c), Send(c, kind, t),
         NEW a, Continue(c, a)
  PROVE  /\ RequestsTyped'
         /\ calls'[c] = a
         /\ \A d \in Callers \ {c} : calls'[d] = calls[d] /\ requests'[d] = requests[d]
         /\ requests'[c].kind = kind /\ requests'[c].token = cookie /\ requests'[c].got = None
         /\ requests[c].kind = "none"
<1>1. /\ calls'[c] = a
      /\ \A d \in Callers \ {c} : calls'[d] = calls[d]
  BY DEF BrowserInv, SessionsInv, Shapes, Continue
<1>2. PICK r : r = [kind |-> kind, tab |-> t, token |-> cookie, got |-> None]
  OBVIOUS
<1>3. IsRequest(r) /\ r.kind = kind /\ r.token = cookie /\ r.got = None
  BY <1>2 DEF IsRequest
<1>4. requests' = [requests EXCEPT ![c] = r]
  BY <1>2 DEF Send
<1>5. requests[c].kind = "none"
  BY DEF Free, NoRequest
<1> QED
  BY <1>1, <1>3, <1>4, <1>5 DEF BrowserInv, RequestsTyped

LEMMA SentKeeps ==
  ASSUME BrowserInv, NEW c \in Callers, NEW kind, NEW t, Free(c), Send(c, kind, t),
         kind # "refresh", cookie' = cookie, spoilt \subseteq spoilt', UNCHANGED sessions,
         NEW a, Continue(c, a),
         \/ a.pc \in {"start", "set", "clear", "verify", "recheck"}
         \/ a.pc = "kill" /\ a.family \in spoilt',
         SessionsInv'
  PROVE  BrowserInv'
<1>1. /\ RequestsTyped'
      /\ calls'[c] = a
      /\ \A d \in Callers \ {c} : calls'[d] = calls[d] /\ requests'[d] = requests[d]
      /\ requests'[c].kind # "refresh" /\ requests'[c].got = None
      /\ requests[c].kind = "none"
  BY SendFacts
<1>2. Frame(c)
  BY <1>1 DEF Frame, InUse, IsLive, Spoilt, Unharmed, Exchanging, Answered
<1>3. ExpiredOK'
  BY DEF BrowserInv, ExpiredOK, IsLive, Spoilt
<1>4. ExchangeOK(c)' /\ CallOK(c)'
  BY <1>1 DEF ExchangeOK, CallOK
<1> QED
  BY <1>1, <1>2, <1>3, <1>4, FrameKeeps

LEMMA AskedKeeps ==
  ASSUME BrowserInv, NEW c \in Callers, NEW kind, NEW t, Free(c), Send(c, kind, t),
         kind # "refresh", UNCHANGED <<cookie, spoilt>>, Asks(c)
  PROVE  BrowserInv'
<1>1. SessionsInv'
  BY AskKeeps DEF BrowserInv
<1>2. UNCHANGED sessions
  BY AskFacts
<1>3. PICK a : Continue(c, a) /\ a.pc \in {"start", "set", "clear", "verify", "recheck"}
  BY AskFacts
<1> QED
  BY <1>1, <1>2, <1>3, SentKeeps

LEMMA LogoutSent ==
  ASSUME BrowserInv, NEW c \in Callers, NEW t, LogoutButton(t, c)
  PROVE  BrowserInv'
<1>1. /\ Free(c) /\ cookie # None /\ Logout(c, cookie) /\ Send(c, "logout", t)
      /\ spoilt' = spoilt \cup FamilyOf(cookie) /\ cookie' = cookie
  BY DEF LogoutButton
<1>2. cookie \in Sessions /\ SessionsInv
  BY <1>1 DEF BrowserInv, CookieOK, InUse
<1>3. UNCHANGED sessions
  BY <1>1, <1>2, LogoutFacts
<1>4. PICK a : Continue(c, a) /\ a.pc = "kill" /\ a.family = sessions[cookie].family
  BY <1>1, <1>2, LogoutFacts
<1>5. sessions[cookie].family \in spoilt'
  BY <1>1 DEF FamilyOf
<1>6. SessionsInv'
  BY <1>1, <1>2, LogoutKeeps
<1> QED
  BY <1>1, <1>3, <1>4, <1>5, <1>6, SentKeeps

LEMMA RefreshKeeps ==
  ASSUME BrowserInv, NEW c \in Callers, NEW t, Refresh(t, c), cookie' = cookie
  PROVE  BrowserInv'
<1> PICK s : s = cookie
  OBVIOUS
<1>1. /\ Free(c) /\ s # None /\ PresentToken(c, s) /\ Send(c, "refresh", t)
      /\ spoilt' = spoilt \cup Overlapped(s)
  BY DEF Refresh
<1>2. s \in Sessions /\ SessionsInv /\ (Unharmed(s) \/ \E d \in Callers : Exchanging(d, s))
  BY <1>1 DEF BrowserInv, CookieOK, InUse
<1>3. UNCHANGED sessions /\ InUse(s)
  BY <1>1, <1>2, PresentFacts
<1>4. PICK a : /\ Continue(c, a) /\ IsCall(a)
               /\ a.session = s /\ a.family = sessions[s].family
               /\ \/ a.pc = "kill" /\ ~IsLive(s)
                  \/ a.pc = "retireExpired" /\ IsLive(s) /\ sessions[s].expired
                  \/ a.pc = "retire" /\ IsLive(s)
  BY <1>1, <1>2, PresentFacts
<1>5. /\ RequestsTyped'
      /\ calls'[c] = a
      /\ \A d \in Callers \ {c} : calls'[d] = calls[d] /\ requests'[d] = requests[d]
      /\ requests'[c].kind = "refresh" /\ requests'[c].token = s /\ requests'[c].got = None
      /\ requests[c].kind = "none"
  BY <1>1, <1>4, SendFacts
<1>6. SessionsInv'
  BY <1>1, <1>2, PresentTokenKeeps
<1>7. \A d \in Callers : Exchanging(d, s) => sessions[s].family \in spoilt'
  BY <1>1 DEF Overlapped, FamilyOf, Exchanging
<1>8. Frame(c)
  <2>1. \A r \in Sessions : Exchanging(c, r)' => r = s
    BY <1>5 DEF Exchanging
  <2>2. \A r \in Sessions : ~Exchanging(c, r) /\ ~Answered(c, r)'
    BY <1>5 DEF Exchanging, Answered
  <2>3. \A d \in Callers : Exchanging(d, s) => Spoilt(s)'
    BY <1>3, <1>7 DEF Spoilt
  <2> QED
    BY <1>1, <1>3, <1>5, <2>1, <2>2, <2>3 DEF Frame, InUse, IsLive, Spoilt, Unharmed
<1>9. ExpiredOK'
  BY <1>1, <1>3 DEF BrowserInv, ExpiredOK, IsLive, Spoilt
<1>10. a.pc \in {"kill", "retireExpired"} => a.family \in spoilt'
  <2>1. CASE a.pc = "kill"
    BY <1>1, <1>2, <1>4, <1>7, <2>1 DEF Unharmed, Spoilt
  <2>2. CASE a.pc = "retireExpired"
    BY <1>1, <1>2, <1>4, <2>2 DEF BrowserInv, ExpiredOK, Spoilt
  <2> QED
    BY <2>1, <2>2
<1>11. CallOK(c)'
  BY <1>5, <1>10 DEF CallOK
<1>12. ExchangeOK(c)'
  <2>1. InUse(s)' /\ sessions'[s].family = sessions[s].family /\ (IsLive(s) => Unharmed(s)')
    BY <1>3 DEF InUse, IsLive, Unharmed
  <2> QED
    BY <1>4, <1>5, <2>1 DEF ExchangeOK
<1> QED
  BY <1>5, <1>6, <1>8, <1>9, <1>11, <1>12, FrameKeeps

(***************************************************************************)
(* What comes back, and what does not.                                     *)
(***************************************************************************)
LEMMA ForgetFacts ==
  ASSUME BrowserInv, NEW c \in Callers, requests' = [requests EXCEPT ![c] = NoRequest]
  PROVE  /\ RequestsTyped'
         /\ \A d \in Callers \ {c} : requests'[d] = requests[d]
         /\ requests'[c].kind = "none" /\ requests'[c].got = None
<1>1. IsRequest(NoRequest) /\ NoRequest.kind = "none" /\ NoRequest.got = None
  BY DEF IsRequest, NoRequest
<1> QED
  BY <1>1 DEF BrowserInv, RequestsTyped

LEMMA LoseKeeps ==
  ASSUME BrowserInv, NEW c \in Callers, Lose(c)
  PROVE  BrowserInv'
<1> PICK s : s = requests[c].token
  OBVIOUS
<1>1. /\ requests[c].got # None /\ UNCHANGED <<sessions, calls>> /\ cookie' = cookie
      /\ requests' = [requests EXCEPT ![c] = NoRequest]
      /\ spoilt \subseteq spoilt'
      /\ requests[c].kind = "refresh" => FamilyOf(s) \subseteq spoilt'
  BY DEF Lose, accountsVars
<1>2. /\ RequestsTyped'
      /\ \A d \in Callers \ {c} : requests'[d] = requests[d]
      /\ requests'[c].kind = "none" /\ requests'[c].got = None
  BY <1>1, ForgetFacts
<1>3. ExchangeOK(c) /\ CallOK(c)
  BY DEF BrowserInv
<1>4. \A r \in Sessions : /\ ~Exchanging(c, r)' /\ ~Answered(c, r)'
                          /\ Exchanging(c, r) => Spoilt(r)'
  BY <1>1, <1>2, BrowserAssumption DEF Exchanging, Answered, FamilyOf, Spoilt
<1>5. Frame(c)
  BY <1>1, <1>2, <1>4 DEF Frame, InUse, IsLive, Spoilt, Unharmed
<1>6. SessionsInv'
  BY <1>1, StillKeepsSessions DEF BrowserInv
<1>7. ExpiredOK'
  BY <1>1 DEF BrowserInv, ExpiredOK, IsLive, Spoilt
<1>8. ExchangeOK(c)' /\ CallOK(c)'
  BY <1>1, <1>2, <1>3 DEF ExchangeOK, CallOK
<1> QED
  BY <1>2, <1>5, <1>6, <1>7, <1>8, FrameKeeps

LEMMA ReceiveKeeps ==
  ASSUME BrowserInv, NEW c \in Callers, Receive(c)
  PROVE  BrowserInv'
<1> PICK n : n = requests[c].got.session
  OBVIOUS
<1>1. /\ requests[c].got # None /\ UNCHANGED <<sessions, calls, spoilt>>
      /\ requests' = [requests EXCEPT ![c] = NoRequest]
      /\ \/ cookie' = None
         \/ n # None /\ cookie' = n
         \/ n = None /\ cookie' = cookie
  BY DEF Receive, CookieAfter, accountsVars
<1>2. /\ RequestsTyped'
      /\ \A d \in Callers \ {c} : requests'[d] = requests[d]
      /\ requests'[c].kind = "none" /\ requests'[c].got = None
  BY <1>1, ForgetFacts
<1>3. /\ n \in Sessions \cup {None}
      /\ n # None => Answered(c, n)
  BY <1>1 DEF BrowserInv, RequestsTyped, IsRequest, Answered
<1>4. \A s : /\ InUse(s)' <=> InUse(s)
             /\ Spoilt(s)' <=> Spoilt(s)
             /\ Unharmed(s)' <=> Unharmed(s)
  BY <1>1 DEF InUse, Spoilt, Unharmed, IsLive
<1>5. /\ \A s : ~Exchanging(c, s)'
      /\ \A s \in Sessions : ~Answered(c, s)'
      /\ \A d \in Callers \ {c} : \A s :
            /\ Exchanging(d, s)' <=> Exchanging(d, s)
            /\ Answered(d, s)' <=> Answered(d, s)
  BY <1>2 DEF Exchanging, Answered
<1>6. SessionsInv'
  BY <1>1, StillKeepsSessions DEF BrowserInv
<1>7. CookieOK'
  <2>1. CASE cookie' = None
    BY <2>1 DEF CookieOK
  <2>2. CASE n # None /\ cookie' = n
    <3>1. n \in Sessions /\ InUse(n) /\ Unharmed(n)
      BY <1>3, <2>2 DEF BrowserInv, AnswersOK
    <3> QED
      BY <1>1, <2>2, <3>1 DEF CookieOK, InUse, Unharmed, IsLive, Spoilt
  <2>3. CASE n = None /\ cookie' = cookie /\ cookie # None
    <3>1. InUse(cookie) /\ (Unharmed(cookie) \/ \E d \in Callers : Exchanging(d, cookie))
      BY <2>3 DEF BrowserInv, CookieOK
    <3>2. Exchanging(c, cookie) => Spoilt(cookie)
      BY <1>1, <2>3 DEF BrowserInv, ExchangeOK, Exchanging
    <3>3. Unharmed(cookie) \/ \E d \in Callers \ {c} : Exchanging(d, cookie)
      BY <3>1, <3>2 DEF Unharmed
    <3>4. Unharmed(cookie) \/ \E d \in Callers \ {c} : Exchanging(d, cookie)'
      BY <1>2, <2>3, <3>3 DEF Exchanging
    <3> QED
      BY <1>1, <2>3, <3>1, <3>4 DEF CookieOK, InUse, Unharmed, IsLive, Spoilt
  <2> QED
    BY <1>1, <2>1, <2>2, <2>3
<1>8. OneExchange'
  BY <1>4, <1>5 DEF BrowserInv, OneExchange
<1>9. AnswersOK'
  <2> SUFFICES ASSUME NEW s \in Sessions, NEW d \in Callers, Answered(d, s)'
               PROVE  /\ InUse(s)' /\ Unharmed(s)' /\ cookie' # s
                      /\ \A e \in Callers : ~Exchanging(e, s)' /\ (Answered(e, s)' => e = d)
    BY DEF AnswersOK
  <2>1. d # c /\ Answered(d, s)
    BY <1>5
  <2>2. /\ InUse(s) /\ Unharmed(s) /\ cookie # s
        /\ \A e \in Callers : ~Exchanging(e, s) /\ (Answered(e, s) => e = d)
    BY <2>1 DEF BrowserInv, AnswersOK
  <2>3. cookie' # s
    BY <1>1, <1>3, <2>1, <2>2, BrowserAssumption
  <2> QED
    BY <1>4, <1>5, <2>2, <2>3
<1>10. ExpiredOK'
  BY <1>1 DEF BrowserInv, ExpiredOK, IsLive, Spoilt
<1>11. ASSUME NEW d \in Callers PROVE ExchangeOK(d)' /\ CallOK(d)'
  <2>1. ExchangeOK(d) /\ CallOK(d)
    BY DEF BrowserInv
  <2>2. CASE d = c
    BY <1>1, <1>2, <2>1, <2>2 DEF ExchangeOK, CallOK
  <2>3. CASE d # c
    BY <1>1, <1>2, <2>1, <2>3 DEF ExchangeOK, CallOK, InUse, Unharmed, IsLive, Spoilt
  <2> QED
    BY <2>2, <2>3
<1> QED
  BY <1>2, <1>6, <1>7, <1>8, <1>9, <1>10, <1>11 DEF BrowserInv

(* A step that concerns no request: time passes, or a tab changes its mind. *)
LEMMA NobodysStep ==
  ASSUME BrowserInv, UNCHANGED <<calls, requests, cookie>>, spoilt \subseteq spoilt',
         SessionsInv',
         \A s \in Sessions : /\ sessions'[s].family = sessions[s].family
                             /\ sessions'[s].state = sessions[s].state,
         ExpiredOK'
  PROVE  BrowserInv'
<1>1. \A s : /\ InUse(s)' <=> InUse(s)
             /\ InUse(s) => /\ sessions'[s].family = sessions[s].family
                            /\ Spoilt(s) => Spoilt(s)'
                            /\ Unharmed(s) => Unharmed(s)'
  BY DEF InUse, Spoilt, Unharmed, IsLive
<1>2. \A d, s : /\ Exchanging(d, s)' <=> Exchanging(d, s)
                /\ Answered(d, s)' <=> Answered(d, s)
  BY DEF Exchanging, Answered
<1>3. RequestsTyped'
  BY DEF BrowserInv, RequestsTyped, IsRequest
<1>4. CookieOK'
  <2> PICK s : s = cookie
    OBVIOUS
  <2>1. s # None => InUse(s) /\ (Unharmed(s) \/ \E d \in Callers : Exchanging(d, s))
    BY DEF BrowserInv, CookieOK
  <2>2. s # None => InUse(s)' /\ (Unharmed(s)' \/ \E d \in Callers : Exchanging(d, s)')
    BY <1>1, <1>2, <2>1
  <2>3. cookie' = s
    OBVIOUS
  <2> QED
    BY <2>2, <2>3 DEF CookieOK, InUse, Unharmed, IsLive, Spoilt, Exchanging
<1>5. OneExchange'
  <2>1. \A d \in Callers : \A s : Exchanging(d, s) => InUse(s)
    BY DEF BrowserInv, ExchangeOK, Exchanging
  <2> QED
    BY <1>1, <1>2, <2>1 DEF BrowserInv, OneExchange
<1>6. AnswersOK'
  BY <1>1, <1>2 DEF BrowserInv, AnswersOK
<1>7. ASSUME NEW d \in Callers PROVE ExchangeOK(d)' /\ CallOK(d)'
  <2>1. ExchangeOK(d) /\ CallOK(d)
    BY DEF BrowserInv
  <2>2. PICK s : s = requests[d].token
    OBVIOUS
  <2>3. requests[d].kind = "refresh" =>
           InUse(s)' /\ sessions'[s].family = sessions[s].family
           /\ (Spoilt(s) => Spoilt(s)') /\ (Unharmed(s) => Unharmed(s)')
    BY <1>1, <2>1, <2>2 DEF ExchangeOK
  <2>4. requests'[d] = requests[d] /\ calls'[d] = calls[d]
    OBVIOUS
  <2> QED
    BY <2>1, <2>2, <2>3, <2>4 DEF ExchangeOK, CallOK
<1> QED
  BY <1>3, <1>4, <1>5, <1>6, <1>7 DEF BrowserInv

LEMMA StillKeeps ==
  ASSUME BrowserInv, UNCHANGED <<sessions, calls, requests, cookie, spoilt>>
  PROVE  BrowserInv'
<1>1. SessionsInv'
  BY StillKeepsSessions DEF BrowserInv
<1>2. ExpiredOK'
  BY DEF BrowserInv, ExpiredOK, IsLive, Spoilt
<1> QED
  BY <1>1, <1>2, NobodysStep

LEMMA ExpiresKeeps ==
  ASSUME BrowserInv, SessionExpires
  PROVE  BrowserInv'
<1>1. /\ Expire /\ cookie # None /\ ~sessions[cookie].expired /\ sessions'[cookie].expired
      /\ spoilt' = spoilt \cup FamilyOf(cookie)
      /\ UNCHANGED <<cookie, requests>>
  BY DEF SessionExpires
<1>2. UNCHANGED calls /\ SessionsInv'
  BY <1>1, ExpireSessionKeeps DEF Expire, BrowserInv
<1>3. PICK s \in Sessions : sessions' = [sessions EXCEPT ![s].expired = TRUE]
  BY <1>1 DEF Expire
<1>4. ASSUME NEW r, IsSession(r), NEW q, q = [r EXCEPT !.expired = TRUE]
      PROVE  q.state = r.state /\ q.family = r.family
  BY <1>4 DEF IsSession
<1>5. /\ \A r \in Sessions \ {s} : sessions'[r] = sessions[r]
      /\ sessions'[s].state = sessions[s].state /\ sessions'[s].family = sessions[s].family
  BY <1>3, <1>4 DEF BrowserInv, SessionsInv, Shapes
<1>6. s = cookie
  BY <1>1, <1>5 DEF BrowserInv, CookieOK, InUse
<1>7. Spoilt(s)'
  BY <1>1, <1>5, <1>6 DEF FamilyOf, Spoilt
<1>8. ExpiredOK'
  BY <1>1, <1>5, <1>7 DEF BrowserInv, ExpiredOK, IsLive, Spoilt
<1> QED
  BY <1>1, <1>2, <1>5, <1>8, NobodysStep

LEMMA BrowserStep == BrowserInv /\ [BrowserNext]_<<accountsVars, browserVars>> => BrowserInv'
<1> SUFFICES ASSUME BrowserInv, [BrowserNext]_<<accountsVars, browserVars>> PROVE BrowserInv'
  OBVIOUS
<1>1. CASE UNCHANGED <<accountsVars, browserVars>>
  BY <1>1, StillKeeps DEF accountsVars, browserVars
<1>2. ASSUME NEW t \in Tabs, NEW c \in Callers, NEW u \in Users, LoginPage(t, c, u)
      PROVE  BrowserInv'
  BY <1>2, AskedKeeps DEF LoginPage, Asks
<1>3. ASSUME NEW t \in Tabs, NEW c \in Callers, Load(t, c) PROVE BrowserInv'
  <2>1. CASE Refresh(t, c)
    BY <1>3, <2>1, RefreshKeeps DEF Load
  <2>2. CASE ~Refresh(t, c)
    BY <1>3, <2>2, StillKeeps DEF Load, accountsVars
  <2> QED
    BY <2>1, <2>2
<1>4. ASSUME NEW t \in Tabs, NEW c \in Callers, Query(t, c) PROVE BrowserInv'
  BY <1>4, RefreshKeeps DEF Query
<1>5. ASSUME NEW t \in Tabs, NEW c \in Callers, ChangePasswordCard(t, c) PROVE BrowserInv'
  BY <1>5, AskedKeeps DEF ChangePasswordCard, Asks
<1>6. ASSUME NEW t \in Tabs, NEW c \in Callers, ForgotPasswordPage(t, c) PROVE BrowserInv'
  BY <1>6, AskedKeeps DEF ForgotPasswordPage, Asks, Kinds
<1>7. ASSUME NEW t \in Tabs, NEW c \in Callers, ResetPasswordPage(t, c) PROVE BrowserInv'
  BY <1>7, AskedKeeps DEF ResetPasswordPage, Asks
<1>8. ASSUME NEW t \in Tabs, PasswordRefused(t) PROVE BrowserInv'
  BY <1>8, StillKeeps DEF PasswordRefused, accountsVars
<1> QED
  BY <1>1, <1>2, <1>3, <1>4, <1>5, <1>6, <1>7, <1>8, ServeKeeps, ReceiveKeeps, LoseKeeps,
     LogoutSent, ExpiresKeeps
  DEF BrowserNext

(***************************************************************************)
(* Who is signed in stays signed in: the server refuses an exchange of the *)
(* cookie only when its login was ended, an answer was lost or two         *)
(* exchanges overlapped (api-client/src/client.ts, refresh).               *)
(***************************************************************************)
THEOREM SignedInForGood == BrowserSpec => []StaysSignedIn
<1>1. BrowserInv => StaysSignedIn
  <2> SUFFICES ASSUME BrowserInv, NEW c \in Callers,
                      requests[c].kind = "refresh", requests[c].got # None
               PROVE  requests[c].got.ok \/ FamilyOf(requests[c].token) \subseteq spoilt
    BY DEF StaysSignedIn
  <2> QED
    BY DEF BrowserInv, ExchangeOK, Spoilt, FamilyOf
<1> QED
  BY <1>1, BrowserInvInit, BrowserStep, PTL DEF BrowserSpec
=============================================================================
