----------------------------- MODULE RankProofs -----------------------------
(***************************************************************************)
(* Proofs about Ranks for every number of members, callers, versions of a  *)
(* ladder, classes and promotions, whatever the criteria of its steps: the *)
(* four invariants its run checks, and its types.                          *)
(*                                                                         *)
(* None of them is inductive.  An award runs for six steps on what it read *)
(* in the first, so the invariant says of each execution what its stale    *)
(* reads are still good for: a version that was current stays minted, a    *)
(* step that was stood on stays explained by the history (CallOK).  The    *)
(* numbering of versions needs the order of the minted ones around the     *)
(* publication under way (Numbering), and the chain of promotions what the *)
(* award under way has appended (Chained).                                 *)
(*                                                                         *)
(* For Eligibility, whatever the tree of criteria: a result can be better  *)
(* than another (Better), a leaf gets better as the file grows, and so     *)
(* does a group whose parts do, level by level.                            *)
(***************************************************************************)
EXTENDS Ranks, Eligibility, SequenceTheorems, FiniteSetTheorems, WellFoundedInduction, TLAPS

Minted(d) == d \in Drafts /\ versions[d] # 0
Explained(m, s) == s = None \/ \E i \in HistoryOf(m) : promotions[i].to = s

(* The prerequisites of the step an award goes for, in the version it read, *)
(* are cleared by the step the award read.                                  *)
PrerequisitesMet(a) ==
    \A l \in Leaves(a.draft, a.step) :
        (l.type = "prerequisiteStep" /\ l.enforcement = "required") =>
            PrerequisiteCleared(Ladder[a.draft], l.stepId, a.from)

Awarding == {"version", "history", "facts", "create", "advance"}

CallOK(a) ==
    /\ a.pc = "mint" => a.draft \in Drafts /\ (a.prior = None \/ Minted(a.prior))
    /\ a.pc = "link" => Minted(a.draft)
    /\ a.pc = "enroll" => a.member \in Members
    /\ a.pc \in Awarding =>
          a.member \in Members /\ a.step \in AllSteps /\ positions[a.member] # None
    /\ a.pc \in Awarding \ {"version"} =>
          /\ Minted(a.draft) /\ a.step \in StepIds(Ladder[a.draft])
          /\ a.now <= attended[a.member]
    /\ a.pc \in Awarding \ {"advance"} => Explained(a.member, a.from)
    /\ a.pc = "create" => (a.overridden = TRUE \/ PrerequisitesMet(a))
    /\ a.pc = "advance" => \E i \in HistoryOf(a.member) : promotions[i].to = a.step

CallsInv == \A c \in Callers : CallOK(calls[c])

HandleInv == \A d \in handle.ids \cup ({handle.current} \ {None}) : Minted(d)

PositionsInv ==
    \A m \in Members :
        /\ positions[m] # None => Explained(m, positions[m].step)
        /\ HistoryOf(m) # {} => positions[m] # None

AwardsInv ==
    \A i \in DOMAIN promotions :
        /\ Minted(promotions[i].version)
        /\ promotions[i].to \in StepIds(Ladder[promotions[i].version])
        /\ promotions[i].awardedAt <= attended[promotions[i].member]

(* While no publications raced, one is under way at most; what it minted    *)
(* has the highest number, or else the current version has it.              *)
Linking(c) == calls[c].pc = "link"
Numbering ==
    "publish" \notin raced =>
        /\ \A c, d \in Callers : Linking(c) /\ Linking(d) => c = d
        /\ \A c \in Callers : Linking(c) =>
              \A d \in Drafts : Minted(d) /\ d # calls[c].draft =>
                  versions[d] < versions[calls[c].draft]
        /\ \A d \in Drafts : Minted(d) /\ d # handle.current =>
              \/ handle.current # None /\ versions[d] < versions[handle.current]
              \/ \E c \in Callers : Linking(c) /\ calls[c].draft = d
        /\ \A d, e \in Drafts :
              Minted(d) /\ Minted(e) /\ versions[d] = versions[e] => d = e

(* The newest promotion of a member, and the awards under way for it.       *)
Newest(m, i) == i \in HistoryOf(m) /\ \A j \in HistoryOf(m) : j <= i
Advancing(c, m) == calls[c].pc = "advance" /\ calls[c].member = m

(* While no awards of one member raced, one is between its two writes at    *)
(* most, and it wrote the member's newest promotion.                        *)
StartsAtPrevious(i) ==
    LET m == promotions[i].member
        earlier == {j \in HistoryOf(m) : j < i}
    IN  IF earlier = {} THEN promotions[i].from = None
        ELSE \E j \in earlier : /\ \A k \in earlier : k <= j
                                /\ promotions[i].from = promotions[j].to

Chained ==
    "award" \notin raced =>
        /\ \A i \in DOMAIN promotions : StartsAtPrevious(i)
        /\ \A m \in Members : \A c, d \in Callers :
              Advancing(c, m) /\ Advancing(d, m) => c = d
        /\ \A m \in Members : \A i \in DOMAIN promotions : Newest(m, i) =>
              /\ \A c \in Callers : Advancing(c, m) => promotions[i].to = calls[c].step
              /\ \/ positions[m].step = promotions[i].to
                 \/ \E c \in Callers : Advancing(c, m)

RanksInv ==
    /\ RanksTypeOK /\ CallsInv /\ HandleInv /\ PositionsInv /\ AwardsInv
    /\ Numbering /\ Chained /\ PrerequisiteHeld

(***************************************************************************)
(* Lemmas about maxima, records and the history.                           *)
(***************************************************************************)
LEMMA BoundedMax ==
  ASSUME NEW S, S \subseteq Nat, S # {}, NEW b \in Nat, \A x \in S : x <= b
  PROVE  \E x \in S : \A y \in S : y <= x
<1>1. PICK D : D = {b - x : x \in S}
  OBVIOUS
<1>2. D \subseteq Nat /\ D # {}
  <2>1. ASSUME NEW y \in D PROVE y \in Nat
    <3>1. PICK x \in S : y = b - x
      BY <1>1
    <3> QED
      BY <3>1
  <2>2. PICK x \in S : TRUE
    OBVIOUS
  <2>3. b - x \in D
    BY <1>1
  <2> QED
    BY <2>1, <2>3
<1>3. PICK i \in D : \A j \in D : <<j, i>> \notin OpToRel(<, Nat)
  BY <1>2, WFMin, NatLessThanWellFounded, Zenon
<1>4. \A j \in D : i <= j
  <2> SUFFICES ASSUME NEW j \in D PROVE i <= j
    OBVIOUS
  <2>1. i \in Nat /\ j \in Nat
    BY <1>2
  <2>2. ~(j < i)
    BY <1>3, <2>1, Zenon DEF OpToRel
  <2> QED
    BY <2>1, <2>2
<1>5. PICK x \in S : i = b - x
  BY <1>1
<1>6. ASSUME NEW y \in S PROVE y <= x
  <2>1. b - x <= b - y
    BY <1>1, <1>4, <1>5
  <2> QED
    BY <2>1
<1> QED
  BY <1>6

LEMMA HistoryIsPlaces ==
  ASSUME RanksTypeOK, NEW m
  PROVE  /\ HistoryOf(m) \subseteq Nat /\ Len(promotions) \in Nat
         /\ \A i \in HistoryOf(m) : i <= Len(promotions) /\ promotions[i] \in Promotion
<1>1. PICK q \in Seq(Promotion) : q = promotions
  BY DEF RanksTypeOK
<1>2. /\ Len(q) \in Nat /\ DOMAIN q = 1..Len(q)
      /\ \A i \in 1..Len(q) : q[i] \in Promotion
  OBVIOUS
<1>3. HistoryOf(m) \subseteq 1..Len(q)
  BY <1>1, <1>2 DEF HistoryOf
<1> QED
  BY <1>1, <1>2, <1>3

LEMMA NewestExists ==
  ASSUME RanksTypeOK, NEW m, HistoryOf(m) # {}
  PROVE  \E i \in HistoryOf(m) : Newest(m, i)
BY HistoryIsPlaces, BoundedMax DEF Newest

LEMMA SinceIsNat ==
  ASSUME RanksTypeOK, AwardsInv, NEW m \in Members, NEW entered \in Nat
  PROVE  Since(m, entered) \in Nat
<1>1. CASE HistoryOf(m) = {}
  BY <1>1 DEF Since
<1>2. CASE HistoryOf(m) # {}
  <2>1. PICK D : D = {promotions[i].awardedAt : i \in HistoryOf(m)}
    OBVIOUS
  <2>2. \A i \in HistoryOf(m) : promotions[i].awardedAt \in Nat /\ promotions[i].awardedAt <= attended[m]
    BY HistoryIsPlaces DEF Promotion, AwardsInv, HistoryOf
  <2>3. D \subseteq Nat /\ D # {} /\ attended[m] \in Nat /\ \A x \in D : x <= attended[m]
    <3>1. attended[m] \in Nat
      BY DEF RanksTypeOK
    <3>2. \A x \in D : x \in Nat /\ x <= attended[m]
      BY <2>1, <2>2
    <3> QED
      BY <1>2, <2>1, <3>1, <3>2
  <2>4. PICK x \in D : \A y \in D : y <= x
    BY <2>3, BoundedMax
  <2>5. \E i \in HistoryOf(m) : \A j \in HistoryOf(m) :
            promotions[j].awardedAt <= promotions[i].awardedAt
    BY <2>1, <2>4
  <2> QED
    BY <1>2, <2>2, <2>5 DEF Since
<1> QED
  BY <1>1, <1>2

(* What a continuation writes.                                              *)
LEMMA Continues ==
  ASSUME RanksTypeOK, NEW c \in Callers, NEW a \in Call, Continue(c, a)
  PROVE  /\ calls' \in [Callers -> Call]
         /\ calls'[c] = a /\ \A d \in Callers \ {c} : calls'[d] = calls[d]
BY DEF RanksTypeOK, Continue

LEMMA IdleIsCall == Idle \in Call
BY DEF Idle, Call, Roles

(* What was true of an execution when it read stays true while others write. *)
Grows ==
    /\ \A d \in Drafts : Minted(d) => Minted(d)'
    /\ \A m \in Members : positions[m] # None => positions'[m] # None
    /\ \A m \in Members : attended[m] \in Nat /\ attended'[m] \in Nat /\ attended[m] <= attended'[m]
    /\ \A m \in Members : \A i \in HistoryOf(m) :
           i \in HistoryOf(m)' /\ promotions'[i] = promotions[i]

LEMMA CallOKStays ==
  ASSUME NEW a \in Call, CallOK(a), Grows
  PROVE  CallOK(a)'
<1>1. /\ a.pc = "mint" => a.draft \in Drafts /\ (a.prior = None \/ Minted(a.prior))'
      /\ a.pc = "link" => Minted(a.draft)'
  BY DEF CallOK, Grows, Minted
<1>2. a.pc \in Awarding =>
          a.member \in Members /\ a.step \in AllSteps /\ positions'[a.member] # None
  BY DEF CallOK, Grows
<1>3. a.pc \in Awarding \ {"version"} =>
          /\ Minted(a.draft)' /\ a.step \in StepIds(Ladder[a.draft])
          /\ a.now <= attended'[a.member]
  <2> SUFFICES ASSUME a.pc \in Awarding \ {"version"}
               PROVE  /\ Minted(a.draft)' /\ a.step \in StepIds(Ladder[a.draft])
                      /\ a.now <= attended'[a.member]
    OBVIOUS
  <2>1. Minted(a.draft) /\ a.step \in StepIds(Ladder[a.draft]) /\ a.now <= attended[a.member]
    BY DEF CallOK
  <2>2. Minted(a.draft)'
    BY <2>1 DEF Grows, Minted
  <2>3. a.now \in Nat /\ a.member \in Members
    BY DEF Call, CallOK, Awarding
  <2>4. a.now <= attended'[a.member]
    BY <2>1, <2>3 DEF Grows
  <2> QED
    BY <2>1, <2>2, <2>4
<1>4. a.pc \in Awarding \ {"advance"} => Explained(a.member, a.from)'
  <2> SUFFICES ASSUME a.pc \in Awarding \ {"advance"}, a.from # None
               PROVE  \E i \in HistoryOf(a.member)' : promotions'[i].to = a.from
    BY DEF Explained
  <2>1. PICK i \in HistoryOf(a.member) : promotions[i].to = a.from
    BY DEF CallOK, Explained
  <2>2. a.member \in Members
    BY DEF CallOK, Awarding
  <2> QED
    BY <2>1, <2>2 DEF Grows
<1>5. a.pc = "advance" => \E i \in HistoryOf(a.member)' : promotions'[i].to = a.step
  BY DEF CallOK, Grows, Awarding
<1>6. a.pc = "enroll" => a.member \in Members
  BY DEF CallOK
<1>7. a.pc = "create" => (a.overridden = TRUE \/ PrerequisitesMet(a))
  BY DEF CallOK
<1> QED
  BY <1>1, <1>2, <1>3, <1>4, <1>5, <1>6, <1>7 DEF CallOK, Minted, Explained, PrerequisitesMet

(* An execution that goes on to a, sound in the new state, beside others.   *)
LEMMA CallsGoOn ==
  ASSUME RanksInv, NEW c \in Callers, NEW a \in Call, Continue(c, a), Grows, CallOK(a)'
  PROVE  CallsInv'
<1>1. calls'[c] = a /\ \A d \in Callers \ {c} : calls'[d] = calls[d]
  BY Continues DEF RanksInv
<1>2. \A d \in Callers : CallOK(calls[d])'
  <2> SUFFICES ASSUME NEW d \in Callers, NEW x, x = calls'[d] PROVE CallOK(x)'
    OBVIOUS
  <2>1. CASE d = c
    BY <1>1, <2>1
  <2>2. CASE d # c
    <3>1. x = calls[d] /\ x \in Call /\ CallOK(x)
      BY <1>1, <2>2 DEF RanksInv, RanksTypeOK, CallsInv
    <3> QED
      BY <3>1, CallOKStays
  <2> QED
    BY <2>1, <2>2
<1> QED
  BY <1>2 DEF CallsInv

LEMMA NothingGrows ==
  ASSUME RanksInv, UNCHANGED <<versions, positions, attended, promotions>>
  PROVE  Grows
BY DEF Grows, Minted, HistoryOf, RanksInv, RanksTypeOK

(* A step of an execution that writes nothing, and neither starts nor ends  *)
(* the second half of a publication or an award, but for a crash, which is  *)
(* put on record.                                                           *)
LEMMA CallMovesOn ==
  ASSUME RanksInv, NEW c \in Callers, NEW a \in Call, Continue(c, a), CallOK(a),
         UNCHANGED <<rankVars, memberVars, workload>>,
         raced \subseteq raced', raced' \subseteq {"publish", "award"},
         a.pc \notin {"link", "advance"},
         calls[c].pc = "link" => "publish" \in raced',
         calls[c].pc = "advance" => "award" \in raced'
  PROVE  RanksInv'
<1>1. /\ UNCHANGED <<versions, handle>> /\ UNCHANGED <<positions, promotions>>
      /\ UNCHANGED <<attended, graded, completed, workload>>
  BY DEF rankVars, memberVars, factVars
<1>2. /\ calls' \in [Callers -> Call]
      /\ calls'[c] = a /\ \A d \in Callers \ {c} : calls'[d] = calls[d]
  BY Continues DEF RanksInv
<1>3. RanksTypeOK'
  BY <1>1, <1>2 DEF RanksInv, RanksTypeOK
<1>4. CallsInv'
  <2>1. CallOK(a)'
    BY <1>1, NothingGrows, CallOKStays
  <2> QED
    BY <1>1, <2>1, NothingGrows, CallsGoOn
<1>5. HandleInv' /\ PositionsInv' /\ AwardsInv' /\ PrerequisiteHeld'
  BY <1>1 DEF RanksInv, HandleInv, PositionsInv, AwardsInv, PrerequisiteHeld, Minted,
              HistoryOf, Explained
<1>6. Numbering'
  <2> SUFFICES ASSUME "publish" \notin raced' PROVE Numbering'
    BY DEF Numbering
  <2>1. \A d \in Callers : Linking(d)' <=> Linking(d)
    BY <1>2 DEF Linking
  <2>2. \A d \in Callers : Linking(d) => calls'[d] = calls[d]
    BY <1>2 DEF Linking
  <2> QED
    BY <1>1, <2>1, <2>2 DEF RanksInv, Numbering, Minted
<1>7. Chained'
  <2> SUFFICES ASSUME "award" \notin raced' PROVE Chained'
    BY DEF Chained
  <2>1. \A d \in Callers, m \in Members : Advancing(d, m)' <=> Advancing(d, m)
    BY <1>2 DEF Advancing
  <2>2. \A d \in Callers, m \in Members : Advancing(d, m) => calls'[d] = calls[d]
    BY <1>2 DEF Advancing
  <2>3. \A i : StartsAtPrevious(i)' <=> StartsAtPrevious(i)
    BY <1>1 DEF StartsAtPrevious, HistoryOf
  <2>4. \A m, i : Newest(m, i)' <=> Newest(m, i)
    BY <1>1 DEF Newest, HistoryOf
  <2> QED
    BY <1>1, <2>1, <2>2, <2>3, <2>4 DEF RanksInv, Chained
<1> QED
  BY <1>3, <1>4, <1>5, <1>6, <1>7 DEF RanksInv

LEMMA CallEnds ==
  ASSUME RanksInv, NEW c \in Callers, End(c),
         UNCHANGED <<rankVars, memberVars, workload>>,
         raced \subseteq raced', raced' \subseteq {"publish", "award"},
         calls[c].pc = "link" => "publish" \in raced',
         calls[c].pc = "advance" => "award" \in raced'
  PROVE  RanksInv'
<1>1. Idle \in Call /\ Idle.pc = "idle" /\ Continue(c, Idle)
  BY IdleIsCall DEF Idle, End
<1>2. CallOK(Idle)
  BY DEF CallOK, Idle, Awarding
<1> QED
  BY <1>1, <1>2, CallMovesOn

-----------------------------------------------------------------------------
LEMMA InitInv == RanksInit => RanksInv
<1> SUFFICES ASSUME RanksInit PROVE RanksInv
  OBVIOUS
<1>1. RanksTypeOK
  BY IdleIsCall, RanksAssumption DEF RanksInit, RanksTypeOK
<1>2. promotions = <<>> /\ DOMAIN promotions = {} /\ \A c \in Callers : calls[c].pc = "idle"
  BY DEF RanksInit, Idle
<1>3. CallsInv
  BY <1>2 DEF CallsInv, CallOK, Awarding
<1>4. HandleInv /\ PositionsInv /\ AwardsInv /\ PrerequisiteHeld
  BY <1>2 DEF RanksInit, HandleInv, PositionsInv, AwardsInv, PrerequisiteHeld, HistoryOf
<1>5. Numbering
  BY <1>2 DEF RanksInit, Numbering, Linking, Minted
<1>6. Chained
  BY <1>2 DEF RanksInit, Chained, Advancing
<1> QED
  BY <1>1, <1>3, <1>4, <1>5, <1>6 DEF RanksInv

(***************************************************************************)
(* Publishing.                                                             *)
(***************************************************************************)
LEMMA RequestPublishKeeps ==
  ASSUME RanksInv, NEW c \in Callers, NEW d \in Drafts, RequestPublish(c, d)
  PROVE  RanksInv'
<1>1. PICK a : a = [Idle EXCEPT !.pc = "mint", !.draft = d, !.prior = handle.current]
  OBVIOUS
<1>2. handle.current \in Drafts \cup {None}
  BY DEF RanksInv, RanksTypeOK
<1>3. a \in Call /\ a.pc = "mint" /\ a.draft = d /\ a.prior = handle.current
  BY <1>1, <1>2 DEF Idle, Call, Roles
<1>4. CallOK(a)
  BY <1>2, <1>3 DEF CallOK, RanksInv, HandleInv, Awarding
<1>5. /\ Continue(c, a) /\ UNCHANGED <<rankVars, memberVars>> /\ UNCHANGED raced
      /\ UNCHANGED workload /\ calls[c].pc = "idle" /\ raced \subseteq {"publish", "award"}
  BY <1>1 DEF RequestPublish, history, RanksInv, RanksTypeOK
<1> QED
  BY <1>3, <1>4, <1>5, CallMovesOn

LEMMA CreateVersionKeeps ==
  ASSUME RanksInv, NEW c \in Callers, CreateVersion(c)
  PROVE  RanksInv'
<1>1. PICK d, p : d = calls[c].draft /\ p = calls[c].prior
  OBVIOUS
<1>2. /\ calls[c].pc = "mint" /\ d \in Drafts /\ (p = None \/ Minted(p)) /\ calls[c] \in Call
      /\ UNCHANGED handle /\ UNCHANGED memberVars /\ UNCHANGED workload
      /\ raced \subseteq {"publish", "award"}
  BY <1>1 DEF CreateVersion, RanksInv, CallsInv, CallOK, RanksTypeOK
<1>3. CASE versions[d] # 0
  BY <1>1, <1>2, <1>3, CallEnds DEF CreateVersion, rankVars
<1>4. CASE versions[d] = 0
  <2>1. PICK v : v = MintNumber(d, p)
    OBVIOUS
  <2>2. versions \in [Drafts -> Nat] /\ None \notin Drafts
    BY RanksAssumption DEF RanksInv, RanksTypeOK
  <2>3. /\ v \in Nat /\ v # 0 /\ (p = None => v = 1)
        /\ p # None => versions[p] \in Nat /\ v = versions[p] + 1
    BY <1>2, <1>4, <2>1, <2>2 DEF MintNumber, Minted
  <2>4. PICK a : a = [calls[c] EXCEPT !.pc = "link"]
    OBVIOUS
  <2>5. a \in Call /\ a.pc = "link" /\ a.draft = d
    BY <1>1, <1>2, <2>4 DEF Call
  <2>6. /\ versions' = [versions EXCEPT ![d] = v] /\ Continue(c, a)
        /\ raced' = IF handle.current # p \/ Other(c, "link") # {}
                    THEN raced \cup {"publish"} ELSE raced
    BY <1>1, <1>4, <2>1, <2>4 DEF CreateVersion
  <2>7. /\ calls' \in [Callers -> Call]
        /\ calls'[c] = a /\ \A e \in Callers \ {c} : calls'[e] = calls[e]
    BY <2>5, <2>6, Continues DEF RanksInv
  <2>8. /\ versions' \in [Drafts -> Nat] /\ versions'[d] = v
        /\ \A e \in Drafts \ {d} : versions'[e] = versions[e]
    BY <1>2, <2>2, <2>3, <2>6
  <2>9. \A e : Minted(e)' <=> (Minted(e) \/ e = d)
    BY <1>2, <2>3, <2>8 DEF Minted
  <2>10. UNCHANGED <<positions, promotions>> /\ UNCHANGED <<attended, graded, completed>>
    BY <1>2 DEF memberVars, factVars
  <2>11. RanksTypeOK'
    BY <1>2, <2>6, <2>7, <2>8, <2>10 DEF RanksInv, RanksTypeOK
  <2>12. CallsInv'
    <3>1. Grows
      BY <2>9, <2>10 DEF Grows, HistoryOf, RanksInv, RanksTypeOK
    <3>2. CallOK(a)'
      BY <2>5, <2>9 DEF CallOK, Awarding
    <3> QED
      BY <2>5, <2>6, <3>1, <3>2, CallsGoOn
  <2>13. HandleInv' /\ PositionsInv' /\ AwardsInv' /\ PrerequisiteHeld'
    BY <1>2, <2>9, <2>10 DEF RanksInv, HandleInv, PositionsInv, AwardsInv, PrerequisiteHeld,
       HistoryOf, Explained
  <2>14. Numbering'
    <3> SUFFICES ASSUME "publish" \notin raced' PROVE Numbering'
      BY DEF Numbering
    <3>1. /\ "publish" \notin raced /\ handle.current = p
          /\ \A e \in Callers \ {c} : ~Linking(e)
      BY <2>6 DEF Other, Linking
    <3>2. Linking(c)' /\ calls'[c].draft = d /\ ~Linking(c)
          /\ \A e \in Callers \ {c} : ~Linking(e)'
      BY <1>2, <2>5, <2>7, <3>1 DEF Linking
    <3>3. \A e \in Drafts : Minted(e) /\ e # p => p # None /\ versions[e] < versions[p]
      BY <3>1, <3>2 DEF RanksInv, Numbering
    <3>4. \A e \in Drafts : Minted(e) => versions'[e] = versions[e] /\ versions'[e] < v
      <4> SUFFICES ASSUME NEW e \in Drafts, Minted(e)
                   PROVE  versions'[e] = versions[e] /\ versions'[e] < v
        OBVIOUS
      <4>1. e # d /\ versions'[e] = versions[e] /\ versions[e] \in Nat
        BY <1>4, <2>2, <2>8 DEF Minted
      <4>2. CASE e = p
        BY <2>2, <2>3, <4>1, <4>2 DEF Minted
      <4>3. CASE e # p
        BY <2>3, <3>3, <4>1, <4>3
      <4> QED
        BY <4>1, <4>2, <4>3
    <3>5. \A e \in Drafts : Minted(e)' /\ e # d => versions'[e] < versions'[calls'[c].draft]
      BY <2>8, <2>9, <3>2, <3>4
    <3>6. ASSUME NEW e \in Drafts, Minted(e)', e # handle'.current
          PROVE  \/ handle'.current # None /\ versions'[e] < versions'[handle'.current]
                 \/ \E x \in Callers : Linking(x)' /\ calls'[x].draft = e
      <4>1. CASE e = d
        BY <3>2, <4>1
      <4>2. CASE e # d
        <5>1. Minted(e) /\ handle'.current = p /\ e # p
          BY <1>2, <2>9, <3>1, <3>6, <4>2
        <5>2. p # None /\ Minted(p) /\ p \in Drafts
          BY <1>2, <3>3, <5>1 DEF Minted
        <5>3. versions'[e] = versions[e] /\ versions'[p] = versions[p] /\ versions[e] < versions[p]
          BY <3>3, <3>4, <5>1, <5>2
        <5> QED
          BY <5>1, <5>2, <5>3
      <4> QED
        BY <4>1, <4>2
    <3>7. \A e, f \in Drafts : Minted(e)' /\ Minted(f)' /\ versions'[e] = versions'[f] => e = f
      <4> SUFFICES ASSUME NEW e \in Drafts, NEW f \in Drafts, Minted(e)', Minted(f)',
                          versions'[e] = versions'[f]
                   PROVE  e = f
        OBVIOUS
      <4>1. CASE e # d /\ f # d
        BY <2>9, <3>1, <3>4, <4>1 DEF RanksInv, Numbering
      <4>2. \A x \in Drafts : Minted(x) => versions'[x] \in Nat /\ versions'[x] < v
        BY <2>8, <3>4
      <4>3. CASE e = d
        <5> SUFFICES ASSUME f # d PROVE FALSE
          BY <4>3
        <5>1. Minted(f)
          BY <2>9
        <5>2. versions'[f] = v
          BY <2>8, <4>3
        <5> QED
          BY <2>3, <4>2, <5>1, <5>2
      <4>4. CASE f = d
        <5> SUFFICES ASSUME e # d PROVE FALSE
          BY <4>4
        <5>1. Minted(e)
          BY <2>9
        <5>2. versions'[e] = v
          BY <2>8, <4>4
        <5> QED
          BY <2>3, <4>2, <5>1, <5>2
      <4> QED
        BY <4>1, <4>3, <4>4
    <3> QED
      BY <3>2, <3>5, <3>6, <3>7 DEF Numbering
  <2>15. Chained'
    <3> SUFFICES ASSUME "award" \notin raced' PROVE Chained'
      BY DEF Chained
    <3>1. "award" \notin raced
      BY <2>6
    <3>2. \A e \in Callers, m \in Members : Advancing(e, m)' <=> Advancing(e, m)
      BY <1>2, <2>5, <2>7 DEF Advancing
    <3>3. \A e \in Callers, m \in Members : Advancing(e, m) => calls'[e] = calls[e]
      BY <1>2, <2>7 DEF Advancing
    <3>4. \A i : StartsAtPrevious(i)' <=> StartsAtPrevious(i)
      BY <2>10 DEF StartsAtPrevious, HistoryOf
    <3>5. \A m, i : Newest(m, i)' <=> Newest(m, i)
      BY <2>10 DEF Newest, HistoryOf
    <3> QED
      BY <2>10, <3>1, <3>2, <3>3, <3>4, <3>5 DEF RanksInv, Chained
  <2> QED
    BY <2>11, <2>12, <2>13, <2>14, <2>15 DEF RanksInv
<1> QED
  BY <1>2, <1>3, <1>4 DEF RanksInv, RanksTypeOK

LEMMA LinkVersionKeeps ==
  ASSUME RanksInv, NEW c \in Callers, LinkVersion(c)
  PROVE  RanksInv'
<1>1. PICK d : d = calls[c].draft
  OBVIOUS
<1>2. /\ calls[c].pc = "link" /\ Minted(d) /\ Linking(c)
      /\ handle' = [current |-> d, ids |-> handle.ids \cup {d}] /\ Continue(c, Idle)
      /\ UNCHANGED versions /\ UNCHANGED memberVars /\ UNCHANGED raced /\ UNCHANGED workload
  BY <1>1 DEF LinkVersion, RanksInv, CallsInv, CallOK, Linking, End, history
<1>3. UNCHANGED <<positions, promotions>> /\ UNCHANGED <<attended, graded, completed>>
  BY <1>2 DEF memberVars, factVars
<1>4. Idle \in Call /\ Idle.pc = "idle" /\ CallOK(Idle)'
  BY IdleIsCall DEF Idle, CallOK, Awarding
<1>5. /\ calls' \in [Callers -> Call]
      /\ calls'[c] = Idle /\ \A e \in Callers \ {c} : calls'[e] = calls[e]
  BY <1>2, <1>4, Continues DEF RanksInv
<1>6. /\ handle'.current = d /\ handle'.ids = handle.ids \cup {d} /\ d \in Drafts
      /\ handle.ids \subseteq Drafts
  BY <1>2 DEF RanksInv, RanksTypeOK, Minted
<1>7. RanksTypeOK'
  <2>1. handle' \in [current : Drafts \cup {None}, ids : SUBSET Drafts]
    BY <1>2, <1>6
  <2> QED
    BY <1>2, <1>3, <1>5, <2>1 DEF RanksInv, RanksTypeOK
<1>8. CallsInv'
  <2>1. Grows
    BY <1>2, <1>3, NothingGrows
  <2> QED
    BY <1>2, <1>4, <2>1, CallsGoOn
<1>9. HandleInv' /\ PositionsInv' /\ AwardsInv' /\ PrerequisiteHeld'
  <2>1. HandleInv'
    BY <1>2, <1>6 DEF RanksInv, HandleInv, Minted
  <2> QED
    BY <1>2, <1>3, <2>1 DEF RanksInv, PositionsInv, AwardsInv, PrerequisiteHeld, Minted,
       HistoryOf, Explained
<1>10. Numbering'
  <2> SUFFICES ASSUME "publish" \notin raced' PROVE Numbering'
    BY DEF Numbering
  <2>1. \A e \in Callers : Linking(e) => e = c
    BY <1>2 DEF RanksInv, Numbering
  <2>2. \A e \in Callers : ~Linking(e)'
    BY <1>4, <1>5, <2>1 DEF Linking
  <2>3. \A e \in Drafts : Minted(e) /\ e # d => versions[e] < versions[d]
    BY <1>1, <1>2 DEF RanksInv, Numbering
  <2>4. d # None
    BY <1>6, RanksAssumption
  <2>5. \A e, f \in Drafts : Minted(e) /\ Minted(f) /\ versions[e] = versions[f] => e = f
    BY <1>2 DEF RanksInv, Numbering
  <2>6. \A e : Minted(e)' <=> Minted(e)
    BY <1>2 DEF Minted
  <2> QED
    BY <1>2, <1>6, <2>2, <2>3, <2>4, <2>5, <2>6 DEF Numbering
<1>11. Chained'
  <2> SUFFICES ASSUME "award" \notin raced' PROVE Chained'
    BY DEF Chained
  <2>1. "award" \notin raced
    BY <1>2
  <2>2. \A e \in Callers, m \in Members : Advancing(e, m)' <=> Advancing(e, m)
    BY <1>2, <1>4, <1>5 DEF Advancing
  <2>3. \A e \in Callers, m \in Members : Advancing(e, m) => calls'[e] = calls[e]
    BY <1>2, <1>5 DEF Advancing
  <2>4. \A i : StartsAtPrevious(i)' <=> StartsAtPrevious(i)
    BY <1>3 DEF StartsAtPrevious, HistoryOf
  <2>5. \A m, i : Newest(m, i)' <=> Newest(m, i)
    BY <1>3 DEF Newest, HistoryOf
  <2> QED
    BY <1>3, <2>1, <2>2, <2>3, <2>4, <2>5 DEF RanksInv, Chained
<1> QED
  BY <1>7, <1>8, <1>9, <1>10, <1>11 DEF RanksInv

(***************************************************************************)
(* Enrolling, and the facts that awards depend on.                         *)
(***************************************************************************)
LEMMA RequestEnrollKeeps ==
  ASSUME RanksInv, NEW c \in Callers, NEW m \in Members, RequestEnroll(c, m)
  PROVE  RanksInv'
<1>1. PICK a : a = [Idle EXCEPT !.pc = "enroll", !.member = m]
  OBVIOUS
<1>2. a \in Call /\ a.pc = "enroll" /\ a.member = m
  BY <1>1 DEF Idle, Call, Roles
<1>3. CallOK(a)
  BY <1>2 DEF CallOK, Awarding
<1>4. /\ Continue(c, a) /\ UNCHANGED <<rankVars, memberVars>> /\ UNCHANGED raced
      /\ UNCHANGED workload /\ calls[c].pc = "idle" /\ raced \subseteq {"publish", "award"}
  BY <1>1 DEF RequestEnroll, history, RanksInv, RanksTypeOK
<1> QED
  BY <1>2, <1>3, <1>4, CallMovesOn

(* A new member starts before the first step, so where nothing is explained *)
(* nothing is claimed; a member who has a history is not new.               *)
LEMMA CreateRankStateKeeps ==
  ASSUME RanksInv, NEW c \in Callers, CreateRankState(c)
  PROVE  RanksInv'
<1>1. PICK m, x : m = calls[c].member /\ x = EntryPosition(m)
  OBVIOUS
<1>2. /\ calls[c].pc = "enroll" /\ m \in Members /\ Continue(c, Idle)
      /\ positions' = IF positions[m] = None THEN [positions EXCEPT ![m] = x] ELSE positions
      /\ UNCHANGED rankVars /\ UNCHANGED promotions /\ UNCHANGED factVars
      /\ UNCHANGED raced /\ UNCHANGED workload
  BY <1>1 DEF CreateRankState, RanksInv, CallsInv, CallOK, End, history
<1>3. x \in Position /\ x.step = None /\ x # None
  BY <1>1, <1>2, RanksAssumption DEF EntryPosition, Position, RanksInv, RanksTypeOK
<1>4. CASE positions[m] # None
  BY <1>2, <1>4, CallEnds DEF End, memberVars, RanksInv, RanksTypeOK
<1>5. CASE positions[m] = None
  <2>1. UNCHANGED <<versions, handle>> /\ UNCHANGED <<attended, graded, completed>>
    BY <1>2 DEF rankVars, factVars
  <2>2. /\ positions' \in [Members -> Position \cup {None}] /\ positions'[m] = x
        /\ \A n \in Members \ {m} : positions'[n] = positions[n]
    BY <1>2, <1>3, <1>5 DEF RanksInv, RanksTypeOK
  <2>3. Idle \in Call /\ Idle.pc = "idle" /\ CallOK(Idle)'
    BY IdleIsCall DEF Idle, CallOK, Awarding
  <2>4. /\ calls' \in [Callers -> Call]
        /\ calls'[c] = Idle /\ \A e \in Callers \ {c} : calls'[e] = calls[e]
    BY <1>2, <2>3, Continues DEF RanksInv
  <2>5. RanksTypeOK'
    BY <1>2, <2>1, <2>2, <2>4 DEF RanksInv, RanksTypeOK
  <2>6. CallsInv'
    <3>1. Grows
      BY <1>2, <1>3, <2>1, <2>2 DEF Grows, Minted, HistoryOf, RanksInv, RanksTypeOK
    <3> QED
      BY <1>2, <2>3, <3>1, CallsGoOn
  <2>7. HistoryOf(m) = {}
    BY <1>2, <1>5 DEF RanksInv, PositionsInv
  <2>8. \A n : HistoryOf(n)' = HistoryOf(n)
    BY <1>2 DEF HistoryOf
  <2>9. PositionsInv'
    BY <1>2, <1>3, <2>2, <2>8 DEF RanksInv, PositionsInv, Explained
  <2>10. HandleInv' /\ AwardsInv' /\ PrerequisiteHeld'
    BY <1>2, <2>1 DEF RanksInv, HandleInv, AwardsInv, PrerequisiteHeld, Minted, HistoryOf
  <2>11. Numbering'
    <3>1. \A e \in Callers : Linking(e)' <=> Linking(e)
      BY <1>2, <2>3, <2>4 DEF Linking
    <3>2. \A e \in Callers : Linking(e) => calls'[e] = calls[e]
      BY <1>2, <2>4 DEF Linking
    <3> QED
      BY <1>2, <2>1, <3>1, <3>2 DEF RanksInv, Numbering, Minted
  <2>12. Chained'
    <3> SUFFICES ASSUME "award" \notin raced' PROVE Chained'
      BY DEF Chained
    <3>1. "award" \notin raced
      BY <1>2
    <3>2. \A e \in Callers, n \in Members : Advancing(e, n)' <=> Advancing(e, n)
      BY <1>2, <2>3, <2>4 DEF Advancing
    <3>3. \A e \in Callers, n \in Members : Advancing(e, n) => calls'[e] = calls[e]
      BY <1>2, <2>4 DEF Advancing
    <3>4. \A i : StartsAtPrevious(i)' <=> StartsAtPrevious(i)
      BY <1>2 DEF StartsAtPrevious, HistoryOf
    <3>5. \A n, i : Newest(n, i)' <=> Newest(n, i)
      BY <1>2 DEF Newest, HistoryOf
    <3>6. \A i : ~Newest(m, i)
      BY <2>7 DEF Newest
    <3> QED
      BY <1>2, <2>2, <3>1, <3>2, <3>3, <3>4, <3>5, <3>6 DEF RanksInv, Chained
  <2> QED
    BY <2>5, <2>6, <2>9, <2>10, <2>11, <2>12 DEF RanksInv
<1> QED
  BY <1>4, <1>5

LEMMA FactsKeep ==
  ASSUME RanksInv, NEW m \in Members, FactStep(m)
  PROVE  RanksInv'
<1>1. UNCHANGED <<versions, handle>> /\ UNCHANGED <<positions, promotions, calls, raced, workload>>
  BY DEF FactStep, AttendClass, RecordResult, MarkItem, rankVars, history
<1>2. /\ attended' \in [Members -> Nat] /\ graded' \in [Members -> SUBSET Graded]
      /\ completed' \in [Members -> SUBSET Items]
      /\ \A n \in Members : attended[n] <= attended'[n]
  <2>1. CASE AttendClass(m)
    BY <2>1 DEF AttendClass, RanksInv, RanksTypeOK
  <2>2. ASSUME NEW s \in Graded, NEW passed, RecordResult(m, s, passed)
        PROVE  UNCHANGED <<attended, completed>> /\ graded' \in [Members -> SUBSET Graded]
    BY <2>2 DEF RecordResult, RanksInv, RanksTypeOK
  <2>3. ASSUME NEW i \in Items, NEW done, MarkItem(m, i, done)
        PROVE  UNCHANGED <<attended, graded>> /\ completed' \in [Members -> SUBSET Items]
    BY <2>3 DEF MarkItem, RanksInv, RanksTypeOK
  <2> QED
    BY <2>1, <2>2, <2>3 DEF FactStep, RanksInv, RanksTypeOK
<1>3. RanksTypeOK'
  BY <1>1, <1>2 DEF RanksInv, RanksTypeOK
<1>4. CallsInv'
  <2>1. Grows
    BY <1>1, <1>2 DEF Grows, Minted, HistoryOf, RanksInv, RanksTypeOK
  <2>2. \A d \in Callers : CallOK(calls[d])'
    <3> SUFFICES ASSUME NEW d \in Callers, NEW x, x = calls[d] PROVE CallOK(x)'
      BY <1>1
    <3>1. x \in Call /\ CallOK(x)
      BY DEF RanksInv, RanksTypeOK, CallsInv
    <3> QED
      BY <2>1, <3>1, CallOKStays
  <2> QED
    BY <2>2 DEF CallsInv
<1>5. AwardsInv'
  <2>1. \A i \in DOMAIN promotions : promotions[i].awardedAt \in Nat /\ promotions[i].member \in Members
    <3>1. \A i \in DOMAIN promotions : promotions[i] \in Promotion
      BY DEF RanksInv, RanksTypeOK
    <3> QED
      BY <3>1 DEF Promotion
  <2> QED
    BY <1>1, <1>2, <2>1 DEF RanksInv, RanksTypeOK, AwardsInv, Minted
<1>6. HandleInv' /\ PositionsInv' /\ PrerequisiteHeld'
  BY <1>1 DEF RanksInv, HandleInv, PositionsInv, PrerequisiteHeld, Minted, HistoryOf, Explained
<1>7. Numbering'
  BY <1>1 DEF RanksInv, Numbering, Linking, Minted
<1>8. Chained'
  BY <1>1 DEF RanksInv, Chained, StartsAtPrevious, Newest, HistoryOf, Advancing
<1> QED
  BY <1>3, <1>4, <1>5, <1>6, <1>7, <1>8 DEF RanksInv

(***************************************************************************)
(* Awarding.                                                               *)
(***************************************************************************)
LEMMA RequestAwardKeeps ==
  ASSUME RanksInv, NEW c \in Callers, NEW m \in Members, NEW s \in AllSteps,
         NEW role \in Roles, NEW overridden \in BOOLEAN,
         RequestAward(c, m, s, role, overridden)
  PROVE  RanksInv'
<1>1. PICK f, n : f = positions[m].step /\ n = positions[m].since
  OBVIOUS
<1>2. PICK a : a = [Idle EXCEPT !.pc = "version", !.member = m, !.step = s, !.from = f,
                                !.since = n, !.role = role, !.overridden = overridden]
  OBVIOUS
<1>3. positions[m] \in Position /\ f \in AllSteps \cup {None} /\ n \in Nat
  BY <1>1 DEF RequestAward, RanksInv, RanksTypeOK, Position
<1>4. /\ a \in Call /\ a.pc = "version" /\ a.member = m /\ a.step = s /\ a.from = f
      /\ a.overridden = overridden
  BY <1>2, <1>3 DEF Idle, Call, Roles
<1>5. Explained(m, f) /\ positions[m] # None
  BY <1>1 DEF RequestAward, RanksInv, PositionsInv
<1>6. CallOK(a)
  BY <1>4, <1>5 DEF CallOK, Awarding
<1>7. /\ Continue(c, a) /\ UNCHANGED <<rankVars, memberVars>> /\ UNCHANGED raced
      /\ UNCHANGED workload /\ calls[c].pc = "idle" /\ raced \subseteq {"publish", "award"}
  BY <1>1, <1>2 DEF RequestAward, history, RanksInv, RanksTypeOK
<1> QED
  BY <1>4, <1>6, <1>7, CallMovesOn

LEMMA ReadVersionKeeps ==
  ASSUME RanksInv, NEW c \in Callers, ReadVersion(c)
  PROVE  RanksInv'
<1>1. PICK k, d, t : k = calls[c] /\ d = handle.current /\ t = attended[k.member]
  OBVIOUS
<1>2. /\ k \in Call /\ CallOK(k) /\ k.pc = "version" /\ d # None
      /\ UNCHANGED <<rankVars, memberVars>> /\ UNCHANGED raced /\ UNCHANGED workload
      /\ raced \subseteq {"publish", "award"}
  BY <1>1 DEF ReadVersion, history, RanksInv, RanksTypeOK, CallsInv
<1>3. /\ k.member \in Members /\ k.step \in AllSteps /\ positions[k.member] # None
      /\ Explained(k.member, k.from) /\ t \in Nat /\ d \in Drafts /\ Minted(d)
  BY <1>1, <1>2 DEF CallOK, Awarding, RanksInv, RanksTypeOK, HandleInv
<1>4. CASE k.step \in StepIds(Ladder[d])
  <2>1. PICK a : a = [k EXCEPT !.pc = "history", !.draft = d, !.now = t]
    OBVIOUS
  <2>2. /\ a \in Call /\ a.pc = "history" /\ a.draft = d /\ a.now = t /\ a.member = k.member
        /\ a.step = k.step /\ a.from = k.from
    BY <1>2, <1>3, <2>1 DEF Call
  <2>3. CallOK(a)
    BY <1>1, <1>3, <1>4, <2>2 DEF CallOK, Awarding
  <2>4. Continue(c, a)
    BY <1>1, <1>4, <2>1 DEF ReadVersion
  <2> QED
    BY <1>1, <1>2, <2>2, <2>3, <2>4, CallMovesOn
<1>5. CASE k.step \notin StepIds(Ladder[d])
  BY <1>1, <1>2, <1>5, CallEnds DEF ReadVersion
<1> QED
  BY <1>4, <1>5

LEMMA ReadHistoryKeeps ==
  ASSUME RanksInv, NEW c \in Callers, ReadHistory(c)
  PROVE  RanksInv'
<1>1. PICK k, n : k = calls[c] /\ n = Since(k.member, k.since)
  OBVIOUS
<1>2. /\ k \in Call /\ CallOK(k) /\ k.pc = "history"
      /\ UNCHANGED <<rankVars, memberVars>> /\ UNCHANGED raced /\ UNCHANGED workload
      /\ raced \subseteq {"publish", "award"}
  BY <1>1 DEF ReadHistory, history, RanksInv, RanksTypeOK, CallsInv
<1>3. k.since \in Nat /\ k.member \in Members
  BY <1>2 DEF Call, CallOK, Awarding
<1>4. n \in Nat
  BY <1>1, <1>3, SinceIsNat DEF RanksInv
<1>5. PICK a : a = [k EXCEPT !.pc = "facts", !.since = n]
  OBVIOUS
<1>6. /\ a \in Call /\ a.pc = "facts" /\ a.draft = k.draft /\ a.now = k.now
      /\ a.member = k.member /\ a.step = k.step /\ a.from = k.from
  BY <1>2, <1>4, <1>5 DEF Call
<1>7. CallOK(a)
  BY <1>2, <1>6 DEF CallOK, Awarding
<1>8. Continue(c, a)
  BY <1>1, <1>5 DEF ReadHistory
<1> QED
  BY <1>1, <1>2, <1>6, <1>7, <1>8, CallMovesOn

(* The engine finds no required criterion unmet: the required prerequisites *)
(* are cleared.                                                             *)
LEMMA NothingUnmet ==
  ASSUME NEW k, UnmetRequired(k) = {}
  PROVE  PrerequisitesMet(k)
<1> SUFFICES ASSUME NEW l \in Leaves(k.draft, k.step), l.type = "prerequisiteStep",
                    l.enforcement = "required"
             PROVE  PrerequisiteCleared(Ladder[k.draft], l.stepId, k.from)
  BY DEF PrerequisitesMet
<1>1. PICK input : input = Input(k)
  OBVIOUS
<1>2. ~Blocking(EvaluateLeaf(l, Ladder[k.draft], k.step, input))
  BY <1>1 DEF UnmetRequired
<1>3. input.currentStepId = k.from
  BY <1>1 DEF Input
<1>4. PICK e : e = EvaluateLeaf(l, Ladder[k.draft], k.step, input)
  OBVIOUS
<1>5. /\ e.enforcement = "required" /\ e.target = 1
      /\ e.current = AsNumber(PrerequisiteCleared(Ladder[k.draft], l.stepId, k.from))
  BY <1>3, <1>4 DEF EvaluateLeaf, Current, Target
<1>6. AsNumber(PrerequisiteCleared(Ladder[k.draft], l.stepId, k.from)) >= 1
  BY <1>2, <1>4, <1>5 DEF Blocking, Satisfied
<1> QED
  BY <1>6 DEF AsNumber

LEMMA PromoteKeeps ==
  ASSUME RanksInv, NEW c \in Callers, Promote(c)
  PROVE  RanksInv'
<1>1. PICK k : k = calls[c]
  OBVIOUS
<1>2. /\ k \in Call /\ CallOK(k) /\ k.pc = "facts"
      /\ UNCHANGED <<rankVars, memberVars>> /\ UNCHANGED raced /\ UNCHANGED workload
      /\ raced \subseteq {"publish", "award"}
  BY <1>1 DEF Promote, history, RanksInv, RanksTypeOK, CallsInv
<1>3. CASE Refused(k)
  BY <1>1, <1>2, <1>3, CallEnds DEF Promote
<1>4. CASE ~Refused(k)
  <2>1. PICK a : a = [k EXCEPT !.pc = "create", !.since = 0, !.role = "instructor"]
    OBVIOUS
  <2>2. /\ a \in Call /\ a.pc = "create" /\ a.draft = k.draft /\ a.now = k.now
        /\ a.member = k.member /\ a.step = k.step /\ a.from = k.from
        /\ a.overridden = k.overridden
    BY <1>2, <2>1 DEF Call, Roles
  <2>3. k.overridden = TRUE \/ UnmetRequired(k) = {}
    <3>1. k.overridden \in BOOLEAN
      BY <1>2 DEF Call
    <3> QED
      BY <1>4, <3>1 DEF Refused
  <2>4. a.overridden = TRUE \/ PrerequisitesMet(a)
    <3>1. CASE UnmetRequired(k) = {}
      <4>1. PrerequisitesMet(k)
        BY <3>1, NothingUnmet
      <4> QED
        BY <2>2, <4>1 DEF PrerequisitesMet
    <3> QED
      BY <2>2, <2>3, <3>1
  <2>5. CallOK(a)
    <3>1. k.member \in Members /\ k.step \in AllSteps /\ positions[k.member] # None
      BY <1>2 DEF CallOK, Awarding
    <3>2. /\ Minted(k.draft) /\ k.step \in StepIds(Ladder[k.draft])
          /\ k.now <= attended[k.member] /\ Explained(k.member, k.from)
      BY <1>2 DEF CallOK, Awarding
    <3> QED
      BY <2>2, <2>4, <3>1, <3>2 DEF CallOK
  <2>6. Continue(c, a)
    BY <1>1, <1>4, <2>1 DEF Promote
  <2> QED
    BY <1>1, <1>2, <2>2, <2>5, <2>6, CallMovesOn
<1> QED
  BY <1>3, <1>4

LEMMA CrashKeeps ==
  ASSUME RanksInv, NEW c \in Callers, Crash(c)
  PROVE  RanksInv'
<1>1. /\ End(c) /\ UNCHANGED <<rankVars, memberVars, workload>>
      /\ raced \subseteq raced' /\ raced' \subseteq {"publish", "award"}
      /\ calls[c].pc = "link" => "publish" \in raced'
      /\ calls[c].pc = "advance" => "award" \in raced'
  BY DEF Crash, RanksInv, RanksTypeOK
<1> QED
  BY <1>1, CallEnds

(* The history only grows, and at its end.                                  *)
LEMMA HistoryGrows ==
  ASSUME RanksTypeOK, NEW p \in Promotion, promotions' = Append(promotions, p)
  PROVE  /\ promotions' \in Seq(Promotion)
         /\ DOMAIN promotions' = DOMAIN promotions \cup {Len(promotions) + 1}
         /\ \A i \in DOMAIN promotions : promotions'[i] = promotions[i]
         /\ promotions'[Len(promotions) + 1] = p
         /\ \A m : HistoryOf(m)' = IF m = p.member THEN HistoryOf(m) \cup {Len(promotions) + 1}
                                   ELSE HistoryOf(m)
         /\ \A i \in DOMAIN promotions : i \in Nat /\ i < Len(promotions) + 1
         /\ Len(promotions) + 1 \in Nat /\ Len(promotions) + 1 \notin DOMAIN promotions
<1>1. PICK q, r : q = promotions /\ r = promotions'
  OBVIOUS
<1>2. q \in Seq(Promotion) /\ r = Append(q, p)
  BY <1>1 DEF RanksTypeOK
<1>3. Len(q) \in Nat /\ DOMAIN q = 1..Len(q)
  BY <1>2
<1>4. /\ r \in Seq(Promotion) /\ Len(r) = Len(q) + 1 /\ DOMAIN r = 1..(Len(q) + 1)
      /\ \A i \in 1..Len(q) : r[i] = q[i]
      /\ r[Len(q) + 1] = p
  BY <1>2
<1>5. /\ DOMAIN r = DOMAIN q \cup {Len(q) + 1}
      /\ \A i \in DOMAIN q : i \in Nat /\ i < Len(q) + 1
      /\ Len(q) + 1 \in Nat /\ Len(q) + 1 \notin DOMAIN q
  BY <1>3, <1>4
<1>6. \A m : HistoryOf(m)' = IF m = p.member THEN HistoryOf(m) \cup {Len(q) + 1}
                             ELSE HistoryOf(m)
  BY <1>1, <1>3, <1>4, <1>5 DEF HistoryOf
<1> QED
  BY <1>1, <1>3, <1>4, <1>5, <1>6

LEMMA CreatePromotionKeeps ==
  ASSUME RanksInv, NEW c \in Callers, CreatePromotion(c)
  PROVE  RanksInv'
<1>1. PICK k, n : k = calls[c] /\ n = Len(promotions) + 1
  OBVIOUS
<1>2. PICK m, d, s, f : m = k.member /\ d = k.draft /\ s = k.step /\ f = k.from
  OBVIOUS
<1>3. PICK p : p = [member |-> m, version |-> d, from |-> f, to |-> s,
                    awardedAt |-> k.now, overridden |-> k.overridden]
  OBVIOUS
<1>4. k \in Call /\ CallOK(k) /\ k.pc = "create" /\ raced \subseteq {"publish", "award"}
  BY <1>1 DEF CreatePromotion, RanksInv, RanksTypeOK, CallsInv
<1>5. /\ m \in Members /\ s \in AllSteps /\ positions[m] # None /\ Minted(d)
      /\ s \in StepIds(Ladder[d]) /\ k.now <= attended[m] /\ Explained(m, f)
      /\ k.overridden = TRUE \/ PrerequisitesMet(k)
  BY <1>2, <1>4 DEF CallOK, Awarding
<1>6. /\ k.now \in Nat /\ k.overridden \in BOOLEAN /\ f \in AllSteps \cup {None} /\ d \in Drafts
  BY <1>2, <1>4, <1>5 DEF Call, Minted
<1>7. /\ p \in Promotion /\ p.member = m /\ p.version = d /\ p.from = f /\ p.to = s
      /\ p.awardedAt = k.now /\ p.overridden = k.overridden
  BY <1>3, <1>5, <1>6 DEF Promotion
<1>8. PICK a : a = [k EXCEPT !.pc = "advance"]
  OBVIOUS
<1>9. a \in Call /\ a.pc = "advance" /\ a.member = m /\ a.draft = d /\ a.step = s /\ a.now = k.now
  BY <1>2, <1>4, <1>8 DEF Call
<1>10. /\ promotions' = Append(promotions, p) /\ Continue(c, a)
       /\ UNCHANGED rankVars /\ UNCHANGED positions /\ UNCHANGED factVars /\ UNCHANGED workload
       /\ raced' = IF \/ positions[m].step # f
                      \/ \E e \in Other(c, "advance") : calls[e].member = m
                   THEN raced \cup {"award"} ELSE raced
  BY <1>1, <1>2, <1>3, <1>8 DEF CreatePromotion, FromStep
<1>11. UNCHANGED <<versions, handle>> /\ UNCHANGED <<attended, graded, completed>>
  BY <1>10 DEF rankVars, factVars
<1>12. /\ promotions' \in Seq(Promotion)
       /\ DOMAIN promotions' = DOMAIN promotions \cup {n}
       /\ \A i \in DOMAIN promotions : promotions'[i] = promotions[i]
       /\ promotions'[n] = p
       /\ \A x : HistoryOf(x)' = IF x = m THEN HistoryOf(x) \cup {n} ELSE HistoryOf(x)
       /\ \A i \in DOMAIN promotions : i \in Nat /\ i < n
       /\ n \in Nat /\ n \notin DOMAIN promotions
  BY <1>1, <1>7, <1>10, HistoryGrows DEF RanksInv
<1>13. /\ calls' \in [Callers -> Call]
       /\ calls'[c] = a /\ \A e \in Callers \ {c} : calls'[e] = calls[e]
  BY <1>9, <1>10, Continues DEF RanksInv
<1>14. RanksTypeOK'
  BY <1>10, <1>11, <1>12, <1>13 DEF RanksInv, RanksTypeOK
<1>15. \A x : HistoryOf(x) \subseteq DOMAIN promotions
  BY DEF HistoryOf
<1>16. CallsInv'
  <2>1. Grows
    <3>1. /\ \A x \in Drafts : Minted(x) => Minted(x)'
          /\ \A x \in Members : positions[x] # None => positions'[x] # None
      BY <1>10, <1>11 DEF Minted
    <3>2. \A x \in Members : attended[x] \in Nat /\ attended'[x] = attended[x]
      BY <1>11 DEF RanksInv, RanksTypeOK
    <3>3. \A x \in Members : \A i \in HistoryOf(x) :
             i \in HistoryOf(x)' /\ promotions'[i] = promotions[i]
      BY <1>12, <1>15
    <3> QED
      BY <3>1, <3>2, <3>3 DEF Grows
  <2>2. n \in HistoryOf(m)' /\ promotions'[n].to = s
    BY <1>7, <1>12
  <2>3. CallOK(a)'
    BY <1>5, <1>9, <1>10, <1>11, <2>2 DEF CallOK, Awarding, Minted
  <2> QED
    BY <1>9, <1>10, <2>1, <2>3, CallsGoOn
<1>17. PositionsInv'
  <2>1. \A x \in Members : Explained(x, positions[x].step) => Explained(x, positions[x].step)'
    BY <1>10, <1>12, <1>15 DEF Explained
  <2> QED
    BY <1>5, <1>10, <1>12, <2>1 DEF RanksInv, PositionsInv
<1>18. AwardsInv' /\ HandleInv'
  BY <1>5, <1>7, <1>11, <1>12 DEF RanksInv, AwardsInv, HandleInv, Minted
<1>19. PrerequisiteHeld'
  <2> SUFFICES ASSUME NEW i \in DOMAIN promotions', promotions'[i].overridden # TRUE,
                      NEW l \in Leaves(promotions'[i].version, promotions'[i].to),
                      l.type = "prerequisiteStep", l.enforcement = "required"
               PROVE  \E j \in HistoryOf(promotions[i].member)' :
                         j < i /\ PrerequisiteCleared(Ladder[promotions'[i].version], l.stepId,
                                                      promotions'[j].to)
    BY DEF PrerequisiteHeld
  <2>1. CASE i \in DOMAIN promotions
    <3>1. ~promotions[i].overridden /\ promotions'[i] = promotions[i]
      <4>1. promotions[i] \in Promotion
        BY <2>1 DEF RanksInv, RanksTypeOK
      <4>2. promotions[i].overridden \in BOOLEAN
        BY <4>1 DEF Promotion
      <4> QED
        BY <1>12, <2>1, <4>2
    <3>2. PICK j \in HistoryOf(promotions[i].member) :
              j < i /\ PrerequisiteCleared(Ladder[promotions[i].version], l.stepId,
                                           promotions[j].to)
      BY <2>1, <3>1 DEF RanksInv, PrerequisiteHeld
    <3> QED
      BY <1>12, <1>15, <3>1, <3>2
  <2>2. CASE i = n
    <3>1. PrerequisitesMet(k) /\ l \in Leaves(d, s)
      BY <1>5, <1>7, <1>12, <2>2
    <3>2. PrerequisiteCleared(Ladder[d], l.stepId, f)
      BY <1>2, <3>1 DEF PrerequisitesMet
    <3>3. l.stepId # None
      BY <1>5, <1>6, <3>1, RanksAssumption DEF Leaves, StepOf, StepIds
    <3>4. f # None
      <4>1. None \notin StepIds(Ladder[d])
        BY <1>6, RanksAssumption DEF AllSteps
      <4> QED
        BY <3>2, <3>3, <4>1 DEF PrerequisiteCleared
    <3>5. PICK j \in HistoryOf(m) : promotions[j].to = f
      BY <1>5, <3>4 DEF Explained
    <3>6. j \in HistoryOf(m)' /\ promotions'[j].to = f /\ j < n
      BY <1>12, <1>15, <3>5
    <3> QED
      BY <1>7, <1>12, <2>2, <3>2, <3>6
  <2> QED
    BY <1>12, <2>1, <2>2
<1>20. Numbering'
  <2> SUFFICES ASSUME "publish" \notin raced' PROVE Numbering'
    BY DEF Numbering
  <2>1. "publish" \notin raced
    BY <1>10
  <2>2. \A e \in Callers : Linking(e)' <=> Linking(e)
    BY <1>1, <1>4, <1>9, <1>13 DEF Linking
  <2>3. \A e \in Callers : Linking(e) => calls'[e] = calls[e]
    BY <1>1, <1>4, <1>13 DEF Linking
  <2> QED
    BY <1>11, <2>1, <2>2, <2>3 DEF RanksInv, Numbering, Minted
<1>21. Chained'
  <2> SUFFICES ASSUME "award" \notin raced' PROVE Chained'
    BY DEF Chained
  <2>1. /\ "award" \notin raced /\ positions[m].step = f
        /\ \A e \in Callers \ {c} : ~Advancing(e, m)
    BY <1>10 DEF Other, Advancing
  <2>2. /\ \A e \in Callers \ {c} : calls'[e] = calls[e]
        /\ \A x \in Members : ~Advancing(c, x) /\ (Advancing(c, x)' <=> x = m)
        /\ \A x \in Members : \A e \in Callers \ {c} : Advancing(e, x)' <=> Advancing(e, x)
    BY <1>1, <1>4, <1>9, <1>13 DEF Advancing
  <2>3. \A i \in DOMAIN promotions : StartsAtPrevious(i)'
    <3> SUFFICES ASSUME NEW i \in DOMAIN promotions PROVE StartsAtPrevious(i)'
      OBVIOUS
    <3>1. StartsAtPrevious(i)
      BY <2>1 DEF RanksInv, Chained
    <3>2. PICK x, E : x = promotions[i].member /\ E = {j \in HistoryOf(x) : j < i}
      OBVIOUS
    <3>3. /\ promotions'[i] = promotions[i] /\ {j \in HistoryOf(x)' : j < i} = E
          /\ \A j \in E : promotions'[j] = promotions[j]
      BY <1>12, <1>15, <3>2
    <3> QED
      BY <3>1, <3>2, <3>3 DEF StartsAtPrevious
  <2>4. StartsAtPrevious(n)'
    <3>1. {j \in HistoryOf(m)' : j < n} = HistoryOf(m) /\ promotions'[n].member = m
      BY <1>7, <1>12, <1>15
    <3>2. CASE HistoryOf(m) = {}
      <4>1. f = None
        BY <1>5, <3>2 DEF Explained
      <4> QED
        BY <1>7, <1>12, <3>1, <3>2, <4>1 DEF StartsAtPrevious
    <3>3. CASE HistoryOf(m) # {}
      <4>1. PICK j \in HistoryOf(m) : Newest(m, j)
        BY <3>3, NewestExists DEF RanksInv
      <4>2. promotions[j].to = f
        BY <1>5, <1>15, <2>1, <2>2, <4>1 DEF RanksInv, Chained
      <4>3. promotions'[n].from = f /\ promotions'[j].to = f /\ \A i \in HistoryOf(m) : i <= j
        BY <1>7, <1>12, <1>15, <4>1, <4>2 DEF Newest
      <4> QED
        BY <3>1, <3>3, <4>3 DEF StartsAtPrevious
    <3> QED
      BY <3>2, <3>3
  <2>5. \A x \in Members : \A e, g \in Callers : Advancing(e, x)' /\ Advancing(g, x)' => e = g
    <3>1. \A x \in Members : \A e, g \in Callers : Advancing(e, x) /\ Advancing(g, x) => e = g
      BY <2>1 DEF RanksInv, Chained
    <3> QED
      BY <2>1, <2>2, <3>1
  <2>6. ASSUME NEW x \in Members, NEW i \in DOMAIN promotions', Newest(x, i)'
        PROVE  /\ \A e \in Callers : Advancing(e, x)' => promotions'[i].to = calls'[e].step
               /\ \/ positions'[x].step = promotions'[i].to
                  \/ \E e \in Callers : Advancing(e, x)'
    <3>1. CASE x = m
      <4>1. i = n
        <5>1. n \in HistoryOf(m)' /\ i \in HistoryOf(m)' /\ n <= i
          BY <1>12, <2>6, <3>1 DEF Newest
        <5>2. n \in Nat /\ (i = n \/ (i \in Nat /\ i < n))
          BY <1>12
        <5> QED
          BY <5>1, <5>2
      <4>2. \A e \in Callers : Advancing(e, m)' => e = c
        BY <1>5, <2>1, <2>2
      <4> QED
        BY <1>7, <1>9, <1>12, <1>13, <2>2, <3>1, <4>1, <4>2
    <3>2. CASE x # m
      <4>1. HistoryOf(x)' = HistoryOf(x) /\ i \in HistoryOf(x)
        BY <1>12, <2>6, <3>2 DEF Newest
      <4>2. Newest(x, i) /\ i \in DOMAIN promotions
        BY <1>15, <2>6, <4>1 DEF Newest
      <4>3. /\ \A e \in Callers : Advancing(e, x) => promotions[i].to = calls[e].step
            /\ \/ positions[x].step = promotions[i].to
               \/ \E e \in Callers : Advancing(e, x)
        BY <2>1, <4>2 DEF RanksInv, Chained
      <4>4. \A e \in Callers : (Advancing(e, x)' <=> Advancing(e, x))
                               /\ (Advancing(e, x) => calls'[e] = calls[e])
        BY <2>2, <3>2
      <4>5. promotions'[i] = promotions[i] /\ positions' = positions
        BY <1>10, <1>12, <4>2
      <4> QED
        BY <4>3, <4>4, <4>5
    <3> QED
      BY <3>1, <3>2
  <2> QED
    BY <1>12, <2>3, <2>4, <2>5, <2>6 DEF Chained
<1> QED
  BY <1>14, <1>16, <1>17, <1>18, <1>19, <1>20, <1>21 DEF RanksInv

LEMMA AdvancePositionKeeps ==
  ASSUME RanksInv, NEW c \in Callers, AdvancePosition(c)
  PROVE  RanksInv'
<1>1. PICK k, m : k = calls[c] /\ m = k.member
  OBVIOUS
<1>2. PICK x : x = [step |-> k.step, since |-> k.now]
  OBVIOUS
<1>3. k \in Call /\ CallOK(k) /\ k.pc = "advance"
  BY <1>1 DEF AdvancePosition, RanksInv, RanksTypeOK, CallsInv
<1>4. /\ m \in Members /\ k.step \in AllSteps /\ k.now \in Nat /\ positions[m] # None
      /\ \E i \in HistoryOf(m) : promotions[i].to = k.step
  BY <1>1, <1>3 DEF CallOK, Awarding, Call
<1>5. x \in Position /\ x.step = k.step /\ x # None
  BY <1>2, <1>4, RanksAssumption DEF Position
<1>6. /\ positions' = [positions EXCEPT ![m] = x] /\ Continue(c, Idle)
      /\ UNCHANGED rankVars /\ UNCHANGED promotions /\ UNCHANGED factVars
      /\ UNCHANGED raced /\ UNCHANGED workload
  BY <1>1, <1>2 DEF AdvancePosition, End, history
<1>7. UNCHANGED <<versions, handle>> /\ UNCHANGED <<attended, graded, completed>>
  BY <1>6 DEF rankVars, factVars
<1>8. /\ positions' \in [Members -> Position \cup {None}] /\ positions'[m] = x
      /\ \A y \in Members \ {m} : positions'[y] = positions[y]
  BY <1>4, <1>5, <1>6 DEF RanksInv, RanksTypeOK
<1>9. Idle \in Call /\ Idle.pc = "idle" /\ CallOK(Idle)'
  BY IdleIsCall DEF Idle, CallOK, Awarding
<1>10. /\ calls' \in [Callers -> Call]
       /\ calls'[c] = Idle /\ \A e \in Callers \ {c} : calls'[e] = calls[e]
  BY <1>6, <1>9, Continues DEF RanksInv
<1>11. RanksTypeOK'
  BY <1>6, <1>7, <1>8, <1>10 DEF RanksInv, RanksTypeOK
<1>12. \A y : HistoryOf(y)' = HistoryOf(y)
  BY <1>6 DEF HistoryOf
<1>13. CallsInv'
  <2>1. Grows
    BY <1>5, <1>6, <1>7, <1>8, <1>12 DEF Grows, Minted, RanksInv, RanksTypeOK
  <2> QED
    BY <1>6, <1>9, <2>1, CallsGoOn
<1>14. PositionsInv'
  BY <1>4, <1>5, <1>6, <1>8, <1>12 DEF RanksInv, PositionsInv, Explained
<1>15. HandleInv' /\ AwardsInv' /\ PrerequisiteHeld'
  BY <1>6, <1>7 DEF RanksInv, HandleInv, AwardsInv, PrerequisiteHeld, Minted, HistoryOf
<1>16. Numbering'
  <2>1. \A e \in Callers : Linking(e)' <=> Linking(e)
    BY <1>1, <1>3, <1>9, <1>10 DEF Linking
  <2>2. \A e \in Callers : Linking(e) => calls'[e] = calls[e]
    BY <1>1, <1>3, <1>10 DEF Linking
  <2> QED
    BY <1>6, <1>7, <2>1, <2>2 DEF RanksInv, Numbering, Minted
<1>17. Chained'
  <2> SUFFICES ASSUME "award" \notin raced' PROVE Chained'
    BY DEF Chained
  <2>1. "award" \notin raced
    BY <1>6
  <2>2. /\ \A e \in Callers \ {c} : calls'[e] = calls[e]
        /\ \A y \in Members : ~Advancing(c, y)' /\ (Advancing(c, y) <=> y = m)
        /\ \A y \in Members : \A e \in Callers \ {c} : Advancing(e, y)' <=> Advancing(e, y)
    BY <1>1, <1>3, <1>9, <1>10 DEF Advancing
  <2>3. \A i : StartsAtPrevious(i)' <=> StartsAtPrevious(i)
    BY <1>6 DEF StartsAtPrevious, HistoryOf
  <2>4. \A y, i : Newest(y, i)' <=> Newest(y, i)
    BY <1>6 DEF Newest, HistoryOf
  <2>5. \A y \in Members : \A e, g \in Callers : Advancing(e, y) /\ Advancing(g, y) => e = g
    BY <2>1 DEF RanksInv, Chained
  <2>6. ASSUME NEW y \in Members, NEW i \in DOMAIN promotions, Newest(y, i)
        PROVE  /\ \A e \in Callers : Advancing(e, y)' => promotions[i].to = calls'[e].step
               /\ \/ positions'[y].step = promotions[i].to
                  \/ \E e \in Callers : Advancing(e, y)'
    <3>1. /\ \A e \in Callers : Advancing(e, y) => promotions[i].to = calls[e].step
          /\ \/ positions[y].step = promotions[i].to
             \/ \E e \in Callers : Advancing(e, y)
      BY <2>1, <2>6 DEF RanksInv, Chained
    <3>2. \A e \in Callers : Advancing(e, y)' => promotions[i].to = calls'[e].step
      BY <2>2, <3>1
    <3>3. CASE y = m
      <4>1. promotions[i].to = k.step
        BY <1>1, <2>2, <3>1, <3>3
      <4> QED
        BY <1>5, <1>8, <3>2, <3>3, <4>1
    <3>4. CASE y # m
      BY <1>8, <2>2, <3>1, <3>2, <3>4
    <3> QED
      BY <3>3, <3>4
  <2> QED
    BY <1>6, <2>1, <2>2, <2>3, <2>4, <2>5, <2>6 DEF RanksInv, Chained
<1> QED
  BY <1>11, <1>13, <1>14, <1>15, <1>16, <1>17 DEF RanksInv

-----------------------------------------------------------------------------
LEMMA StepInv == RanksInv /\ [RanksNext]_ranksVars => RanksInv'
<1> SUFFICES ASSUME RanksInv, [RanksNext]_ranksVars PROVE RanksInv'
  OBVIOUS
<1>1. ASSUME NEW c \in Callers, NewCall(c) PROVE RanksInv'
  BY <1>1, RequestPublishKeeps, RequestEnrollKeeps, RequestAwardKeeps DEF NewCall
<1>2. ASSUME NEW c \in Callers, CallStep(c) PROVE RanksInv'
  BY <1>2, CreateVersionKeeps, LinkVersionKeeps, CreateRankStateKeeps, ReadVersionKeeps,
     ReadHistoryKeeps, PromoteKeeps, CreatePromotionKeeps, AdvancePositionKeeps, CrashKeeps
  DEF CallStep
<1>3. CASE UNCHANGED ranksVars
  <2>1. /\ UNCHANGED <<versions, handle>> /\ UNCHANGED <<positions, promotions>>
        /\ UNCHANGED <<attended, graded, completed>> /\ UNCHANGED <<calls, raced, workload>>
    BY <1>3 DEF ranksVars, rankVars, memberVars, factVars, history
  <2>2. RanksTypeOK'
    BY <2>1 DEF RanksInv, RanksTypeOK
  <2>3. CallsInv'
    BY <2>1 DEF RanksInv, CallsInv, CallOK, Minted, Explained, HistoryOf, PrerequisitesMet
  <2>4. HandleInv' /\ PositionsInv' /\ AwardsInv' /\ PrerequisiteHeld'
    BY <2>1 DEF RanksInv, HandleInv, PositionsInv, AwardsInv, PrerequisiteHeld, Minted,
       HistoryOf, Explained
  <2>5. Numbering' /\ Chained'
    BY <2>1 DEF RanksInv, Numbering, Linking, Minted, Chained, StartsAtPrevious, Newest,
       HistoryOf, Advancing
  <2> QED
    BY <2>2, <2>3, <2>4, <2>5 DEF RanksInv
<1> QED
  BY <1>1, <1>2, <1>3, FactsKeep DEF RanksNext

LEMMA RanksInvariant == RanksSpec => []RanksInv
  BY InitInv, StepInv, PTL DEF RanksSpec

(* Every row and every execution has its type.  That the classes an award   *)
(* counts are counted from a day on needs that a member's promotions have a *)
(* newest one, which is because none is awarded later than now.             *)
THEOREM RanksTyped == RanksSpec => []RanksTypeOK
<1>1. RanksInv => RanksTypeOK
  BY DEF RanksInv
<1> QED
  BY RanksInvariant, <1>1, PTL

(* Published versions are sound: whatever the publications, the current and *)
(* the listed versions are minted, and so is the version of a promotion,    *)
(* which has the step it awards; without a race or a crash the numbers are  *)
(* distinct and the current version has the highest.                        *)
THEOREM PublishedSoundly == RanksSpec => []VersionsSound
<1>1. RanksInv => VersionsSound
  BY DEF RanksInv, VersionsSound, HandleInv, AwardsInv, Numbering, Minted, Linking
<1> QED
  BY RanksInvariant, <1>1, PTL

(* No member stands on a step that no promotion explains.                   *)
THEOREM StandsWhereAwarded == RanksSpec => []PositionExplained
<1>1. RanksInv => PositionExplained
  <2> SUFFICES ASSUME RanksInv, NEW m \in Members, positions[m] # None, positions[m].step # None
               PROVE  \E i \in HistoryOf(m) : promotions[i].to = positions[m].step
    BY DEF PositionExplained
  <2> QED
    BY DEF RanksInv, PositionsInv, Explained
<1> QED
  BY RanksInvariant, <1>1, PTL

(* Each promotion starts where the one before it led, and the member stands *)
(* where the last one led, unless awards of one member raced or one died.   *)
THEOREM PromotionsAreAChain == RanksSpec => []HistoryIsAChain
<1>1. RanksInv => HistoryIsAChain
  <2> SUFFICES ASSUME RanksInv, "award" \notin raced, NEW i \in DOMAIN promotions
               PROVE  LET m == promotions[i].member
                          earlier == {j \in HistoryOf(m) : j < i}
                          later == {j \in HistoryOf(m) : j > i}
                      IN  /\ IF earlier = {} THEN promotions[i].from = None
                             ELSE \E j \in earlier : /\ \A k \in earlier : k <= j
                                                     /\ promotions[i].from = promotions[j].to
                          /\ later = {} =>
                                \/ positions[m].step = promotions[i].to
                                \/ \E c \in Callers : calls[c].pc = "advance" /\ calls[c].member = m
    BY DEF HistoryIsAChain
  <2>0. PICK m, L : m = promotions[i].member /\ L = {j \in HistoryOf(m) : j > i}
    OBVIOUS
  <2>1. StartsAtPrevious(i)
    BY DEF RanksInv, Chained
  <2>2. ASSUME L = {} PROVE Newest(m, i)
    <3>1. i \in HistoryOf(m) /\ \A j \in HistoryOf(m) : ~(j > i)
      BY <2>0, <2>2 DEF HistoryOf
    <3>2. i \in Nat /\ \A j \in HistoryOf(m) : j \in Nat
      BY <3>1, HistoryIsPlaces DEF RanksInv
    <3> QED
      BY <3>1, <3>2 DEF Newest
  <2>3. m \in Members
    BY <2>0, HistoryIsPlaces DEF RanksInv, HistoryOf, Promotion
  <2>4. L = {} => \/ positions[m].step = promotions[i].to
                  \/ \E c \in Callers : Advancing(c, m)
    BY <2>2, <2>3 DEF RanksInv, Chained
  <2> QED
    BY <2>0, <2>1, <2>4 DEF StartsAtPrevious, Advancing
<1> QED
  BY RanksInvariant, <1>1, PTL

(* A step with a required prerequisite is only awarded, without an          *)
(* override, to a member who has a promotion to that step or past it,       *)
(* although the position and the version the award decides on are old by    *)
(* the time it writes.                                                      *)
THEOREM PrerequisitesAreKept == RanksSpec => []PrerequisiteHeld
<1>1. RanksInv => PrerequisiteHeld
  BY DEF RanksInv
<1> QED
  BY RanksInvariant, <1>1, PTL

(***************************************************************************)
(* Eligibility: the results of the nodes, level by level.                  *)
(***************************************************************************)
LevelsUpTo(k, f, input) ==
    f = [n \in 0..k |->
            IF n = 0 THEN [leaf \in Nested[0] |-> Leaf(EvaluateLeaf(leaf, Track, NextStep, input))]
            ELSE [inner \in Nested[n] |-> EvaluateNode(inner, f[n - 1], input)]]

LEMMA LeastOf ==
  ASSUME NEW T, T \subseteq Nat, T # {}
  PROVE  \E x \in T : \A y \in T : x <= y
<1>1. PICK x \in T : \A y \in T : <<y, x>> \notin OpToRel(<, Nat)
  BY WFMin, NatLessThanWellFounded, Zenon
<1>2. SUFFICES ASSUME NEW y \in T PROVE x <= y
  BY <1>1
<1>3. x \in Nat /\ y \in Nat
  OBVIOUS
<1>4. ~(y < x)
  BY <1>1, <1>3, Zenon DEF OpToRel
<1> QED
  BY <1>3, <1>4

(* Each level is given by the one below, so there is one of every height:   *)
(* the least height without one would follow a height with one.             *)
LEMMA LevelsExist ==
  ASSUME NEW input, NEW k \in Nat
  PROVE  \E f : LevelsUpTo(k, f, input)
<1> DEFINE Missing == {n \in Nat : ~ \E f : LevelsUpTo(n, f, input)}
<1>1. SUFFICES ASSUME Missing # {} PROVE FALSE
  OBVIOUS
<1>2. PICK m \in Missing : \A n \in Missing : m <= n
  BY <1>1, LeastOf
<1>3. m # 0
  <2> DEFINE f == [n \in 0..0 |-> [leaf \in Nested[0] |->
                      Leaf(EvaluateLeaf(leaf, Track, NextStep, input))]]
  <2>1. LevelsUpTo(0, f, input)
    <3>1. \A n \in 0..0 : n = 0
      OBVIOUS
    <3> QED
      BY <3>1 DEF LevelsUpTo
  <2> QED
    BY <2>1
<1>4. m - 1 \in Nat /\ m - 1 \notin Missing
  BY <1>2, <1>3
<1>5. PICK f : LevelsUpTo(m - 1, f, input)
  BY <1>4
<1> DEFINE g == [n \in 0..m |-> IF n = m THEN [inner \in Nested[m] |-> EvaluateNode(inner, f[m - 1], input)]
                                ELSE f[n]]
<1>6. g = [n \in 0..m |->
            IF n = 0 THEN [leaf \in Nested[0] |-> Leaf(EvaluateLeaf(leaf, Track, NextStep, input))]
            ELSE [inner \in Nested[n] |-> EvaluateNode(inner, g[n - 1], input)]]
  <2> SUFFICES ASSUME NEW n \in 0..m
               PROVE  g[n] = IF n = 0 THEN [leaf \in Nested[0] |-> Leaf(EvaluateLeaf(leaf, Track, NextStep, input))]
                             ELSE [inner \in Nested[n] |-> EvaluateNode(inner, g[n - 1], input)]
    OBVIOUS
  <2>1. CASE n = m
    <3>1. g[n - 1] = f[m - 1] /\ n # 0
      BY <1>3, <2>1
    <3>2. g[n] = [inner \in Nested[m] |-> EvaluateNode(inner, f[m - 1], input)]
      BY <2>1
    <3> HIDE DEF g
    <3> QED
      BY <3>1, <3>2, <2>1
  <2>2. CASE n # m
    <3>1. n \in 0..(m - 1) /\ g[n] = f[n]
      BY <2>2
    <3>2. n # 0 => n - 1 \in 0..(m - 1) /\ g[n - 1] = f[n - 1]
      BY <2>2
    <3>3. f[n] = IF n = 0 THEN [leaf \in Nested[0] |-> Leaf(EvaluateLeaf(leaf, Track, NextStep, input))]
                 ELSE [inner \in Nested[n] |-> EvaluateNode(inner, f[n - 1], input)]
      BY <1>5, <3>1 DEF LevelsUpTo
    <3> HIDE DEF g
    <3> QED
      BY <3>1, <3>2, <3>3
  <2> QED
    BY <2>1, <2>2
<1>7. LevelsUpTo(m, g, input)
  BY <1>6 DEF LevelsUpTo
<1> QED
  BY <1>2, <1>7

LEMMA EvaluateByLevels ==
  ASSUME NEW input
  PROVE  \E f : /\ LevelsUpTo(Depth, f, input)
                /\ \A node : Evaluate(node, input) = EvaluateNode(node, f[Depth], input)
<1> DEFINE f == CHOOSE h : LevelsUpTo(Depth, h, input)
<1>1. LevelsUpTo(Depth, f, input)
  BY LevelsExist, EligibilityAssumption
<1>2. \A node : Evaluate(node, input) = EvaluateNode(node, f[Depth], input)
  BY DEF Evaluate, LevelsUpTo
<1> QED
  BY <1>1, <1>2

(***************************************************************************)
(* What a student adds to their file only makes a result better.           *)
(***************************************************************************)
FileOK(f) ==
    f \in [currentStepId : {FirstStep}, daysAtStep : Nat, attendanceSinceLastPromotion : Nat,
           totalAttendance : Nat, age : Nat, completedCurriculumItemIds : SUBSET CurriculumItems,
           gradingResults : SUBSET {NextStep},
           manualSignOffs : SUBSET [stepId : {NextStep}, byRole : {"owner"}]]

GrowsTo(f, g) ==
    /\ f.currentStepId = g.currentStepId
    /\ f.daysAtStep <= g.daysAtStep
    /\ f.attendanceSinceLastPromotion <= g.attendanceSinceLastPromotion
    /\ f.totalAttendance <= g.totalAttendance
    /\ f.age <= g.age
    /\ f.completedCurriculumItemIds \subseteq g.completedCurriculumItemIds
    /\ f.gradingResults \subseteq g.gradingResults
    /\ f.manualSignOffs \subseteq g.manualSignOffs

(* The same leaf, further on.                                               *)
Ahead(d, e) ==
    /\ e.type = d.type /\ e.enforcement = d.enforcement /\ e.target = d.target
    /\ d.current \in Nat /\ e.current \in Nat /\ e.target \in Nat
    /\ d.current <= e.current

Better(a, b) ==
    /\ a.satisfied => b.satisfied
    /\ b.blockingRequired \subseteq a.blockingRequired
    /\ \A e \in b.evaluations : \E d \in a.evaluations : Ahead(d, e)

LEMMA FileGrows ==
  ASSUME FileOK(file), EligibilityNext
  PROVE  FileOK(file') /\ GrowsTo(file, file')
<1>1. CASE Train
  <2>1. PICK a, b, n : /\ a = file.daysAtStep + 1 /\ b = file.totalAttendance + 1
                       /\ n = file.attendanceSinceLastPromotion + 1
    OBVIOUS
  <2>2. file' = [file EXCEPT !.attendanceSinceLastPromotion = n, !.totalAttendance = b, !.daysAtStep = a]
    BY <1>1, <2>1 DEF Train
  <2>3. a \in Nat /\ b \in Nat /\ n \in Nat
    BY <2>1 DEF FileOK
  <2>4. FileOK(file')
    BY <2>2, <2>3 DEF FileOK
  <2>5. /\ file.daysAtStep <= a /\ file.totalAttendance <= b
        /\ file.attendanceSinceLastPromotion <= n /\ file.age <= file.age
    BY <2>1 DEF FileOK
  <2>6. /\ file'.daysAtStep = a /\ file'.totalAttendance = b /\ file'.attendanceSinceLastPromotion = n
        /\ file'.age = file.age /\ file'.currentStepId = file.currentStepId
        /\ file'.completedCurriculumItemIds = file.completedCurriculumItemIds
        /\ file'.gradingResults = file.gradingResults /\ file'.manualSignOffs = file.manualSignOffs
    BY <2>2 DEF FileOK
  <2>7. GrowsTo(file, file')
    BY <2>5, <2>6 DEF GrowsTo
  <2> QED
    BY <2>4, <2>7
<1>2. ASSUME NEW i \in CurriculumItems, CompleteItem(i) PROVE FileOK(file') /\ GrowsTo(file, file')
  BY <1>2 DEF FileOK, GrowsTo, CompleteItem
<1>3. CASE PassGrading
  BY <1>3 DEF FileOK, GrowsTo, PassGrading
<1>4. CASE SignOff("owner")
  <2> DEFINE s == [stepId |-> NextStep, byRole |-> "owner"]
  <2>1. s \in [stepId : {NextStep}, byRole : {"owner"}]
    OBVIOUS
  <2>2. file' = [file EXCEPT !.manualSignOffs = @ \cup {s}]
    BY <1>4 DEF SignOff
  <2> HIDE DEF s
  <2> QED
    BY <2>1, <2>2 DEF FileOK, GrowsTo
<1> QED
  BY <1>1, <1>2, <1>3, <1>4 DEF EligibilityNext

LEMMA LeafAhead ==
  ASSUME NEW f, NEW g, FileOK(f), FileOK(g), GrowsTo(f, g), NEW leaf, LeafOK(leaf)
  PROVE  Ahead(EvaluateLeaf(leaf, Track, NextStep, f), EvaluateLeaf(leaf, Track, NextStep, g))
<1> DEFINE d == Current(leaf, Track, NextStep, f)
           e == Current(leaf, Track, NextStep, g)
<1>1. d \in Nat /\ e \in Nat /\ d <= e
  <2>1. CASE leaf.type = "requiredCurriculumItems"
    <3> DEFINE S == leaf.itemIds \cap f.completedCurriculumItemIds
               T == leaf.itemIds \cap g.completedCurriculumItemIds
    <3>1. IsFiniteSet(leaf.itemIds)
      BY <2>1 DEF LeafOK
    <3>2. IsFiniteSet(T) /\ S \subseteq T
      BY <3>1, FS_Subset DEF GrowsTo
    <3>3. IsFiniteSet(S) /\ Cardinality(S) <= Cardinality(T)
      BY <3>2, FS_Subset
    <3>4. Cardinality(S) \in Nat /\ Cardinality(T) \in Nat
      BY <3>2, <3>3, FS_CardinalityType
    <3>5. d = Cardinality(S) /\ e = Cardinality(T)
      BY <2>1 DEF Current
    <3> HIDE DEF S, T, d, e
    <3> QED
      BY <3>3, <3>4, <3>5
  <2>2. CASE leaf.type = "prerequisiteStep"
    <3>1. d = AsNumber(PrerequisiteCleared(Track, leaf.stepId, f.currentStepId)) /\ e = d
      BY <2>2 DEF Current, GrowsTo
    <3> QED
      BY <3>1 DEF AsNumber
  <2>3. CASE leaf.type = "passedGradingEvent"
    <3>1. /\ d = AsNumber(NextStep \in f.gradingResults)
          /\ e = AsNumber(NextStep \in g.gradingResults)
      BY <2>3 DEF Current
    <3> QED
      BY <3>1 DEF AsNumber, GrowsTo
  <2>4. CASE leaf.type = "manualInstructorSignOff"
    <3>1. /\ d = AsNumber(SignedOff(leaf, NextStep, f))
          /\ e = AsNumber(SignedOff(leaf, NextStep, g))
      BY <2>4 DEF Current
    <3>2. SignedOff(leaf, NextStep, f) => SignedOff(leaf, NextStep, g)
      BY DEF SignedOff, GrowsTo
    <3> QED
      BY <3>1, <3>2 DEF AsNumber
  <2>5. CASE leaf.type = "minTimeAtStep"
    <3>1. d = f.daysAtStep /\ e = g.daysAtStep
      BY <2>5 DEF Current
    <3> QED
      BY <3>1 DEF FileOK, GrowsTo
  <2>6. CASE leaf.type = "minClassesSinceLastPromotion"
    <3>1. d = f.attendanceSinceLastPromotion /\ e = g.attendanceSinceLastPromotion
      BY <2>6 DEF Current
    <3> QED
      BY <3>1 DEF FileOK, GrowsTo
  <2>7. CASE leaf.type = "minTotalClasses"
    <3>1. d = f.totalAttendance /\ e = g.totalAttendance
      BY <2>7 DEF Current
    <3> QED
      BY <3>1 DEF FileOK, GrowsTo
  <2>8. CASE leaf.type = "minAge"
    <3>1. d = f.age /\ e = g.age
      BY <2>8 DEF Current
    <3> QED
      BY <3>1 DEF FileOK, GrowsTo
  <2> QED
    BY <2>1, <2>2, <2>3, <2>4, <2>5, <2>6, <2>7, <2>8 DEF LeafOK
<1>2. Target(leaf) \in Nat
  <2>1. CASE leaf.type = "requiredCurriculumItems"
    BY <2>1, FS_CardinalityType DEF LeafOK, Target
  <2>2. CASE leaf.type \in {"minTimeAtStep", "minClassesSinceLastPromotion", "minTotalClasses", "minAge"}
    BY <2>2 DEF LeafOK, Target
  <2>3. CASE leaf.type \in {"prerequisiteStep", "passedGradingEvent", "manualInstructorSignOff"}
    BY <2>3 DEF Target
  <2> QED
    BY <2>1, <2>2, <2>3 DEF LeafOK
<1> HIDE DEF d, e
<1>3. /\ EvaluateLeaf(leaf, Track, NextStep, f) =
            [type |-> leaf.type, enforcement |-> leaf.enforcement, current |-> d, target |-> Target(leaf)]
      /\ EvaluateLeaf(leaf, Track, NextStep, g) =
            [type |-> leaf.type, enforcement |-> leaf.enforcement, current |-> e, target |-> Target(leaf)]
  BY DEF EvaluateLeaf, d, e
<1> QED
  BY <1>1, <1>2, <1>3 DEF Ahead

LEMMA LeafBetter ==
  ASSUME NEW d, NEW e, Ahead(d, e)
  PROVE  Better(Leaf(d), Leaf(e))
<1>1. Satisfied(d) => Satisfied(e)
  BY DEF Ahead, Satisfied
<1>2. Blocking(e) => Blocking(d)
  BY <1>1 DEF Ahead, Blocking
<1> QED
  BY <1>1, <1>2 DEF Better, Leaf, Ahead

(* A group of better parts is better.  In an anyOf a branch that gets       *)
(* satisfied clears what the others require, and stays satisfied.           *)
LEMMA GroupBetter ==
  ASSUME NEW A, NEW B, \A b \in B : \E a \in A : Better(a, b), \A a \in A : \E b \in B : Better(a, b)
  PROVE  Better(AllOf(A), AllOf(B)) /\ Better(AnyOf(A), AnyOf(B))
<1> DEFINE required(S) == UNION {p.blockingRequired : p \in S}
           leaves(S) == UNION {p.evaluations : p \in S}
<1>1. (\A a \in A : a.satisfied) => (\A b \in B : b.satisfied)
  BY DEF Better
<1>2. (\E a \in A : a.satisfied) => (\E b \in B : b.satisfied)
  BY DEF Better
<1>3. required(B) \subseteq required(A)
  BY DEF Better
<1>4. \A e \in leaves(B) : \E d \in leaves(A) : Ahead(d, e)
  <2> SUFFICES ASSUME NEW b \in B, NEW e \in b.evaluations
               PROVE  \E d \in leaves(A) : Ahead(d, e)
    OBVIOUS
  <2> QED
    BY DEF Better
<1>5. Better(AllOf(A), AllOf(B))
  <2>1. \A S : /\ AllOf(S).satisfied = (\A p \in S : p.satisfied)
               /\ AllOf(S).blockingRequired = required(S) /\ AllOf(S).evaluations = leaves(S)
    BY DEF AllOf
  <2> HIDE DEF required, leaves
  <2> QED
    BY <2>1, <1>1, <1>3, <1>4 DEF Better
<1>6. Better(AnyOf(A), AnyOf(B))
  <2>1. \A S : /\ AnyOf(S).satisfied = (\E p \in S : p.satisfied)
               /\ AnyOf(S).blockingRequired = IF \E p \in S : p.satisfied THEN {} ELSE required(S)
               /\ AnyOf(S).evaluations = leaves(S)
    BY DEF AnyOf, AllOf
  <2> HIDE DEF required, leaves
  <2>2. AnyOf(B).blockingRequired \subseteq AnyOf(A).blockingRequired
    BY <2>1, <1>2, <1>3
  <2> QED
    BY <2>1, <2>2, <1>2, <1>4 DEF Better
<1> QED
  BY <1>5, <1>6

LEMMA NodeBetter ==
  ASSUME NEW f, NEW g, FileOK(f), FileOK(g), GrowsTo(f, g), NEW F, NEW G, NEW nodes,
         \A c \in nodes : Better(F[c], G[c]),
         NEW node, LeafOK(node) \/ GroupOf(node, nodes)
  PROVE  Better(EvaluateNode(node, F, f), EvaluateNode(node, G, g))
<1>1. CASE LeafOK(node)
  <2>1. node.type # "allOf" /\ node.type # "anyOf"
    BY <1>1 DEF LeafOK
  <2>2. /\ EvaluateNode(node, F, f) = Leaf(EvaluateLeaf(node, Track, NextStep, f))
        /\ EvaluateNode(node, G, g) = Leaf(EvaluateLeaf(node, Track, NextStep, g))
    BY <2>1 DEF EvaluateNode
  <2> QED
    BY <1>1, <2>2, LeafAhead, LeafBetter
<1>2. CASE GroupOf(node, nodes)
  <2> DEFINE A == {F[c] : c \in node.criteria}
             B == {G[c] : c \in node.criteria}
  <2>1. (\A b \in B : \E a \in A : Better(a, b)) /\ (\A a \in A : \E b \in B : Better(a, b))
    BY <1>2 DEF GroupOf
  <2>2. /\ node.type = "allOf" => /\ EvaluateNode(node, F, f) = AllOf(A)
                                  /\ EvaluateNode(node, G, g) = AllOf(B)
        /\ node.type = "anyOf" => /\ EvaluateNode(node, F, f) = AnyOf(A)
                                  /\ EvaluateNode(node, G, g) = AnyOf(B)
    BY DEF EvaluateNode
  <2> HIDE DEF A, B
  <2>3. Better(AllOf(A), AllOf(B)) /\ Better(AnyOf(A), AnyOf(B))
    BY <2>1, GroupBetter
  <2> QED
    BY <1>2, <2>2, <2>3 DEF GroupOf
<1> QED
  BY <1>1, <1>2

LEMMA LevelsBetter ==
  ASSUME NEW f, NEW g, FileOK(f), FileOK(g), GrowsTo(f, g), NEW F, NEW G,
         LevelsUpTo(Depth, F, f), LevelsUpTo(Depth, G, g)
  PROVE  \A c \in Nested[Depth] : Better(F[Depth][c], G[Depth][c])
<1> DEFINE Worse == {n \in 0..Depth : \E c \in Nested[n] : ~Better(F[n][c], G[n][c])}
<1>1. SUFFICES ASSUME Worse # {} PROVE FALSE
  BY EligibilityAssumption
<1>2. Worse \subseteq Nat
  OBVIOUS
<1>3. PICK m \in Worse : \A n \in Worse : m <= n
  BY <1>1, <1>2, LeastOf
<1>4. PICK c \in Nested[m] : ~Better(F[m][c], G[m][c])
  BY <1>3
<1>5. m \in 0..Depth /\ Depth \in Nat
  BY <1>3, EligibilityAssumption
<1>6. CASE m = 0
  <2>1. /\ F[m] = [leaf \in Nested[0] |-> Leaf(EvaluateLeaf(leaf, Track, NextStep, f))]
        /\ G[m] = [leaf \in Nested[0] |-> Leaf(EvaluateLeaf(leaf, Track, NextStep, g))]
    BY <1>5, <1>6 DEF LevelsUpTo
  <2>2. /\ F[m][c] = Leaf(EvaluateLeaf(c, Track, NextStep, f))
        /\ G[m][c] = Leaf(EvaluateLeaf(c, Track, NextStep, g))
    BY <1>4, <1>6, <2>1
  <2>3. LeafOK(c)
    BY <1>4, <1>6, EligibilityAssumption
  <2> QED
    BY <1>4, <2>2, <2>3, LeafAhead, LeafBetter
<1>7. CASE m # 0
  <2>1. m - 1 \in 0..Depth /\ m \in 1..Depth /\ m - 1 \notin Worse
    BY <1>3, <1>5, <1>7
  <2>2. \A d \in Nested[m - 1] : Better(F[m - 1][d], G[m - 1][d])
    BY <2>1
  <2>3. LeafOK(c) \/ GroupOf(c, Nested[m - 1])
    BY <1>4, <2>1, EligibilityAssumption
  <2>4. /\ F[m] = [inner \in Nested[m] |-> EvaluateNode(inner, F[m - 1], f)]
        /\ G[m] = [inner \in Nested[m] |-> EvaluateNode(inner, G[m - 1], g)]
    BY <1>5, <1>7 DEF LevelsUpTo
  <2>5. F[m][c] = EvaluateNode(c, F[m - 1], f) /\ G[m][c] = EvaluateNode(c, G[m - 1], g)
    BY <1>4, <2>4
  <2>6. Better(EvaluateNode(c, F[m - 1], f), EvaluateNode(c, G[m - 1], g))
    BY <2>2, <2>3, NodeBetter
  <2> QED
    BY <1>4, <2>5, <2>6
<1> QED
  BY <1>6, <1>7

LEMMA EvaluateBetter ==
  ASSUME NEW f, NEW g, FileOK(f), FileOK(g), GrowsTo(f, g), NEW tree \in Trees
  PROVE  Better(Evaluate(tree, f), Evaluate(tree, g))
<1>1. PICK F : /\ LevelsUpTo(Depth, F, f)
               /\ \A node : Evaluate(node, f) = EvaluateNode(node, F[Depth], f)
  BY EvaluateByLevels
<1>2. PICK G : /\ LevelsUpTo(Depth, G, g)
               /\ \A node : Evaluate(node, g) = EvaluateNode(node, G[Depth], g)
  BY EvaluateByLevels
<1>3. \A c \in Nested[Depth] : Better(F[Depth][c], G[Depth][c])
  BY <1>1, <1>2, LevelsBetter
<1>4. LeafOK(tree) \/ GroupOf(tree, Nested[Depth])
  BY EligibilityAssumption
<1>5. Better(EvaluateNode(tree, F[Depth], f), EvaluateNode(tree, G[Depth], g))
  BY <1>3, <1>4, NodeBetter
<1> QED
  BY <1>1, <1>2, <1>5

(* Which leaves count changes as branches clear, but none starts to count   *)
(* that did not, and each is further on.                                    *)
LEMMA StatusNeverFalls ==
  ASSUME NEW a, NEW b, Better(a, b)
  PROVE  /\ a.blockingRequired = {} => b.blockingRequired = {}
         /\ AllHalfWay(Counting(a)) => AllHalfWay(Counting(b))
<1>1. SUFFICES ASSUME AllHalfWay(Counting(a)), NEW e \in Counting(b)
               PROVE  HalfWay(FractionOf(e))
  BY DEF Better, AllHalfWay
<1>2. e \in b.evaluations /\ Blocking(e) /\ e.type \in b.blockingRequired
  BY DEF Counting
<1>3. PICK d \in a.evaluations : Ahead(d, e)
  BY <1>2 DEF Better
<1>4. d.type \in a.blockingRequired
  BY <1>2, <1>3 DEF Better, Ahead
<1>5. Blocking(d)
  BY <1>2, <1>3 DEF Ahead, Blocking, Satisfied
<1>6. HalfWay(FractionOf(d))
  BY <1>1, <1>3, <1>4, <1>5 DEF AllHalfWay, Counting
<1>7. PICK x, y, t : x = d.current /\ y = e.current /\ t = e.target
  OBVIOUS
<1>8. x \in Nat /\ y \in Nat /\ t \in Nat /\ x <= y /\ d.target = t
  BY <1>3, <1>7 DEF Ahead
<1>9. CASE t = 0 \/ y >= t
  <2>1. FractionOf(e) = <<1, 1>>
    BY <1>7, <1>9 DEF FractionOf
  <2> QED
    BY <2>1 DEF HalfWay
<1>10. CASE ~(t = 0 \/ y >= t)
  <2>1. ~(t = 0 \/ x >= t)
    BY <1>8, <1>10
  <2>2. FractionOf(e) = <<y, t>> /\ FractionOf(d) = <<x, t>>
    BY <1>7, <1>8, <1>10, <2>1 DEF FractionOf
  <2>3. 2 * x >= t
    BY <1>6, <2>2 DEF HalfWay
  <2>4. 2 * y >= t
    BY <1>8, <2>3
  <2> QED
    BY <2>2, <2>4 DEF HalfWay
<1> QED
  BY <1>9, <1>10

EligibilityInv == criteria \in Trees /\ FileOK(file)

LEMMA FileInvariant == EligibilitySpec => []EligibilityInv
<1>1. EligibilityInit => EligibilityInv
  BY DEF EligibilityInit, NewFile, FileOK, EligibilityInv
<1>2. EligibilityInv /\ [EligibilityNext]_eligibilityVars => EligibilityInv'
  <2>1. SUFFICES ASSUME EligibilityInv, [EligibilityNext]_eligibilityVars PROVE EligibilityInv'
    OBVIOUS
  <2>2. CASE EligibilityNext
    BY <2>1, <2>2, FileGrows DEF EligibilityNext, EligibilityInv
  <2>3. CASE UNCHANGED eligibilityVars
    <3>1. criteria' = criteria /\ file' = file
      BY <2>3 DEF eligibilityVars
    <3> QED
      BY <2>1, <3>1 DEF EligibilityInv
  <2> QED
    BY <2>1, <2>2, <2>3
<1> QED
  BY <1>1, <1>2, PTL DEF EligibilitySpec

(* No step towards the next rank takes a student further from it, however   *)
(* its criteria are nested.                                                 *)
THEOREM CloserByEveryStep == EligibilitySpec => NeverFurther
<1>1. EligibilityInv /\ [EligibilityNext]_eligibilityVars
          => [file' # file => Closeness(Status(file)) <= Closeness(Status(file)')]_eligibilityVars
  <2>1. SUFFICES ASSUME EligibilityInv, EligibilityNext
                 PROVE  Closeness(Status(file)) <= Closeness(Status(file)')
    OBVIOUS
  <2>2. criteria' = criteria /\ FileOK(file') /\ GrowsTo(file, file')
    BY <2>1, FileGrows DEF EligibilityNext, EligibilityInv
  <2>3. PICK a, b : a = Evaluate(criteria, file) /\ b = Evaluate(criteria, file')
    OBVIOUS
  <2>4. Better(a, b)
    BY <2>1, <2>2, <2>3, EvaluateBetter DEF EligibilityInv
  <2>5. Status(file) = IF a.blockingRequired = {} THEN "ready"
                       ELSE IF AllHalfWay(Counting(a)) THEN "close" ELSE "notYet"
    BY <2>3 DEF Status
  <2>6. Status(file)' = IF b.blockingRequired = {} THEN "ready"
                        ELSE IF AllHalfWay(Counting(b)) THEN "close" ELSE "notYet"
    BY <2>2, <2>3 DEF Status
  <2> QED
    BY <2>4, <2>5, <2>6, StatusNeverFalls DEF Closeness
<1> QED
  BY <1>1, FileInvariant, PTL DEF EligibilitySpec, NeverFurther
=============================================================================
