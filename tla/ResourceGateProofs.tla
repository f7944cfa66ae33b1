------------------------ MODULE ResourceGateProofs ------------------------
(***************************************************************************)
(* Proofs about the admission gate, for every set of dispatches, events    *)
(* and kinds of request.  The invariant IInv of ResourceGate is inductive; *)
(* the safety properties follow from it.                                   *)
(***************************************************************************)
EXTENDS ResourceGate, TLAPS

-----------------------------------------------------------------------------
(* The authority behind an act *)

\* A non-empty set of tiers has a highest one, so the authority `_entry_for`
\* files is one of the claims' tiers and no claim outranks it.
LEMMA HighestTierLemma ==
  ASSUME TypeOK, NEW S, S \subseteq Dispatches, S # {}
  PROVE  /\ HighestTier(S) \in Tiers
         /\ \A c \in S : Tier(c) <= HighestTier(S)
<1> DEFINE T == {Tier(c) : c \in S}
<1>1. T \subseteq Tiers /\ T # {}
  BY KindsAssumption DEF TypeOK, Tier
<1>2. \E t \in T : \A c \in S : Tier(c) <= t
  <2>1. \E t \in T : \A u \in T : u <= t
    <3>1. CASE 4 \in T  BY <1>1, <3>1 DEF Tiers
    <3>2. CASE 4 \notin T /\ 3 \in T  BY <1>1, <3>2 DEF Tiers
    <3>3. CASE 4 \notin T /\ 3 \notin T /\ 2 \in T  BY <1>1, <3>3 DEF Tiers
    <3>4. CASE 4 \notin T /\ 3 \notin T /\ 2 \notin T  BY <1>1, <3>4 DEF Tiers
    <3> QED  BY <3>1, <3>2, <3>3, <3>4
  <2> QED  BY <2>1
<1>3. HighestTier(S) \in T /\ \A c \in S : Tier(c) <= HighestTier(S)
  BY <1>2 DEF HighestTier
<1> QED  BY <1>1, <1>3

\* What `_record_entries` files for d in an event that claims it.
LEMMA EntryForLemma ==
  ASSUME TypeOK, NEW d \in Dispatches, NEW e \in Events, ClaimsIn(d, e) # {},
         NEW rec, rec.entered \in BOOLEAN, rec.asked \in BOOLEAN, NEW ran \in BOOLEAN
  PROVE  /\ EntryFor(d, e, rec, ran) \in Entry
         /\ EntryFor(d, e, rec, ran).act = d
         /\ EntryFor(d, e, rec, ran).entered = rec.entered
         /\ EntryFor(d, e, rec, ran).ran => rec.entered
         /\ \A c \in ClaimsIn(d, e) : Tier(c) <= EntryFor(d, e, rec, ran).tier
<1>1. ClaimsIn(d, e) \subseteq Dispatches
  BY DEF ClaimsIn, Contributors
<1>2. HighestTier(ClaimsIn(d, e)) \in Tiers
      /\ \A c \in ClaimsIn(d, e) : Tier(c) <= HighestTier(ClaimsIn(d, e))
  BY <1>1, HighestTierLemma
<1>3. (\E c \in ClaimsIn(d, e) : Tier(c) = TierD) \in BOOLEAN
  OBVIOUS
<1>4. EntryFor(d, e, rec, ran) \in Entry
  BY <1>2, <1>3 DEF EntryFor, Entry
<1>5. /\ EntryFor(d, e, rec, ran).act = d
      /\ EntryFor(d, e, rec, ran).entered = rec.entered
      /\ EntryFor(d, e, rec, ran).ran = (ran /\ rec.entered)
      /\ EntryFor(d, e, rec, ran).tier = HighestTier(ClaimsIn(d, e))
  BY DEF EntryFor
<1> QED  BY <1>2, <1>4, <1>5

-----------------------------------------------------------------------------
(* What filing an attempt's account does to the entries *)

\* `_record_entries` keeps every earlier entry, and each new one speaks for a
\* contributor of the attempt in an event that is open.
LEMMA RecordEntriesLemma ==
  ASSUME TypeOK, NEW d \in Dispatches, NEW ran \in BOOLEAN,
         NEW rec, rec.entered = entered[d], rec.asked \in BOOLEAN,
         RecordEntries(d, rec, ran)
  PROVE  /\ entries' \in [Events -> SUBSET Entry]
         /\ \A e \in Events : ~IsOpen(e) => entries'[e] = entries[e]
         /\ \A e \in Events : \A x \in entries'[e] :
              \/ x \in entries[e]
              \/ x.act = d /\ x.entered = entered[d] /\ (x.ran => x.entered)
         /\ \A e \in Events : \A x \in entries[e] : x.act # d => x \in entries'[e]
         /\ \A c \in Dispatches : Claims(c, d) /\ IsOpen(event[c]) =>
              \E x \in entries'[event[c]] : x.act = d /\ x.tier >= Tier(c)
<1>0. rec.entered \in BOOLEAN
  BY DEF TypeOK
<1>1. ASSUME NEW e \in Events, ClaimsIn(d, e) # {}
      PROVE  /\ EntryFor(d, e, rec, ran) \in Entry
             /\ EntryFor(d, e, rec, ran).act = d
             /\ EntryFor(d, e, rec, ran).entered = entered[d]
             /\ EntryFor(d, e, rec, ran).ran => entered[d]
             /\ \A c \in ClaimsIn(d, e) : Tier(c) <= EntryFor(d, e, rec, ran).tier
  BY <1>0, <1>1, EntryForLemma
<1>2. entries' = [e \in Events |->
                    IF IsOpen(e) /\ ClaimsIn(d, e) # {}
                      THEN {x \in entries[e] : x.act # d} \cup {EntryFor(d, e, rec, ran)}
                      ELSE entries[e]]
  BY DEF RecordEntries
<1>3. entries' \in [Events -> SUBSET Entry]
  BY <1>1, <1>2 DEF TypeOK
<1>4. /\ \A e \in Events : ~IsOpen(e) => entries'[e] = entries[e]
      /\ \A e \in Events : \A x \in entries[e] : x.act # d => x \in entries'[e]
  BY <1>2
<1>5. ASSUME NEW e \in Events, NEW x \in entries'[e]
      PROVE  \/ x \in entries[e]
             \/ x.act = d /\ x.entered = entered[d] /\ (x.ran => x.entered)
  BY <1>1, <1>2, <1>5
<1>6. ASSUME NEW c \in Dispatches, Claims(c, d), IsOpen(event[c])
      PROVE  \E x \in entries'[event[c]] : x.act = d /\ x.tier >= Tier(c)
  <2>1. event[c] \in Events /\ c \in ClaimsIn(d, event[c])
    BY <1>6 DEF Claims, ClaimsIn, Contributors, IsOpen
  <2>2. EntryFor(d, event[c], rec, ran) \in entries'[event[c]]
    BY <1>2, <1>6, <2>1
  <2>3. EntryFor(d, event[c], rec, ran) \in Entry
        /\ EntryFor(d, event[c], rec, ran).act = d
        /\ Tier(c) <= EntryFor(d, event[c], rec, ran).tier
    BY <1>1, <2>1
  <2>4. Tier(c) \in Nat /\ EntryFor(d, event[c], rec, ran).tier \in Nat
    BY <2>3, KindsAssumption DEF TypeOK, Tier, Tiers, Entry
  <2> QED  BY <2>2, <2>3, <2>4
<1> QED  BY <1>3, <1>4, <1>5, <1>6

-----------------------------------------------------------------------------
(* The invariant is kept by each kind of step *)

\* An attempt that ends: `retire`, from a proposal or from an executor.
LEMMA RetireLemma ==
  ASSUME IInv, NEW d \in Dispatches, NEW ran \in BOOLEAN, Retire(d, ran),
         pc[d] = "waiting" \/ Live(d),
         UNCHANGED <<kind, event, invalid, entered, asked, joinedTo, scopes, verdict>>
  PROVE  IInv'
<1> USE DEF IInv
<1>1. /\ entries' \in [Events -> SUBSET Entry]
      /\ \A e \in Events : ~IsOpen(e) => entries'[e] = entries[e]
      /\ \A e \in Events : \A x \in entries'[e] :
           \/ x \in entries[e]
           \/ x.act = d /\ x.entered = entered[d] /\ (x.ran => x.entered)
      /\ \A e \in Events : \A x \in entries[e] : x.act # d => x \in entries'[e]
      /\ \A c \in Dispatches : Claims(c, d) /\ IsOpen(event[c]) =>
           \E x \in entries'[event[c]] : x.act = d /\ x.tier >= Tier(c)
  <2> DEFINE rec == [entered |-> entered[d], asked |-> asked[d]]
  <2>1. rec.entered = entered[d] /\ rec.asked \in BOOLEAN
    BY DEF TypeOK
  <2>2. RecordEntries(d, rec, ran)
    BY DEF Retire
  <2> HIDE DEF rec
  <2> QED  BY <2>1, <2>2, RecordEntriesLemma
<1>2. /\ pc' = [pc EXCEPT ![d] = "done"]
      /\ state' = [state EXCEPT ![d] = "retired"]
      /\ holder' = IF holder = d THEN None ELSE holder
  BY DEF Retire
<1>3. TypeOK'
  BY <1>1, <1>2 DEF TypeOK, Phases, HolderStates
<1>4. HolderInv'
  BY <1>2, KindsAssumption DEF HolderInv, TypeOK, Live
<1>5. PhaseInv'
  BY <1>2 DEF PhaseInv, TypeOK, Live
<1>6. EntryInv'
  BY <1>1, <1>2 DEF EntryInv, TypeOK, IsOpen, Entry
<1>7. ClaimInv'
  <2> SUFFICES ASSUME NEW a \in Dispatches, NEW c \in Dispatches,
                      entered[a], pc'[a] = "done", Claims(c, a), IsOpen(event[c])
               PROVE  \E x \in entries'[event[c]] : x.act = a /\ x.tier >= Tier(c)
    BY DEF ClaimInv, Claims, IsOpen, Tier
  <2>1. CASE a = d  BY <1>1, <2>1
  <2>2. CASE a # d
    <3>1. pc[a] = "done"  BY <1>2, <2>2 DEF TypeOK
    <3>2. PICK x \in entries[event[c]] : x.act = a /\ x.tier >= Tier(c)
      BY <3>1 DEF ClaimInv
    <3> QED  BY <1>1, <2>2, <3>2 DEF IsOpen
  <2> QED  BY <2>1, <2>2
<1>8. ProposalInv'
  <2> SUFFICES ASSUME holder' # None, pc'[holder'] = "waiting",
                      NEW e \in Events, NEW x \in entries'[e],
                      x.entered, Opposes(x.act, holder)'
               PROVE  x.tier < Tier(holder)'
    BY DEF ProposalInv
  <2>1. holder' = holder /\ holder # d /\ pc[holder] = "waiting" /\ holder \in Dispatches
    BY <1>2 DEF TypeOK
  <2>2. ~entered[d]
    BY <2>1 DEF HolderInv, PhaseInv, Live
  <2>3. x \in entries[e] /\ Opposes(x.act, holder)
    BY <1>1, <2>1, <2>2 DEF Opposes, Outcome
  <2> QED  BY <2>1, <2>3 DEF ProposalInv, Tier
<1>9. JoinedTripRestsOnAnAct' /\ ProposalHeldUntilDisplaced'
  BY <1>2, KindsAssumption DEF JoinedTripRestsOnAnAct, ProposalHeldUntilDisplaced, TypeOK, Tier
<1> QED  BY <1>3, <1>4, <1>5, <1>6, <1>7, <1>8, <1>9

\* A Tier D dispatch cancelled while its executor drives: mark_uncertain.
LEMMA UncertainLemma ==
  ASSUME IInv, NEW d \in Dispatches, pc[d] = "driving",
         RecordEntries(d, [entered |-> TRUE, asked |-> asked[d]], FALSE),
         state' = [state EXCEPT ![d] = "uncertain"],
         pc' = [pc EXCEPT ![d] = "detached"],
         UNCHANGED <<holder, kind, event, invalid, entered, asked, joinedTo, scopes, verdict>>
  PROVE  IInv'
<1> USE DEF IInv
<1>0. holder = d /\ entered[d] = TRUE
  BY DEF HolderInv, Live, TypeOK
<1>1. /\ entries' \in [Events -> SUBSET Entry]
      /\ \A e \in Events : ~IsOpen(e) => entries'[e] = entries[e]
      /\ \A e \in Events : \A x \in entries'[e] :
           \/ x \in entries[e]
           \/ x.act = d /\ x.entered = entered[d] /\ (x.ran => x.entered)
      /\ \A e \in Events : \A x \in entries[e] : x.act # d => x \in entries'[e]
  <2> DEFINE rec == [entered |-> TRUE, asked |-> asked[d]]
  <2>1. rec.entered = entered[d] /\ rec.asked \in BOOLEAN
    BY <1>0 DEF TypeOK
  <2>2. RecordEntries(d, rec, FALSE)
    OBVIOUS
  <2> HIDE DEF rec
  <2> QED  BY <2>1, <2>2, RecordEntriesLemma
<1>3. TypeOK'
  BY <1>1 DEF TypeOK, Phases, HolderStates
<1>4. HolderInv'
  BY KindsAssumption DEF HolderInv, TypeOK, Live
<1>5. PhaseInv'
  BY DEF PhaseInv, TypeOK, Live
<1>6. EntryInv'
  BY <1>1 DEF EntryInv, TypeOK, IsOpen, Entry
<1>7. ClaimInv'
  <2> SUFFICES ASSUME NEW a \in Dispatches, NEW c \in Dispatches,
                      entered[a], pc'[a] = "done", Claims(c, a), IsOpen(event[c])
               PROVE  \E x \in entries'[event[c]] : x.act = a /\ x.tier >= Tier(c)
    BY DEF ClaimInv, Claims, IsOpen, Tier
  <2>1. a # d /\ pc[a] = "done"  BY DEF TypeOK
  <2>2. PICK x \in entries[event[c]] : x.act = a /\ x.tier >= Tier(c)
    BY <2>1 DEF ClaimInv
  <2> QED  BY <1>1, <2>1, <2>2 DEF IsOpen
<1>8. ProposalInv'
  BY <1>0 DEF ProposalInv, TypeOK
<1>9. JoinedTripRestsOnAnAct' /\ ProposalHeldUntilDisplaced'
  BY DEF JoinedTripRestsOnAnAct, ProposalHeldUntilDisplaced, TypeOK, Tier
<1> QED  BY <1>3, <1>4, <1>5, <1>6, <1>7, <1>8, <1>9

\* An admission, of a free resource or of one whose proposal is displaced.
LEMMA AdmitLemma ==
  ASSUME IInv, NEW d \in Dispatches, pc[d] = "idle", DueInEvent(d),
         ~RefuseOpposing(d), Admit(d),
         \/ holder = None /\ UNCHANGED invalid
         \/ Displaces(d) /\ invalid' = [invalid EXCEPT ![holder] = TRUE],
         UNCHANGED <<kind, event, asked, joinedTo, scopes, entries, verdict>>
  PROVE  IInv'
<1> USE DEF IInv
<1>1. /\ holder' = d
      /\ state' = [state EXCEPT ![d] = IF kind[d].approval THEN "proposal" ELSE "running"]
      /\ entered' = [entered EXCEPT ![d] = ~kind[d].approval]
      /\ pc' = [pc EXCEPT ![d] = IF kind[d].approval THEN "waiting" ELSE "driving"]
      /\ kind[d].approval \in BOOLEAN
  BY KindsAssumption DEF Admit, TypeOK
<1>2. holder # None =>
        holder \in Dispatches /\ holder # d /\ pc[holder] = "waiting"
        /\ invalid' = [invalid EXCEPT ![holder] = TRUE]
  BY DEF Displaces, HolderInv, Live, TypeOK
<1>3. holder = None => invalid' = invalid
  BY DEF Displaces
<1>4. \A c \in Dispatches : ~Live(c)
  BY <1>2, KindsAssumption DEF HolderInv, Live
<1>5. \A e \in Events : \A x \in entries[e] : x.act # d
  BY DEF EntryInv
<1>6. TypeOK'
  <2>1. invalid' \in [Dispatches -> BOOLEAN]
    BY <1>2, <1>3 DEF TypeOK
  <2> QED  BY <1>1, <2>1 DEF TypeOK, Phases, HolderStates
<1>7. HolderInv'
  BY <1>1, <1>4 DEF HolderInv, TypeOK, Live
<1>8. PhaseInv'
  <2>1. event[d] \in Events => scopes[event[d]] # "unopened"
    BY KindsAssumption DEF DueInEvent, IsOpen
  <2> QED  BY <1>1, <1>2, <1>3, <2>1 DEF PhaseInv, TypeOK, Live
<1>9. EntryInv'
  BY <1>1, <1>5 DEF EntryInv, TypeOK, IsOpen, Entry
<1>10. ClaimInv'
  BY <1>1 DEF ClaimInv, TypeOK, Claims, IsOpen, Tier
<1>11. ProposalInv'
  <2> SUFFICES ASSUME NEW e \in Events, NEW x \in entries[e],
                      x.entered, Opposes(x.act, d)
               PROVE  x.tier < Tier(d)
    BY <1>1 DEF ProposalInv, Opposes, Outcome, Tier
  <2>1. IsOpen(e)
    BY DEF EntryInv
  <2>2. x \in OpposingEntries(d)
    BY <2>1 DEF OpposingEntries
  <2>3. ~(Tier(d) <= x.tier)
    BY <2>2 DEF RefuseOpposing, Foreclosed
  <2>4. Tier(d) \in Nat /\ x.tier \in Nat
    BY KindsAssumption DEF TypeOK, Tier, Tiers, Entry
  <2> QED  BY <2>3, <2>4
<1>12. JoinedTripRestsOnAnAct'
  <2>1. entered[d] = FALSE
    BY DEF PhaseInv, TypeOK, Live
  <2> QED  BY <1>1, <2>1 DEF JoinedTripRestsOnAnAct, TypeOK, Tier
<1>13. ProposalHeldUntilDisplaced'
  <2> SUFFICES ASSUME NEW c \in Dispatches, pc'[c] = "waiting"
               PROVE  holder' = c <=> ~invalid'[c]
    BY DEF ProposalHeldUntilDisplaced
  <2>1. CASE c = d
    <3>1. invalid'[d] = invalid[d]
      BY <1>2, <1>3 DEF TypeOK
    <3> QED  BY <1>1, <2>1, <3>1 DEF PhaseInv
  <2>2. CASE c # d
    <3>1. pc[c] = "waiting"
      BY <1>1, <2>2 DEF TypeOK
    <3>2. invalid'[c]
      BY <1>2, <1>3, <3>1, KindsAssumption DEF ProposalHeldUntilDisplaced, TypeOK
    <3> QED  BY <1>1, <2>2, <3>2
  <2> QED  BY <2>1, <2>2
<1> QED  BY <1>6, <1>7, <1>8, <1>9, <1>10, <1>11, <1>12, <1>13

\* A request that joins the holder, or an act its event completed.
LEMMA JoinLemma ==
  ASSUME IInv, NEW d \in Dispatches, pc[d] = "idle", DueInEvent(d),
         NEW a \in Dispatches, Tier(d) = TierD => entered[a],
         pc' = [pc EXCEPT ![d] = "joined"],
         joinedTo' = [joinedTo EXCEPT ![d] = a],
         entries' \in [Events -> SUBSET Entry],
         \A e \in Events : ~IsOpen(e) => entries'[e] = entries[e],
         \A e \in Events : entries[e] \subseteq entries'[e],
         \A e \in Events : \A x \in entries'[e] \ entries[e] :
           holder = None /\ x.act = a /\ x.entered /\ entered[a] /\ pc[a] = "done",
         entered[a] /\ pc[a] = "done" /\ IsOpen(event[d]) =>
           \E x \in entries'[event[d]] : x.act = a /\ x.tier >= Tier(d),
         UNCHANGED <<holder, state, invalid, entered, kind, event, asked, scopes, verdict>>
  PROVE  IInv'
<1> USE DEF IInv
<1>1. TypeOK'
  BY DEF TypeOK, Phases
<1>2. HolderInv'
  BY KindsAssumption DEF HolderInv, TypeOK, Live
<1>3. PhaseInv'
  <2>1. event[d] \in Events => scopes[event[d]] # "unopened"
    BY KindsAssumption DEF DueInEvent, IsOpen
  <2> QED  BY <2>1 DEF PhaseInv, TypeOK, Live
<1>4. EntryInv'
  <2> SUFFICES ASSUME NEW e \in Events
               PROVE  /\ ~IsOpen(e) => entries'[e] = {}
                      /\ \A x \in entries'[e] :
                           /\ pc'[x.act] \in {"detached", "reported", "done"}
                           /\ x.entered = entered[x.act]
                           /\ x.ran => x.entered
    BY DEF EntryInv, IsOpen
  <2>1. ~IsOpen(e) => entries'[e] = {}
    BY DEF EntryInv
  <2>2. ASSUME NEW x \in entries'[e]
        PROVE  /\ pc'[x.act] \in {"detached", "reported", "done"}
               /\ x.entered = entered[x.act]
               /\ x.ran => x.entered
    <3>1. CASE x \in entries[e]
      BY <3>1 DEF EntryInv, TypeOK, Entry
    <3>2. CASE x \notin entries[e]
      BY <2>2, <3>2 DEF TypeOK, Entry
    <3> QED  BY <3>1, <3>2
  <2> QED  BY <2>1, <2>2
<1>5. ClaimInv'
  <2> SUFFICES ASSUME NEW b \in Dispatches, NEW c \in Dispatches,
                      entered[b], pc'[b] = "done", Claims(c, b)', IsOpen(event[c])
               PROVE  \E x \in entries'[event[c]] : x.act = b /\ x.tier >= Tier(c)
    BY DEF ClaimInv, IsOpen, Tier
  <2>0. pc[b] = "done" /\ b # d
    BY DEF TypeOK
  <2>1. CASE c = d
    BY <2>0, <2>1 DEF Claims, TypeOK
  <2>2. CASE c # d
    <3>1. PICK x \in entries[event[c]] : x.act = b /\ x.tier >= Tier(c)
      BY <2>0, <2>2 DEF ClaimInv, Claims, TypeOK
    <3> QED  BY <3>1 DEF IsOpen
  <2> QED  BY <2>1, <2>2
<1>6. ProposalInv'
  BY DEF ProposalInv, TypeOK, Opposes, Outcome, Tier
<1>7. JoinedTripRestsOnAnAct' /\ ProposalHeldUntilDisplaced'
  BY DEF JoinedTripRestsOnAnAct, ProposalHeldUntilDisplaced, TypeOK, Tier
<1> QED  BY <1>1, <1>2, <1>3, <1>4, <1>5, <1>6, <1>7

\* The six answers of the gate to a request.
LEMMA RequestLemma ==
  ASSUME IInv, NEW d \in Dispatches, Request(d)
  PROVE  IInv'
<1>0. /\ pc[d] = "idle" /\ DueInEvent(d)
      /\ UNCHANGED <<kind, event, asked, scopes, verdict>>
  BY DEF Request
<1>1. CASE Refused(d)
  <2>0. /\ pc' = [pc EXCEPT ![d] = "refused"]
        /\ UNCHANGED <<holder, state, invalid, entered, joinedTo, entries>>
    BY <1>1 DEF Refused
  <2>1. TypeOK' /\ HolderInv'
    BY <1>0, <2>0, KindsAssumption DEF IInv, TypeOK, Phases, HolderInv, Live
  <2>2. PhaseInv'
    <3>1. event[d] \in Events => scopes[event[d]] # "unopened"
      BY <1>0, KindsAssumption DEF DueInEvent, IsOpen
    <3> QED  BY <1>0, <2>0, <3>1 DEF IInv, TypeOK, PhaseInv, Live
  <2>3. EntryInv'
    BY <1>0, <2>0 DEF IInv, TypeOK, EntryInv, Entry, IsOpen
  <2>4. ClaimInv' /\ ProposalInv'
    BY <1>0, <2>0 DEF IInv, TypeOK, ClaimInv, ProposalInv, Claims, IsOpen, Tier,
                      Opposes, Outcome
  <2>5. JoinedTripRestsOnAnAct' /\ ProposalHeldUntilDisplaced'
    BY <1>0, <2>0 DEF IInv, TypeOK, JoinedTripRestsOnAnAct, ProposalHeldUntilDisplaced, Tier
  <2> QED  BY <2>1, <2>2, <2>3, <2>4, <2>5 DEF IInv
<1>2. CASE /\ JoinsHolder(d)
           /\ pc' = [pc EXCEPT ![d] = "joined"]
           /\ joinedTo' = [joinedTo EXCEPT ![d] = holder]
           /\ UNCHANGED <<holder, state, invalid, entered, entries>>
  <2>1. holder \in Dispatches /\ (pc[holder] = "waiting" \/ Live(holder))
    BY <1>2 DEF IInv, TypeOK, HolderInv, JoinsHolder
  <2>2. ASSUME Tier(d) = TierD
        PROVE  entered[holder]
    <3>1. state[holder] # "proposal"
      BY <1>2, <2>2 DEF JoinsHolder, Displaces, TierD
    <3> QED  BY <2>1, <3>1 DEF IInv, HolderInv
  <2>3. pc[holder] # "done"
    BY <2>1 DEF Live
  <2>4. entries' \in [Events -> SUBSET Entry]
    BY <1>2 DEF IInv, TypeOK
  <2> QED  BY <1>0, <1>2, <2>1, <2>2, <2>3, <2>4, JoinLemma
<1>3. CASE /\ ~RefuseOpposing(d) /\ Displaces(d)
           /\ invalid' = [invalid EXCEPT ![holder] = TRUE]
           /\ Admit(d)
           /\ UNCHANGED <<joinedTo, entries>>
  BY <1>0, <1>3, AdmitLemma
<1>4. CASE \E x \in Joinable(d) : JoinEntry(d, x)
  <2>1. PICK x \in Joinable(d) : JoinEntry(d, x)
    BY <1>4
  <2>2. /\ holder = None /\ IsOpen(event[d]) /\ event[d] \in Events
        /\ x \in entries[event[d]]
        /\ x.ran \/ (Tier(d) < TierD /\ ~x.entered)
    BY <2>1 DEF Joinable, IsOpen
  <2>3. /\ x.act \in Dispatches /\ x.entered = entered[x.act] /\ (x.ran => x.entered)
        /\ pc[x.act] = "done" /\ x \in Entry
    <3>1. x \in Entry /\ x.act \in Dispatches
      BY <2>2 DEF IInv, TypeOK, Entry
    <3>2. ~Live(x.act)
      BY <2>2, <3>1, KindsAssumption DEF IInv, HolderInv
    <3> QED  BY <2>2, <3>1, <3>2 DEF IInv, EntryInv, Live
  <2>4. Tier(d) \in Tiers
    BY KindsAssumption DEF IInv, TypeOK, Tier
  <2>5. Tier(d) = TierD => entered[x.act]
    BY <2>2, <2>3, <2>4 DEF TierD, Tiers
  <2>6. /\ pc' = [pc EXCEPT ![d] = "joined"]
        /\ joinedTo' = [joinedTo EXCEPT ![d] = x.act]
        /\ UNCHANGED <<holder, state, invalid, entered>>
    BY <2>1 DEF JoinEntry
  <2> DEFINE y == [act |-> x.act, tier |-> Tier(d), entered |-> TRUE, ran |-> TRUE,
                   holdsD |-> Tier(d) = TierD, asked |-> FALSE]
  <2>7. y \in Entry /\ y.act = x.act /\ y.tier = Tier(d) /\ y.entered
    BY <2>3, <2>4 DEF Entry
  <2>8. entries' = IF x.ran THEN [entries EXCEPT ![event[d]] = @ \cup {y}] ELSE entries
    BY <2>1 DEF JoinEntry
  <2> HIDE DEF y
  <2>9. /\ entries' \in [Events -> SUBSET Entry]
        /\ \A e \in Events : ~IsOpen(e) => entries'[e] = entries[e]
        /\ \A e \in Events : entries[e] \subseteq entries'[e]
    BY <2>2, <2>7, <2>8 DEF IInv, TypeOK
  <2>10. \A e \in Events : \A z \in entries'[e] \ entries[e] :
           holder = None /\ z.act = x.act /\ z.entered /\ entered[x.act] /\ pc[x.act] = "done"
    BY <2>2, <2>3, <2>7, <2>8 DEF IInv, TypeOK
  <2>11. ASSUME entered[x.act]
         PROVE  \E z \in entries'[event[d]] : z.act = x.act /\ z.tier >= Tier(d)
    <3>1. x.ran
      BY <2>2, <2>3, <2>11
    <3>2. y \in entries'[event[d]]
      BY <2>2, <2>8, <3>1 DEF IInv, TypeOK
    <3> QED  BY <2>4, <2>7, <3>2 DEF Tiers
  <2> QED  BY <1>0, <2>2, <2>3, <2>5, <2>6, <2>9, <2>10, <2>11, JoinLemma
<1>5. CASE /\ ~RefuseOpposing(d) /\ holder = None
           /\ Admit(d)
           /\ UNCHANGED <<invalid, joinedTo, entries>>
  BY <1>0, <1>5, AdmitLemma
<1> QED  BY <1>1, <1>2, <1>3, <1>4, <1>5 DEF Request

\* The other steps that leave the entries alone, or close an event.
LEMMA OtherStepsLemma ==
  ASSUME IInv,
         \/ \E e \in Events : OpenScope(e) \/ CloseScope(e)
         \/ \E d \in Dispatches : Asked(d) \/ Approve(d)
         \/ \E d \in Dispatches, ok \in BOOLEAN : DetachedEnds(d, ok)
         \/ UNCHANGED vars
  PROVE  IInv'
<1> USE DEF IInv
<1>1. ASSUME NEW e \in Events, OpenScope(e)
      PROVE  IInv'
  <2>0. /\ scopes[e] = "unopened" /\ scopes' = [scopes EXCEPT ![e] = "open"]
        /\ UNCHANGED <<kind, event, pc, holder, state, invalid, entered, asked, joinedTo,
                       entries, verdict>>
    BY <1>1 DEF OpenScope
  <2>1. TypeOK' /\ HolderInv' /\ PhaseInv' /\ EntryInv'
    BY <2>0 DEF TypeOK, HolderInv, PhaseInv, EntryInv, Live, IsOpen
  <2>2. ClaimInv'
    <3> SUFFICES ASSUME NEW a \in Dispatches, NEW c \in Dispatches,
                        entered[a], pc[a] = "done", Claims(c, a), IsOpen(event[c])'
                 PROVE  \E x \in entries[event[c]] : x.act = a /\ x.tier >= Tier(c)
      BY <2>0 DEF ClaimInv, Claims, Tier, IsOpen
    <3>1. event[c] # e
      BY <2>0, KindsAssumption DEF PhaseInv, Claims, TypeOK
    <3> QED  BY <2>0, <3>1 DEF ClaimInv, IsOpen, TypeOK
  <2>3. ProposalInv' /\ JoinedTripRestsOnAnAct' /\ ProposalHeldUntilDisplaced'
    BY <2>0 DEF ProposalInv, JoinedTripRestsOnAnAct, ProposalHeldUntilDisplaced, Opposes,
                Outcome, Tier
  <2> QED  BY <2>1, <2>2, <2>3
<1>2. ASSUME NEW e \in Events, CloseScope(e)
      PROVE  IInv'
  <2>0. /\ scopes' = [scopes EXCEPT ![e] = "closed"]
        /\ entries' = [entries EXCEPT ![e] = {}]
        /\ UNCHANGED <<kind, event, pc, holder, state, invalid, entered, asked, joinedTo,
                       verdict>>
    BY <1>2 DEF CloseScope
  <2>1. TypeOK' /\ HolderInv' /\ PhaseInv' /\ EntryInv'
    BY <2>0 DEF TypeOK, HolderInv, PhaseInv, EntryInv, Live, IsOpen
  <2>2. ClaimInv'
    BY <2>0 DEF ClaimInv, Claims, Tier, IsOpen, TypeOK
  <2>3. ProposalInv' /\ JoinedTripRestsOnAnAct' /\ ProposalHeldUntilDisplaced'
    BY <2>0 DEF ProposalInv, JoinedTripRestsOnAnAct, ProposalHeldUntilDisplaced, Opposes,
                Outcome, Tier, TypeOK
  <2> QED  BY <2>1, <2>2, <2>3
<1>3. ASSUME NEW d \in Dispatches, Asked(d)
      PROVE  IInv'
  BY <1>3 DEF Asked, TypeOK, HolderInv, PhaseInv, EntryInv, ClaimInv, ProposalInv,
     JoinedTripRestsOnAnAct, ProposalHeldUntilDisplaced, Live, IsOpen, Claims, Opposes,
     Outcome, Tier
<1>4. ASSUME NEW d \in Dispatches, Approve(d)
      PROVE  IInv'
  <2>0. /\ pc[d] = "waiting" /\ holder = d
        /\ state' = [state EXCEPT ![d] = "running"]
        /\ entered' = [entered EXCEPT ![d] = TRUE]
        /\ pc' = [pc EXCEPT ![d] = "driving"]
        /\ UNCHANGED <<kind, event, holder, invalid, asked, joinedTo, scopes, entries, verdict>>
    BY <1>4 DEF Approve, ReplyAdmitted
  <2>1. TypeOK' /\ HolderInv' /\ PhaseInv'
    BY <2>0, KindsAssumption DEF TypeOK, HolderInv, PhaseInv, Live, Phases, HolderStates
  <2>2. EntryInv'
    <3>1. \A e \in Events : \A x \in entries[e] : x.act \in Dispatches /\ x.act # d
      BY <2>0 DEF TypeOK, EntryInv, Entry
    <3> QED  BY <2>0, <3>1 DEF TypeOK, EntryInv, IsOpen
  <2>3. ClaimInv' /\ ProposalInv'
    BY <2>0 DEF TypeOK, ClaimInv, ProposalInv, Claims, Tier, IsOpen
  <2>4. JoinedTripRestsOnAnAct' /\ ProposalHeldUntilDisplaced'
    BY <2>0 DEF TypeOK, JoinedTripRestsOnAnAct, ProposalHeldUntilDisplaced, Tier
  <2> QED  BY <2>1, <2>2, <2>3, <2>4
<1>5. ASSUME NEW d \in Dispatches, NEW ok \in BOOLEAN, DetachedEnds(d, ok)
      PROVE  IInv'
  <2>0. /\ pc[d] = "detached" /\ holder = d
        /\ pc' = [pc EXCEPT ![d] = "reported"]
        /\ verdict' = [verdict EXCEPT ![d] = ok]
        /\ UNCHANGED <<kind, event, holder, state, invalid, entered, asked, joinedTo, scopes,
                       entries>>
    BY <1>5 DEF DetachedEnds, HolderInv, Live
  <2>1. TypeOK' /\ HolderInv' /\ PhaseInv'
    BY <2>0, KindsAssumption DEF TypeOK, HolderInv, PhaseInv, Live, Phases
  <2>2. EntryInv'
    BY <2>0 DEF TypeOK, EntryInv, Entry, IsOpen
  <2>3. ClaimInv' /\ ProposalInv'
    BY <2>0 DEF TypeOK, ClaimInv, ProposalInv, Claims, Tier, IsOpen
  <2>4. JoinedTripRestsOnAnAct' /\ ProposalHeldUntilDisplaced'
    BY <2>0 DEF TypeOK, JoinedTripRestsOnAnAct, ProposalHeldUntilDisplaced, Tier
  <2> QED  BY <2>1, <2>2, <2>3, <2>4
<1>6. CASE UNCHANGED vars
  BY <1>6 DEF vars, TypeOK, HolderInv, PhaseInv, EntryInv, ClaimInv, ProposalInv,
     JoinedTripRestsOnAnAct, ProposalHeldUntilDisplaced, Live, IsOpen, Claims, Opposes,
     Outcome, Tier
<1> QED  BY <1>1, <1>2, <1>3, <1>4, <1>5, <1>6

-----------------------------------------------------------------------------
(* The theorems *)

\* A gate with no record, no scope and no entry satisfies the invariant.
LEMMA InitIInv == Init => IInv
<1> SUFFICES ASSUME Init PROVE IInv
  OBVIOUS
<1>0. /\ kind \in [Dispatches -> Kinds]
      /\ event \in [Dispatches -> Events \cup {NoEvent}]
  BY PlansAssumption DEF Init
<1>1. TypeOK
  BY <1>0 DEF Init, TypeOK, Phases, HolderStates
<1>2. HolderInv /\ PhaseInv /\ EntryInv /\ ClaimInv
  BY DEF Init, HolderInv, PhaseInv, EntryInv, ClaimInv, Live
<1>3. ProposalInv /\ JoinedTripRestsOnAnAct /\ ProposalHeldUntilDisplaced
  BY DEF Init, ProposalInv, JoinedTripRestsOnAnAct, ProposalHeldUntilDisplaced
<1> QED  BY <1>1, <1>2, <1>3 DEF IInv

\* Every operation of the gate and the dispatcher preserves it.
LEMMA NextIInv == IInv /\ [Next]_vars => IInv'
<1> SUFFICES ASSUME IInv, [Next]_vars PROVE IInv'
  OBVIOUS
<1>1. ASSUME NEW d \in Dispatches, Request(d) PROVE IInv'
  BY <1>1, RequestLemma
<1>2. ASSUME NEW d \in Dispatches, EndProposal(d) PROVE IInv'
  BY <1>2, RetireLemma DEF EndProposal
<1>3. ASSUME NEW d \in Dispatches, NEW ok \in BOOLEAN, ExecutorReturns(d, ok) PROVE IInv'
  BY <1>3, RetireLemma DEF ExecutorReturns, Live
<1>4. ASSUME NEW d \in Dispatches, ResolveUncertain(d) PROVE IInv'
  <2>1. verdict[d] \in BOOLEAN
    BY DEF IInv, TypeOK
  <2> QED  BY <1>4, <2>1, RetireLemma DEF ResolveUncertain, Live
<1>5. ASSUME NEW d \in Dispatches, CancelDriving(d) PROVE IInv'
  <2>1. CASE Retire(d, FALSE)
    BY <1>5, <2>1, RetireLemma DEF CancelDriving, Live
  <2>2. CASE /\ RecordEntries(d, [entered |-> TRUE, asked |-> asked[d]], FALSE)
             /\ state' = [state EXCEPT ![d] = "uncertain"]
             /\ pc' = [pc EXCEPT ![d] = "detached"]
             /\ UNCHANGED holder
    BY <1>5, <2>2, UncertainLemma DEF CancelDriving
  <2> QED  BY <1>5, <2>1, <2>2 DEF CancelDriving
<1> QED  BY <1>1, <1>2, <1>3, <1>4, <1>5, OtherStepsLemma DEF Next

\* So it holds in every reachable state.
LEMMA SpecIInv == Spec => []IInv
  BY InitIInv, NextIInv, PTL DEF Spec

\* Every variable keeps its type, for any number of dispatches and events.
THEOREM TypeCorrect == Spec => []TypeOK
<1>1. IInv => TypeOK  BY DEF IInv
<1> QED  BY <1>1, SpecIInv, PTL

\* One executor at a time drives the resource (resource_gate.request, retire,
\* mark_uncertain; _admit_and_run).
THEOREM MutualExclusion == Spec => []AtMostOneExecutor
<1>1. IInv => AtMostOneExecutor
  BY DEF IInv, HolderInv, AtMostOneExecutor, InFlight, Live
<1> QED  BY <1>1, SpecIInv, PTL

\* A Tier D request never joins a proposal (_same_outcome, _join_completed).
THEOREM TripsRestOnActs == Spec => []JoinedTripRestsOnAnAct
<1>1. IInv => JoinedTripRestsOnAnAct  BY DEF IInv
<1> QED  BY <1>1, SpecIInv, PTL

\* A proposal loses the resource exactly when it is marked (reply_admitted).
THEOREM ProposalsHeld == Spec => []ProposalHeldUntilDisplaced
<1>1. IInv => ProposalHeldUntilDisplaced  BY DEF IInv
<1> QED  BY <1>1, SpecIInv, PTL

\* No executor is entered against what an open event drove or joined at its
\* own tier or above (_record_entries, _refuse_opposing, reply_admitted).
THEOREM Foreclosure == Spec => ForeclosureHonoured
<1>1. ASSUME IInv, [Next]_vars,
             NEW d \in Dispatches, NEW a \in Dispatches, NEW c \in Dispatches,
             Starts(d), entered[a], Opposes(a, d), Claims(c, a), IsOpen(event[c])
      PROVE  Tier(c) < Tier(d)
  <2>1. a # d
    BY <1>1 DEF Opposes
  <2>2. Tier(c) \in Nat /\ Tier(d) \in Nat
    BY <1>1, KindsAssumption DEF IInv, TypeOK, Tier, Tiers
  <2>3. Live(a) \/ pc[a] = "done"
    BY <1>1 DEF IInv, PhaseInv
  <2>4. pc[a] = "done" =>
          \E x \in entries[event[c]] :
            x.act = a /\ x.tier >= Tier(c) /\ x.entered /\ x.tier \in Nat
    BY <1>1 DEF IInv, ClaimInv, EntryInv, IsOpen, TypeOK, Entry, Tiers
  <2>5. Request(d) \/ Approve(d)
    <3>0. pc[d] # "driving" /\ pc'[d] = "driving" /\ pc \in [Dispatches -> Phases]
      BY <1>1 DEF Starts, IInv, TypeOK
    <3>1. ASSUME NEW b \in Dispatches, NEW p, pc' = [pc EXCEPT ![b] = p], p # "driving"
          PROVE  FALSE
      BY <3>0, <3>1
    <3>2. ASSUME NEW b \in Dispatches, Request(b) \/ Approve(b)
          PROVE  b = d
      BY <3>0, <3>2 DEF Request, Refused, JoinEntry, Admit, Approve
    <3>3. ASSUME NEW b \in Dispatches, NEW ok \in BOOLEAN,
                 \/ Asked(b) \/ EndProposal(b) \/ CancelDriving(b) \/ ResolveUncertain(b)
                 \/ ExecutorReturns(b, ok) \/ DetachedEnds(b, ok)
          PROVE  FALSE
      BY <3>0, <3>1, <3>3 DEF Asked, EndProposal, CancelDriving, ResolveUncertain,
         ExecutorReturns, DetachedEnds, Retire
    <3>4. \A e \in Events : ~OpenScope(e) /\ ~CloseScope(e)
      BY <3>0 DEF OpenScope, CloseScope
    <3> QED  BY <1>1, <3>0, <3>2, <3>3, <3>4 DEF Next, vars
  <2>6. CASE Approve(d)
    <3>1. holder = d /\ pc[d] = "waiting"
      BY <2>6 DEF Approve, ReplyAdmitted
    <3>2. pc[a] = "done"
      BY <1>1, <2>1, <2>3, <3>1 DEF IInv, HolderInv
    <3>3. PICK x \in entries[event[c]] :
            x.act = a /\ x.tier >= Tier(c) /\ x.entered /\ x.tier \in Nat
      BY <2>4, <3>2
    <3>4. x.tier < Tier(d)
      BY <1>1, <3>1, <3>3, KindsAssumption DEF IInv, ProposalInv, IsOpen
    <3> QED  BY <2>2, <3>3, <3>4
  <2>7. CASE Request(d)
    <3>1. ~RefuseOpposing(d) /\ (holder = None \/ Displaces(d))
      BY <1>1, <2>7 DEF Starts, Request, Refused, JoinEntry, Admit, IInv, TypeOK
    <3>2. ~Live(a)
      BY <1>1, <3>1, KindsAssumption DEF Displaces, IInv, HolderInv, Live
    <3>3. PICK x \in entries[event[c]] :
            x.act = a /\ x.tier >= Tier(c) /\ x.entered /\ x.tier \in Nat
      BY <2>3, <2>4, <3>2
    <3>4. x \in OpposingEntries(d)
      BY <1>1, <3>3 DEF OpposingEntries, IsOpen
    <3>5. ~(Tier(d) <= x.tier)
      BY <3>1, <3>4 DEF RefuseOpposing, Foreclosed
    <3> QED  BY <2>2, <3>3, <3>5
  <2> QED  BY <2>5, <2>6, <2>7
<1>2. IInv /\ [Next]_vars =>
        [\A d, a, c \in Dispatches :
           /\ Starts(d)
           /\ entered[a] /\ Opposes(a, d)
           /\ Claims(c, a) /\ IsOpen(event[c])
           => Tier(c) < Tier(d)]_vars
  BY <1>1
<1> QED  BY <1>2, SpecIInv, PTL DEF Spec, ForeclosureHonoured

-----------------------------------------------------------------------------
(* A command is asked for once *)

\* An act that has no opposite: a device or host command, not a zone's outcome.
Command(d) == Outcome(d) \notin {"open", "close"}

\* "Tier D is reached only through a licensed protective outcome on a
\* commissioned zone" (action_registry.py): no command is dispatched at Tier D.
TierDIsForZones == \A k \in Kinds : k.tier = TierD => k.outcome \in {"open", "close"}

\* Only a zone's proposals are displaced.
DisplacedIsZones == \A d \in Dispatches : invalid[d] => ~Command(d)

\* Only an admitted dispatch was asked for.
AskedWasAdmitted ==
  \A d \in Dispatches : asked[d] => pc[d] = "waiting" \/ Live(d) \/ pc[d] = "done"

\* An ask that came to nothing is filed as such in its event.
AskIsFiled ==
  \A p \in Dispatches :
    asked[p] /\ ~entered[p] /\ pc[p] = "done" /\ IsOpen(event[p])
      => \E x \in entries[event[p]] : x.act = p /\ ~x.entered /\ x.asked

SameAsk(d, p) ==
  /\ d # p /\ Command(d) /\ Outcome(d) = Outcome(p)
  /\ event[d] = event[p] /\ event[d] # NoEvent

\* Who is about to ask for a command has no such ask before it in its event.
NoAskBefore ==
  \A d, p \in Dispatches :
    SameAsk(d, p) /\ pc[d] = "waiting" /\ ~asked[d] => ~(asked[p] /\ ~entered[p])

AskInv == DisplacedIsZones /\ AskedWasAdmitted /\ AskIsFiled /\ NoAskBefore

\* A command's proposal that waits is the holder: nothing displaced it.
LEMMA WaitingCommandHolds ==
  ASSUME IInv, AskInv, NEW d \in Dispatches, Command(d), pc[d] = "waiting"
  PROVE  holder = d
  BY DEF IInv, ProposalHeldUntilDisplaced, AskInv, DisplacedIsZones, TypeOK

\* A step that moves one dispatch on and asks nobody, from which no proposal
\* starts, keeps what is said of asks, if an ask that ends is filed.
LEMMA AskKept ==
  ASSUME IInv, AskInv, NEW b \in Dispatches, NEW at \in Phases,
         UNCHANGED <<kind, event, invalid, asked, scopes>>,
         pc' = [pc EXCEPT ![b] = at], at # "waiting",
         asked[b] => at \in {"driving", "detached", "reported", "done"},
         \A d \in Dispatches : entered[d] => entered'[d],
         \A e \in Events : \A x \in entries[e] : x.act # b => x \in entries'[e],
         asked[b] /\ ~entered[b] /\ at = "done" /\ IsOpen(event[b]) =>
           \E x \in entries'[event[b]] : x.act = b /\ ~x.entered /\ x.asked,
         pc[b] # "done"
  PROVE  AskInv'
<1>1. /\ \A d \in Dispatches : Command(d)' = Command(d) /\ Outcome(d)' = Outcome(d)
      /\ \A d \in Dispatches : IsOpen(event[d])' = IsOpen(event[d])
      /\ \A d, p \in Dispatches : SameAsk(d, p)' = SameAsk(d, p)
  BY DEF Command, Outcome, IsOpen, SameAsk
<1>2. pc'[b] = at /\ \A d \in Dispatches \ {b} : pc'[d] = pc[d]
  BY DEF IInv, TypeOK
<1>3. DisplacedIsZones'
  BY <1>1 DEF AskInv, DisplacedIsZones
<1>4. AskedWasAdmitted'
  BY <1>2 DEF AskInv, AskedWasAdmitted, Live
<1>5. AskIsFiled'
  <2> SUFFICES ASSUME NEW p \in Dispatches,
                      asked'[p], ~entered'[p], pc'[p] = "done", IsOpen(event[p])
               PROVE  \E x \in entries'[event[p]] : x.act = p /\ ~x.entered /\ x.asked
    BY <1>1 DEF AskIsFiled
  <2>1. asked[p] /\ ~entered[p] /\ event[p] \in Events
    BY DEF IsOpen
  <2>2. CASE p = b
    BY <1>2, <2>1, <2>2
  <2>3. CASE p # b
    BY <1>2, <2>1, <2>3 DEF AskInv, AskIsFiled
  <2> QED BY <2>2, <2>3
<1>6. NoAskBefore'
  <2> SUFFICES ASSUME NEW d \in Dispatches, NEW p \in Dispatches,
                      SameAsk(d, p), pc'[d] = "waiting", ~asked'[d], asked'[p], ~entered'[p]
               PROVE  FALSE
    BY <1>1 DEF NoAskBefore
  <2>1. d # b /\ pc[d] = "waiting" /\ ~asked[d] /\ asked[p] /\ ~entered[p]
    BY <1>2
  <2> QED BY <2>1 DEF AskInv, NoAskBefore
<1> QED BY <1>3, <1>4, <1>5, <1>6 DEF AskInv

\* `retire` files an ask that came to nothing where its event is open.
LEMMA AskRetired ==
  ASSUME IInv, AskInv, NEW d \in Dispatches, NEW ran \in BOOLEAN, Retire(d, ran),
         pc[d] = "waiting" \/ Live(d),
         UNCHANGED <<kind, event, invalid, entered, asked, joinedTo, scopes, verdict>>
  PROVE  AskInv'
<1> DEFINE rec == [entered |-> entered[d], asked |-> asked[d]]
<1>1. /\ rec.entered = entered[d] /\ rec.asked = asked[d] /\ rec.asked \in BOOLEAN
      /\ RecordEntries(d, rec, ran)
  BY DEF Retire, IInv, TypeOK
<1> HIDE DEF rec
<1>2. \A e \in Events : \A x \in entries[e] : x.act # d => x \in entries'[e]
  BY <1>1, RecordEntriesLemma DEF IInv
<1>3. ASSUME asked[d], ~entered[d], IsOpen(event[d])
      PROVE  \E x \in entries'[event[d]] : x.act = d /\ ~x.entered /\ x.asked
  <2>1. event[d] \in Events /\ ClaimsIn(d, event[d]) # {}
    BY <1>3 DEF IsOpen, ClaimsIn, Contributors
  <2> DEFINE x == EntryFor(d, event[d], rec, ran)
  <2>2. x.act = d /\ x.entered = entered[d] /\ x.asked = asked[d]
    BY <1>1 DEF EntryFor
  <2>3. x \in entries'[event[d]]
    BY <1>1, <1>3, <2>1 DEF RecordEntries
  <2> QED BY <1>3, <2>2, <2>3
<1>4. pc' = [pc EXCEPT ![d] = "done"] /\ "done" \in Phases /\ pc[d] # "done"
  BY DEF Retire, Phases, Live
<1> QED BY <1>2, <1>3, <1>4, AskKept

\* A proposal is admitted only where its event has no such ask.
LEMMA AskAdmitted ==
  ASSUME IInv, AskInv, TierDIsForZones, NEW d \in Dispatches, pc[d] = "idle", DueInEvent(d),
         ~RefuseOpposing(d), Admit(d),
         \/ Displaces(d) /\ invalid' = [invalid EXCEPT ![holder] = TRUE]
         \/ holder = None /\ Joinable(d) = {} /\ UNCHANGED invalid,
         UNCHANGED <<joinedTo, entries, kind, event, asked, scopes, verdict>>
  PROVE  AskInv'
<1>1. /\ \A b \in Dispatches : Command(b)' = Command(b) /\ Outcome(b)' = Outcome(b)
      /\ \A b \in Dispatches : IsOpen(event[b])' = IsOpen(event[b])
      /\ \A b, p \in Dispatches : SameAsk(b, p)' = SameAsk(b, p)
  BY DEF Command, Outcome, IsOpen, SameAsk
<1>2. /\ \A b \in Dispatches \ {d} : pc'[b] = pc[b] /\ entered'[b] = entered[b]
      /\ pc'[d] \in {"waiting", "driving"}
      /\ pc'[d] = "waiting" => kind[d].approval
  BY DEF IInv, TypeOK, Admit
<1>3. ~asked[d]
  BY DEF AskInv, AskedWasAdmitted, Live
<1>4. kind[d] \in Kinds /\ (kind[d].approval => Tier(d) # TierD) /\ Tier(d) \in Tiers
  BY KindsAssumption DEF IInv, TypeOK, Tier
<1>5. Tier(d) = TierD => ~Command(d)
  BY <1>4 DEF TierDIsForZones, Command, Outcome, Tier
<1>6. Displaces(d) => holder \in Dispatches /\ ~Command(holder)
  <2> HAVE Displaces(d)
  <2>1. holder \in Dispatches
    BY DEF Displaces, IInv, TypeOK
  <2>2. CASE Outcome(holder) = Outcome(d) /\ Tier(d) >= TierD
    <3>1. Tier(d) = TierD
      BY <1>4, <2>2 DEF Tiers, TierD
    <3> QED BY <1>5, <2>1, <2>2, <3>1 DEF Command
  <2>3. CASE Opposes(holder, d)
    BY <2>1, <2>3 DEF Opposes, Command
  <2> QED BY <2>2, <2>3 DEF Displaces
<1>7. DisplacedIsZones'
  BY <1>1, <1>6 DEF AskInv, DisplacedIsZones, IInv, TypeOK
<1>8. AskedWasAdmitted'
  BY <1>2, <1>3 DEF AskInv, AskedWasAdmitted, Live
<1>9. AskIsFiled'
  BY <1>1, <1>2 DEF AskInv, AskIsFiled
<1>10. NoAskBefore'
  <2> SUFFICES ASSUME NEW b \in Dispatches, NEW p \in Dispatches,
                      SameAsk(b, p), pc'[b] = "waiting", ~asked[b], asked[p], ~entered'[p]
               PROVE  FALSE
    BY <1>1 DEF NoAskBefore
  <2>1. p # d
    BY <1>3
  <2>2. ~entered[p] /\ pc'[p] = pc[p]
    BY <1>2, <2>1
  <2>3. CASE b # d
    BY <1>2, <2>2, <2>3 DEF AskInv, NoAskBefore
  <2>4. CASE b = d
    <3>1. Command(d) /\ Command(p) /\ Outcome(p) = Outcome(d) /\ event[p] = event[d]
          /\ event[d] # NoEvent
      BY <2>4 DEF SameAsk, Command
    <3>2. Tier(d) < TierD
      BY <1>2, <1>4, <2>4 DEF Tiers, TierD
    <3>3. ~Displaces(d)
      <4>1. ~(Tier(d) >= TierD)
        BY <1>4, <3>2 DEF Tiers, TierD
      <4>2. holder # None => ~Opposes(holder, d)
        BY <3>1 DEF Opposes, Command
      <4> QED BY <4>1, <4>2 DEF Displaces
    <3>4. holder = None /\ Joinable(d) = {}
      BY <3>3
    <3>5. pc[p] # "waiting" /\ ~Live(p)
      BY <2>2, <3>1, <3>4, WaitingCommandHolds, KindsAssumption DEF IInv, HolderInv
    <3>6. pc[p] = "done"
      BY <3>5 DEF AskInv, AskedWasAdmitted
    <3>7. IsOpen(event[d])
      BY <3>1 DEF DueInEvent
    <3>8. PICK x \in entries[event[d]] : x.act = p /\ ~x.entered /\ x.asked
      BY <2>2, <3>1, <3>6, <3>7 DEF AskInv, AskIsFiled
    <3>9. x \in Joinable(d)
      BY <3>1, <3>2, <3>4, <3>7, <3>8 DEF Joinable
    <3> QED BY <3>4, <3>9
  <2> QED BY <2>3, <2>4
<1> QED BY <1>7, <1>8, <1>9, <1>10 DEF AskInv

LEMMA AskRequested ==
  ASSUME IInv, AskInv, TierDIsForZones, NEW d \in Dispatches, Request(d)
  PROVE  AskInv'
<1>1. pc[d] = "idle" /\ DueInEvent(d) /\ UNCHANGED <<kind, event, asked, scopes, verdict>>
  BY DEF Request
<1>2. ~asked[d]
  BY <1>1 DEF AskInv, AskedWasAdmitted, Live
<1>3. CASE Refused(d)
  BY <1>1, <1>2, <1>3, AskKept DEF Refused, Phases
<1>4. CASE /\ pc' = [pc EXCEPT ![d] = "joined"]
           /\ UNCHANGED <<holder, state, invalid, entered, entries>>
  BY <1>1, <1>2, <1>4, AskKept DEF Phases
<1>5. ASSUME NEW x \in Joinable(d), JoinEntry(d, x)
      PROVE  AskInv'
  <2>1. \A e \in Events : entries[e] \subseteq entries'[e]
    BY <1>5 DEF JoinEntry, IInv, TypeOK
  <2> QED BY <1>1, <1>2, <1>5, <2>1, AskKept DEF JoinEntry, Phases
<1>6. CASE /\ ~RefuseOpposing(d) /\ Displaces(d)
           /\ invalid' = [invalid EXCEPT ![holder] = TRUE]
           /\ Admit(d)
           /\ UNCHANGED <<joinedTo, entries>>
  BY <1>1, <1>6, AskAdmitted
<1>7. CASE /\ ~RefuseOpposing(d) /\ holder = None /\ Joinable(d) = {}
           /\ Admit(d)
           /\ UNCHANGED <<invalid, joinedTo, entries>>
  BY <1>1, <1>7, AskAdmitted
<1> QED BY <1>3, <1>4, <1>5, <1>6, <1>7 DEF Request

\* While one waits to ask for a command, no other proposal for it waits.
LEMMA AskMade ==
  ASSUME IInv, AskInv, NEW d \in Dispatches, Asked(d)
  PROVE  AskInv'
<1>1. /\ pc[d] = "waiting" /\ ~asked[d] /\ asked'[d]
      /\ \A b \in Dispatches \ {d} : asked'[b] = asked[b]
      /\ UNCHANGED <<kind, event, pc, holder, state, invalid, entered, joinedTo, scopes,
                     entries, verdict>>
  BY DEF Asked, IInv, TypeOK
<1>2. /\ \A b \in Dispatches : Command(b)' = Command(b)
      /\ \A b, p \in Dispatches : SameAsk(b, p)' = SameAsk(b, p)
  BY <1>1 DEF Command, Outcome, SameAsk
<1>3. DisplacedIsZones'
  BY <1>1, <1>2 DEF AskInv, DisplacedIsZones
<1>4. AskedWasAdmitted'
  BY <1>1 DEF AskInv, AskedWasAdmitted, Live
<1>5. AskIsFiled'
  <2> SUFFICES ASSUME NEW p \in Dispatches,
                      asked'[p], ~entered[p], pc[p] = "done", IsOpen(event[p])
               PROVE  \E x \in entries[event[p]] : x.act = p /\ ~x.entered /\ x.asked
    BY <1>1 DEF AskIsFiled, IsOpen
  <2>1. asked[p]
    BY <1>1
  <2> QED BY <2>1 DEF AskInv, AskIsFiled
<1>6. NoAskBefore'
  <2> SUFFICES ASSUME NEW b \in Dispatches, NEW p \in Dispatches,
                      SameAsk(b, p), pc[b] = "waiting", ~asked'[b], asked'[p], ~entered[p]
               PROVE  FALSE
    BY <1>1, <1>2 DEF NoAskBefore
  <2>1. b # d /\ ~asked[b]
    BY <1>1
  <2>2. CASE p # d
    BY <1>1, <2>1, <2>2 DEF AskInv, NoAskBefore
  <2>3. CASE p = d
    <3>1. Command(b) /\ Command(d)
      BY <2>3 DEF SameAsk, Command
    <3>2. holder = b /\ holder = d
      BY <1>1, <3>1, WaitingCommandHolds
    <3> QED BY <2>1, <3>2
  <2> QED BY <2>2, <2>3
<1> QED BY <1>3, <1>4, <1>5, <1>6 DEF AskInv

\* Scopes open and close; a closed one has no entries to keep.
LEMMA AskScopes ==
  ASSUME IInv, AskInv, NEW e \in Events, OpenScope(e) \/ CloseScope(e)
  PROVE  AskInv'
<1>1. UNCHANGED <<kind, event, pc, holder, state, invalid, entered, asked, joinedTo, verdict>>
  BY DEF OpenScope, CloseScope
<1>2. DisplacedIsZones' /\ AskedWasAdmitted'
  BY <1>1 DEF AskInv, DisplacedIsZones, AskedWasAdmitted, Live, Command, Outcome
<1>3. NoAskBefore'
  BY <1>1 DEF AskInv, NoAskBefore, SameAsk, Command, Outcome
<1>4. AskIsFiled'
  <2> SUFFICES ASSUME NEW p \in Dispatches,
                      asked[p], ~entered[p], pc[p] = "done", IsOpen(event[p])'
               PROVE  \E x \in entries'[event[p]] : x.act = p /\ ~x.entered /\ x.asked
    BY <1>1 DEF AskIsFiled
  <2>1. event[p] \in Events /\ scopes'[event[p]] = "open"
    BY <1>1 DEF IsOpen
  <2>2. scopes[event[p]] # "unopened"
    BY <2>1 DEF IInv, PhaseInv
  <2>3. event[p] # e /\ scopes[event[p]] = "open" /\ entries'[event[p]] = entries[event[p]]
    BY <2>1, <2>2 DEF OpenScope, CloseScope, IInv, TypeOK
  <2> QED BY <2>1, <2>3 DEF AskInv, AskIsFiled, IsOpen
<1> QED BY <1>2, <1>3, <1>4 DEF AskInv

LEMMA AskNext ==
  ASSUME IInv, AskInv, TierDIsForZones, [Next]_vars
  PROVE  AskInv'
<1>1. ASSUME NEW d \in Dispatches, Request(d) PROVE AskInv'
  BY <1>1, AskRequested
<1>2. ASSUME NEW d \in Dispatches, Asked(d) PROVE AskInv'
  BY <1>2, AskMade
<1>3. ASSUME NEW d \in Dispatches, Approve(d) PROVE AskInv'
  BY <1>3, AskKept DEF Approve, Phases, IInv, TypeOK
<1>4. ASSUME NEW d \in Dispatches, EndProposal(d) PROVE AskInv'
  BY <1>4, AskRetired DEF EndProposal
<1>5. ASSUME NEW d \in Dispatches, NEW ok \in BOOLEAN, ExecutorReturns(d, ok) PROVE AskInv'
  BY <1>5, AskRetired DEF ExecutorReturns, Live
<1>6. ASSUME NEW d \in Dispatches, ResolveUncertain(d) PROVE AskInv'
  <2>1. verdict[d] \in BOOLEAN
    BY DEF IInv, TypeOK
  <2> QED  BY <1>6, <2>1, AskRetired DEF ResolveUncertain, Live
<1>7. ASSUME NEW d \in Dispatches, CancelDriving(d) PROVE AskInv'
  <2>1. CASE Retire(d, FALSE)
    BY <1>7, <2>1, AskRetired DEF CancelDriving, Live
  <2>2. CASE /\ RecordEntries(d, [entered |-> TRUE, asked |-> asked[d]], FALSE)
             /\ state' = [state EXCEPT ![d] = "uncertain"]
             /\ pc' = [pc EXCEPT ![d] = "detached"]
             /\ UNCHANGED holder
    <3>1. entered[d] /\ pc[d] = "driving"
      BY <1>7 DEF CancelDriving, IInv, HolderInv, Live
    <3>2. \A e \in Events : \A x \in entries[e] : x.act # d => x \in entries'[e]
      BY <2>2 DEF RecordEntries, IInv, TypeOK
    <3> QED BY <1>7, <2>2, <3>1, <3>2, AskKept DEF CancelDriving, Phases
  <2> QED  BY <1>7, <2>1, <2>2 DEF CancelDriving
<1>8. ASSUME NEW d \in Dispatches, NEW ok \in BOOLEAN, DetachedEnds(d, ok) PROVE AskInv'
  BY <1>8, AskKept DEF DetachedEnds, Phases
<1>9. ASSUME NEW e \in Events, OpenScope(e) \/ CloseScope(e) PROVE AskInv'
  BY <1>9, AskScopes
<1>10. CASE UNCHANGED vars
  BY <1>10 DEF vars, AskInv, DisplacedIsZones, AskedWasAdmitted, AskIsFiled, NoAskBefore,
     SameAsk, Command, Outcome, Live, IsOpen
<1> QED BY <1>1, <1>2, <1>3, <1>4, <1>5, <1>6, <1>7, <1>8, <1>9, <1>10 DEF Next

\* Where Tier D acts are zones' outcomes, an event asks for a command at most
\* once, whatever became of the first ask (_join_completed, _entry_for).
THEOREM CommandsAskedOnce ==
  ASSUME TierDIsForZones
  PROVE  Spec => CommandAskedOnce
<1>1. Init => AskInv
  BY DEF Init, AskInv, DisplacedIsZones, AskedWasAdmitted, AskIsFiled, NoAskBefore
<1>2. IInv /\ AskInv /\ [Next]_vars => AskInv'
  BY AskNext
<1>3. ASSUME IInv, AskInv, [Next]_vars, NEW d \in Dispatches, NEW p \in Dispatches,
             AsksAgain(d, p)
      PROVE  Outcome(d) \in {"open", "close"}
  <2>1. pc[d] = "waiting"
    <3>1. ~asked[d] /\ asked'[d]
      BY <1>3 DEF AsksAgain
    <3>2. ASSUME NEW b \in Dispatches, Asked(b)
          PROVE  b = d /\ pc[d] = "waiting"
      BY <3>1, <3>2 DEF Asked, IInv, TypeOK
    <3>3. asked' # asked
      BY <3>1
    <3>4. \E b \in Dispatches : Asked(b)
      BY <1>3, <3>3 DEF Next, vars, OpenScope, CloseScope, Request, Approve, EndProposal,
         CancelDriving, ResolveUncertain, ExecutorReturns, DetachedEnds
    <3> QED BY <3>2, <3>4
  <2> QED BY <1>3, <2>1 DEF AsksAgain, AskInv, NoAskBefore, SameAsk, Command
<1>4. IInv /\ AskInv /\ [Next]_vars =>
        [\A d, p \in Dispatches : AsksAgain(d, p) => Outcome(d) \in {"open", "close"}]_vars
  BY <1>3
<1> QED BY <1>1, <1>2, <1>4, SpecIInv, PTL DEF Spec, CommandAskedOnce
=============================================================================
