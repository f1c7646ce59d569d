---------------------- MODULE ContentOperation_proofs ----------------------
(***************************************************************************)
(* Proofs about ContentOperation, for any set of outside directories and   *)
(* any number of outside changes, errors and discards.                     *)
(***************************************************************************)
EXTENDS ContentOperation, TLAPS

(* A directory is at one place at most. *)
Apart == \A p, q \in Place : p # q /\ at[p] = at[q] => at[p] = None

(* Who works holds plan._lock, and what each step relies on. *)
Working(t) == pc[t] \notin {"idle", "begun", "over", "crashed"}

Phases ==
  /\ \A t \in Thread : Working(t) <=> mutex = t
  /\ Working("apply") => state \in {"applying", "failed"}
  /\ \A t \in Thread : pc[t] \in Rollback => active /\ ~committed
  /\ \A t \in Thread :
       pc[t] \in {"original", "external", "checkExternal", "back", "setAside"}
           => existed
  /\ \A t \in Thread : pc[t] = "withdraw" => ~existed
  /\ pc["apply"] \in {"idle", "check", "activate"} => ~active /\ ~committed
  /\ pc["apply"] \in {"exchange", "verify", "verifyOriginal", "retain", "name", "mark",
                      "commit"} => active /\ ~committed
  /\ pc["apply"] \in {"verifyOriginal", "retain", "name"} => existed
  /\ pc["apply"] = "release" => committed
  /\ pc["discard"] \in {"stageAside", "release"} => committed \/ ~active
  /\ active /\ existed => name # None
  /\ pc["apply"] = "exchange" /\ existed => name = "staging"

(* What was exchanged out is the original as it was planned for, from its  *)
(* verification on and for ever after the commit.                          *)
OrigKept ==
  /\ pc["apply"] = "retain" => Holds("staging", Orig, Base)
  /\ pc["apply"] = "name" => Holds("retained", Orig, Base)
  /\ pc["apply"] \in {"mark", "commit"} /\ existed => Holds("retained", Orig, Base)
  /\ committed /\ existed => Holds("retained", Orig, Base)

(* The staged tree is canonical only while the publication is active. *)
StageOut ==
  /\ before # Stage
  /\ ~active /\ ~committed => at["canonical"] # Stage
  /\ pc["apply"] = "exchange" => at["canonical"] # Stage
  /\ pc["apply"] \in {"activate", "exchange"} => at["staging"] = Stage

(* The state and the project lock tell how far the plan has come. *)
LockTrue ==
  /\ state = "applied" => committed
  /\ state = "discarded" => ~committed
  /\ ~lock /\ ~Crashed /\ ~committed =>
       ~active /\ state # "ready" /\ pc["apply"] \in {"idle", "over"}

(* Nobody else writes the planned content. *)
PlannedIsStage == \A d \in Dir : content[d] = Planned => d = Stage

(* As long as nobody disturbs the exchange, what it took is canonical, or  *)
(* the staged tree still is and the remembered name leads to what it took. *)
Given(p) == at[p] = before
Exchanging ==
  /\ at["canonical"] = Stage /\ active
  /\ name = "staging" => Given("staging") \/ at["staging"] = None
  /\ name = "retained" => Given("retained")
  /\ pc["apply"] = "name" => Given("retained")
  /\ \A t \in Thread : pc[t] \notin {"setAside", "checkExternal", "checkRestored"}
Restored ==
  /\ Given("canonical")
  /\ pc["apply"] \notin {"verifyOriginal", "retain", "name", "mark", "commit"}
  /\ \A t \in Thread : pc[t] \notin {"original", "back", "external"}

Exact ==
  /\ pc["apply"] \in {"idle", "check", "activate", "exchange"} \/ ~existed
      => before = None
  /\ before # None /\ ~committed /\ ~disturbed => Exchanging \/ Restored

IInv == TypeOK /\ NothingLost /\ Apart /\ Phases /\ OrigKept /\ StageOut /\ LockTrue
        /\ PlannedIsStage /\ Exact

USE DirAssumption, NoneAssumption, BoundsAssumption

(* A plan that was just made. *)
LEMMA InitIInv == Init => IInv
<1> SUFFICES ASSUME Init PROVE IInv
  OBVIOUS
<1> USE DEF Init, Planned, Base
<1>1. /\ at \in [Place -> Dir \cup {None}]
      /\ at["canonical"] = IF existed THEN Orig ELSE None
      /\ at["staging"] = Stage
      /\ \A p \in Place \ {"canonical", "staging"} : at[p] = None
  BY DEF Place, Dir
<1>2. content \in [Dir -> 0..(MaxStamp + 1)] /\ stamp \in 1..(MaxStamp + 1)
  <2>1. 0 \in 0..(MaxStamp + 1) /\ 1 \in 0..(MaxStamp + 1) /\ 1 \in 1..(MaxStamp + 1)
    OBVIOUS
  <2> QED BY <2>1
<1>3. TypeOK
  <2>1. DOMAIN pc = Thread /\ pc["apply"] = "idle" /\ pc["discard"] = "idle"
    BY DEF Thread
  <2>2. seen \in SUBSET Dir /\ taken \in SUBSET Dir
    BY DEF Dir
  <2>3. 0 \in 0..MaxDiscards /\ 0 \in 0..MaxStops
    OBVIOUS
  <2>4. "idle" \in Phase.apply /\ "idle" \in Phase.discard
    BY DEF Phase
  <2> QED BY <1>1, <1>2, <2>1, <2>2, <2>3, <2>4 DEF TypeOK
<1>4. NothingLost
  BY <1>1 DEF NothingLost, Place
<1>5. Apart /\ StageOut
  BY <1>1 DEF Apart, StageOut, Place, Dir
<1>6. Phases
  BY DEF Phases, Working, Thread, Rollback
<1>7. OrigKept /\ LockTrue /\ PlannedIsStage /\ Exact
  BY DEF OrigKept, LockTrue, PlannedIsStage, Exact, Thread
<1> QED BY <1>3, <1>4, <1>5, <1>6, <1>7 DEF IInv

(* Every step keeps the types; Phases says which name a step may rename.   *)
LEMMA NextTypeOK == TypeOK /\ Phases /\ [Next]_vars => TypeOK'
<1> SUFFICES ASSUME TypeOK, Phases, [Next]_vars PROVE TypeOK'
  OBVIOUS
<1> USE DEF Goto, In, Proceed, Fail, CheckThen, RenameThen, ExchangeThen, CanRename,
    CanExchange, Renamed, Exchanged, Undone, Same, Bystander, Unused, fs, plan,
    Thread, Rollback
<1>1. ASSUME StartApply PROVE TypeOK'
  BY <1>1 DEF StartApply, TypeOK, Phases, Phase, Place, Dir
<1>2. ASSUME Check PROVE TypeOK'
  BY <1>2 DEF Check, TypeOK, Phases, Phase, Place, Dir
<1>3. ASSUME Activate PROVE TypeOK'
  BY <1>3 DEF Activate, TypeOK, Phases, Phase, Place, Dir
<1>4. ASSUME Exchange PROVE TypeOK'
  <2>1. DOMAIN pc' = Thread /\ pc'["apply"] \in Phase.apply
      /\ pc'["discard"] \in Phase.discard
    BY <1>4 DEF Exchange, TypeOK, Phases, Phase, Place, Dir
  <2>2. state' \in {"ready", "applying", "applied", "failed", "discarded"}
      /\ mutex' \in Thread \cup {None}
    BY <1>4 DEF Exchange, TypeOK, Phases, Phase, Place, Dir
  <2>3. at' \in [Place -> Dir \cup {None}] /\ before' \in Dir \cup {None}
    BY <1>4 DEF Exchange, TypeOK, Phases, Phase, Place, Dir
  <2>4. content' \in [Dir -> 0..(MaxStamp + 1)] /\ stamp' \in 1..(MaxStamp + 1)
      /\ seen' \in SUBSET Dir /\ taken' \in SUBSET Dir
    BY <1>4 DEF Exchange, TypeOK, Phases, Phase, Place, Dir
  <2>5. existed' \in BOOLEAN /\ active' \in BOOLEAN /\ committed' \in BOOLEAN
      /\ lock' \in BOOLEAN /\ disturbed' \in BOOLEAN
    BY <1>4 DEF Exchange, TypeOK, Phases, Phase, Place, Dir
  <2>6. name' \in {None, "staging", "retained"} /\ discards' \in 0..MaxDiscards
      /\ stops' \in 0..MaxStops
    BY <1>4 DEF Exchange, TypeOK, Phases, Phase, Place, Dir
  <2> QED BY <2>1, <2>2, <2>3, <2>4, <2>5, <2>6 DEF TypeOK
<1>5. ASSUME ExchangeFails PROVE TypeOK'
  BY <1>5 DEF ExchangeFails, TypeOK, Phases, Phase, Place, Dir
<1>6. ASSUME Verify PROVE TypeOK'
  BY <1>6 DEF Verify, TypeOK, Phases, Phase, Place, Dir
<1>7. ASSUME VerifyOriginal PROVE TypeOK'
  BY <1>7 DEF VerifyOriginal, TypeOK, Phases, Phase, Place, Dir
<1>8. ASSUME Retain PROVE TypeOK'
  BY <1>8 DEF Retain, TypeOK, Phases, Phase, Place, Dir
<1>9. ASSUME Name PROVE TypeOK'
  BY <1>9 DEF Name, TypeOK, Phases, Phase, Place, Dir
<1>10. ASSUME Mark PROVE TypeOK'
  BY <1>10 DEF Mark, TypeOK, Phases, Phase, Place, Dir
<1>11. ASSUME Commit PROVE TypeOK'
  BY <1>11 DEF Commit, TypeOK, Phases, Phase, Place, Dir
<1>12. ASSUME ApplyReleases PROVE TypeOK'
  BY <1>12 DEF ApplyReleases, TypeOK, Phases, Phase, Place, Dir
<1>13. ASSUME Handle PROVE TypeOK'
  BY <1>13 DEF Handle, TypeOK, Phases, Phase, Place, Dir
<1>14. ASSUME BeginDiscard PROVE TypeOK'
  BY <1>14 DEF BeginDiscard, TypeOK, Phases, Phase, Place, Dir
<1>15. ASSUME StartFails PROVE TypeOK'
  BY <1>15 DEF StartFails, TypeOK, Phases, Phase, Place, Dir
<1>16. ASSUME Enter PROVE TypeOK'
  BY <1>16 DEF Enter, TypeOK, Phases, Phase, Place, Dir
<1>17. ASSUME Refuse PROVE TypeOK'
  BY <1>17 DEF Refuse, TypeOK, Phases, Phase, Place, Dir
<1>18. ASSUME Accept PROVE TypeOK'
  BY <1>18 DEF Accept, TypeOK, Phases, Phase, Place, Dir
<1>19. ASSUME StageAside PROVE TypeOK'
  BY <1>19 DEF StageAside, TypeOK, Phases, Phase, Place, Dir
<1>20. ASSUME DiscardReleases PROVE TypeOK'
  BY <1>20 DEF DiscardReleases, TypeOK, Phases, Phase, Place, Dir
<1>21. ASSUME HandlerInterrupted PROVE TypeOK'
  BY <1>21 DEF HandlerInterrupted, TypeOK, Phases, Phase, Place, Dir
<1>22. ASSUME Crash PROVE TypeOK'
  <2>1. DOMAIN pc' = Thread /\ pc'["apply"] \in Phase.apply
      /\ pc'["discard"] \in Phase.discard
    BY <1>22 DEF Crash, Phase
  <2>2. UNCHANGED <<fs, existed, state, active, committed, name, before, disturbed,
                   discards, stops>> /\ lock' = FALSE /\ mutex' = None
    BY <1>22 DEF Crash
  <2> QED BY <2>1, <2>2 DEF TypeOK
<1>23. ASSUME Edit PROVE TypeOK'
  BY <1>23 DEF Edit, TypeOK, Phases, Phase, Place, Dir
<1>24. ASSUME Remove PROVE TypeOK'
  BY <1>24 DEF Remove, TypeOK, Phases, Phase, Place, Dir
<1>25. ASSUME NEW t \in Thread, Look(t) PROVE TypeOK'
  <2>1. DOMAIN pc' = Thread /\ pc'["apply"] \in Phase.apply
      /\ pc'["discard"] \in Phase.discard
    BY <1>25 DEF Look, TypeOK, Phases, Phase, Place, Dir
  <2>2. state' \in {"ready", "applying", "applied", "failed", "discarded"}
      /\ mutex' \in Thread \cup {None}
    BY <1>25 DEF Look, TypeOK, Phases, Phase, Place, Dir
  <2>3. at' \in [Place -> Dir \cup {None}] /\ before' \in Dir \cup {None}
    BY <1>25 DEF Look, TypeOK, Phases, Phase, Place, Dir
  <2>4. content' \in [Dir -> 0..(MaxStamp + 1)] /\ stamp' \in 1..(MaxStamp + 1)
      /\ seen' \in SUBSET Dir /\ taken' \in SUBSET Dir
    BY <1>25 DEF Look, TypeOK, Phases, Phase, Place, Dir
  <2>5. existed' \in BOOLEAN /\ active' \in BOOLEAN /\ committed' \in BOOLEAN
      /\ lock' \in BOOLEAN /\ disturbed' \in BOOLEAN
    BY <1>25 DEF Look, TypeOK, Phases, Phase, Place, Dir
  <2>6. name' \in {None, "staging", "retained"} /\ discards' \in 0..MaxDiscards
      /\ stops' \in 0..MaxStops
    BY <1>25 DEF Look, TypeOK, Phases, Phase, Place, Dir
  <2> QED BY <2>1, <2>2, <2>3, <2>4, <2>5, <2>6 DEF TypeOK
<1>26. ASSUME NEW t \in Thread, Original(t) PROVE TypeOK'
  BY <1>26 DEF Original, TypeOK, Phases, Phase, Place, Dir
<1>27. ASSUME NEW t \in Thread, Back(t) PROVE TypeOK'
  BY <1>27 DEF Back, TypeOK, Phases, Phase, Place, Dir
<1>28. ASSUME NEW t \in Thread, SetAside(t) PROVE TypeOK'
  BY <1>28 DEF SetAside, TypeOK, Phases, Phase, Place, Dir
<1>29. ASSUME NEW t \in Thread, Withdraw(t) PROVE TypeOK'
  BY <1>29 DEF Withdraw, TypeOK, Phases, Phase, Place, Dir
<1>30. ASSUME NEW t \in Thread, External(t) PROVE TypeOK'
  BY <1>30 DEF External, TypeOK, Phases, Phase, Place, Dir
<1>31. ASSUME NEW t \in Thread, CheckExternal(t) PROVE TypeOK'
  <2>1. DOMAIN pc' = Thread /\ pc'["apply"] \in Phase.apply
      /\ pc'["discard"] \in Phase.discard
    BY <1>31 DEF CheckExternal, TypeOK, Phases, Phase, Place, Dir
  <2>2. state' \in {"ready", "applying", "applied", "failed", "discarded"}
      /\ mutex' \in Thread \cup {None}
    BY <1>31 DEF CheckExternal, TypeOK, Phases, Phase, Place, Dir
  <2>3. at' \in [Place -> Dir \cup {None}] /\ before' \in Dir \cup {None}
    BY <1>31 DEF CheckExternal, TypeOK, Phases, Phase, Place, Dir
  <2>4. content' \in [Dir -> 0..(MaxStamp + 1)] /\ stamp' \in 1..(MaxStamp + 1)
      /\ seen' \in SUBSET Dir /\ taken' \in SUBSET Dir
    BY <1>31 DEF CheckExternal, TypeOK, Phases, Phase, Place, Dir
  <2>5. existed' \in BOOLEAN /\ active' \in BOOLEAN /\ committed' \in BOOLEAN
      /\ lock' \in BOOLEAN /\ disturbed' \in BOOLEAN
    BY <1>31 DEF CheckExternal, TypeOK, Phases, Phase, Place, Dir
  <2>6. name' \in {None, "staging", "retained"} /\ discards' \in 0..MaxDiscards
      /\ stops' \in 0..MaxStops
    BY <1>31 DEF CheckExternal, TypeOK, Phases, Phase, Place, Dir
  <2> QED BY <2>1, <2>2, <2>3, <2>4, <2>5, <2>6 DEF TypeOK
<1>32. ASSUME NEW t \in Thread, CheckRestored(t) PROVE TypeOK'
  <2>1. DOMAIN pc' = Thread /\ pc'["apply"] \in Phase.apply
      /\ pc'["discard"] \in Phase.discard
    BY <1>32 DEF CheckRestored, TypeOK, Phases, Phase, Place, Dir
  <2>2. state' \in {"ready", "applying", "applied", "failed", "discarded"}
      /\ mutex' \in Thread \cup {None}
    BY <1>32 DEF CheckRestored, TypeOK, Phases, Phase, Place, Dir
  <2>3. at' \in [Place -> Dir \cup {None}] /\ before' \in Dir \cup {None}
    BY <1>32 DEF CheckRestored, TypeOK, Phases, Phase, Place, Dir
  <2>4. content' \in [Dir -> 0..(MaxStamp + 1)] /\ stamp' \in 1..(MaxStamp + 1)
      /\ seen' \in SUBSET Dir /\ taken' \in SUBSET Dir
    BY <1>32 DEF CheckRestored, TypeOK, Phases, Phase, Place, Dir
  <2>5. existed' \in BOOLEAN /\ active' \in BOOLEAN /\ committed' \in BOOLEAN
      /\ lock' \in BOOLEAN /\ disturbed' \in BOOLEAN
    BY <1>32 DEF CheckRestored, TypeOK, Phases, Phase, Place, Dir
  <2>6. name' \in {None, "staging", "retained"} /\ discards' \in 0..MaxDiscards
      /\ stops' \in 0..MaxStops
    BY <1>32 DEF CheckRestored, TypeOK, Phases, Phase, Place, Dir
  <2> QED BY <2>1, <2>2, <2>3, <2>4, <2>5, <2>6 DEF TypeOK
<1>33. ASSUME NEW t \in Thread, Stop(t) PROVE TypeOK'
  <2>1. DOMAIN pc' = Thread /\ pc'["apply"] \in Phase.apply
      /\ pc'["discard"] \in Phase.discard
    BY <1>33 DEF Stop, TypeOK, Phases, Phase, Place, Dir
  <2>2. state' \in {"ready", "applying", "applied", "failed", "discarded"}
      /\ mutex' \in Thread \cup {None}
    BY <1>33 DEF Stop, TypeOK, Phases, Phase, Place, Dir
  <2>3. at' \in [Place -> Dir \cup {None}] /\ before' \in Dir \cup {None}
    BY <1>33 DEF Stop, TypeOK, Phases, Phase, Place, Dir
  <2>4. content' \in [Dir -> 0..(MaxStamp + 1)] /\ stamp' \in 1..(MaxStamp + 1)
      /\ seen' \in SUBSET Dir /\ taken' \in SUBSET Dir
    BY <1>33 DEF Stop, TypeOK, Phases, Phase, Place, Dir
  <2>5. existed' \in BOOLEAN /\ active' \in BOOLEAN /\ committed' \in BOOLEAN
      /\ lock' \in BOOLEAN /\ disturbed' \in BOOLEAN
    BY <1>33 DEF Stop, TypeOK, Phases, Phase, Place, Dir
  <2>6. name' \in {None, "staging", "retained"} /\ discards' \in 0..MaxDiscards
      /\ stops' \in 0..MaxStops
    BY <1>33 DEF Stop, TypeOK, Phases, Phase, Place, Dir
  <2> QED BY <2>1, <2>2, <2>3, <2>4, <2>5, <2>6 DEF TypeOK
<1>34. ASSUME NEW x \in Ext, Replace(x) PROVE TypeOK'
  BY <1>34 DEF Replace, TypeOK, Phases, Phase, Place, Dir
<1>35. ASSUME UNCHANGED vars PROVE TypeOK'
  BY <1>35 DEF vars, fs, plan, TypeOK, Phases, Phase, Place, Dir
<1> QED BY <1>1, <1>2, <1>3, <1>4, <1>5, <1>6, <1>7, <1>8, <1>9, <1>10, <1>11, <1>12,
    <1>13, <1>14, <1>15, <1>16, <1>17, <1>18, <1>19, <1>20, <1>21, <1>22, <1>23,
        <1>24, <1>25, <1>26, <1>27, <1>28, <1>29, <1>30, <1>31, <1>32, <1>33, <1>34,
            <1>35 DEF Next, Apply, Discard, RollbackStep, Outside

(* A step goes from one phase to the next, and only the holder of plan._lock moves. *)
LEMMA NextPhases == IInv /\ [Next]_vars => Phases'
<1> SUFFICES ASSUME TypeOK, Phases, [Next]_vars PROVE Phases'
  BY DEF IInv
<1> USE DEF Goto, In, Proceed, Fail, CheckThen, RenameThen, ExchangeThen, CanRename,
    CanExchange, Renamed, Exchanged, Undone, Same, Bystander, Unused, fs, plan,
    Thread, Rollback
<1> USE DEF Working
<1>1. ASSUME StartApply PROVE Phases'
  <2>1. \A u \in Thread : Working(u)' <=> mutex' = u
    BY <1>1 DEF StartApply, TypeOK, Phases, Phase
  <2>2. Working("apply")' => state' \in {"applying", "failed"}
    BY <1>1 DEF StartApply, TypeOK, Phases, Phase
  <2>3. \A u \in Thread : pc'[u] \in Rollback => active' /\ ~committed'
    BY <1>1 DEF StartApply, TypeOK, Phases, Phase
  <2>4. \A u \in Thread : pc'[u] \in {"original", "external", "checkExternal",
      "back", "setAside"} => existed'
    BY <1>1 DEF StartApply, TypeOK, Phases, Phase
  <2>5. pc'["apply"] \in {"idle", "check", "activate"} => ~active' /\ ~committed'
    BY <1>1 DEF StartApply, TypeOK, Phases, Phase
  <2>6. pc'["apply"] \in {"exchange", "verify", "verifyOriginal", "retain", "name",
      "mark", "commit"} => active' /\ ~committed'
    BY <1>1 DEF StartApply, TypeOK, Phases, Phase
  <2>7. pc'["apply"] \in {"verifyOriginal", "retain", "name"} => existed'
    BY <1>1 DEF StartApply, TypeOK, Phases, Phase
  <2>8. pc'["apply"] = "release" => committed'
    BY <1>1 DEF StartApply, TypeOK, Phases, Phase
  <2>9. pc'["discard"] \in {"stageAside", "release"} => committed' \/ ~active'
    BY <1>1 DEF StartApply, TypeOK, Phases, Phase
  <2>10. \A u \in Thread : pc'[u] = "withdraw" => ~existed'
    BY <1>1 DEF StartApply, TypeOK, Phases, Phase
  <2>11. active' /\ existed' => name' # None
    BY <1>1 DEF StartApply, TypeOK, Phases, Phase
  <2>12. pc'["apply"] = "exchange" /\ existed' => name' = "staging"
    BY <1>1 DEF StartApply, TypeOK, Phases, Phase
  <2> QED BY <2>1, <2>2, <2>3, <2>4, <2>5, <2>6, <2>7, <2>8, <2>9, <2>10, <2>11,
      <2>12 DEF Phases
<1>2. ASSUME Check PROVE Phases'
  BY <1>2 DEF Check, TypeOK, Phases, Phase
<1>3. ASSUME Activate PROVE Phases'
  <2>1. \A u \in Thread : Working(u)' <=> mutex' = u
    BY <1>3 DEF Activate, TypeOK, Phases, Phase
  <2>2. Working("apply")' => state' \in {"applying", "failed"}
    BY <1>3 DEF Activate, TypeOK, Phases, Phase
  <2>3. \A u \in Thread : pc'[u] \in Rollback => active' /\ ~committed'
    BY <1>3 DEF Activate, TypeOK, Phases, Phase
  <2>4. \A u \in Thread : pc'[u] \in {"original", "external", "checkExternal",
      "back", "setAside"} => existed'
    BY <1>3 DEF Activate, TypeOK, Phases, Phase
  <2>5. pc'["apply"] \in {"idle", "check", "activate"} => ~active' /\ ~committed'
    BY <1>3 DEF Activate, TypeOK, Phases, Phase
  <2>6. pc'["apply"] \in {"exchange", "verify", "verifyOriginal", "retain", "name",
      "mark", "commit"} => active' /\ ~committed'
    BY <1>3 DEF Activate, TypeOK, Phases, Phase
  <2>7. pc'["apply"] \in {"verifyOriginal", "retain", "name"} => existed'
    BY <1>3 DEF Activate, TypeOK, Phases, Phase
  <2>8. pc'["apply"] = "release" => committed'
    BY <1>3 DEF Activate, TypeOK, Phases, Phase
  <2>9. pc'["discard"] \in {"stageAside", "release"} => committed' \/ ~active'
    BY <1>3 DEF Activate, TypeOK, Phases, Phase
  <2>10. \A u \in Thread : pc'[u] = "withdraw" => ~existed'
    BY <1>3 DEF Activate, TypeOK, Phases, Phase
  <2>11. active' /\ existed' => name' # None
    BY <1>3 DEF Activate, TypeOK, Phases, Phase
  <2>12. pc'["apply"] = "exchange" /\ existed' => name' = "staging"
    BY <1>3 DEF Activate, TypeOK, Phases, Phase
  <2> QED BY <2>1, <2>2, <2>3, <2>4, <2>5, <2>6, <2>7, <2>8, <2>9, <2>10, <2>11,
      <2>12 DEF Phases
<1>4. ASSUME Exchange PROVE Phases'
  BY <1>4 DEF Exchange, TypeOK, Phases, Phase
<1>5. ASSUME ExchangeFails PROVE Phases'
  BY <1>5 DEF ExchangeFails, TypeOK, Phases, Phase
<1>6. ASSUME Verify PROVE Phases'
  BY <1>6 DEF Verify, TypeOK, Phases, Phase
<1>7. ASSUME VerifyOriginal PROVE Phases'
  BY <1>7 DEF VerifyOriginal, TypeOK, Phases, Phase
<1>8. ASSUME Retain PROVE Phases'
  BY <1>8 DEF Retain, TypeOK, Phases, Phase
<1>9. ASSUME Name PROVE Phases'
  <2>1. \A u \in Thread : Working(u)' <=> mutex' = u
    BY <1>9 DEF Name, TypeOK, Phases, Phase
  <2>2. Working("apply")' => state' \in {"applying", "failed"}
    BY <1>9 DEF Name, TypeOK, Phases, Phase
  <2>3. \A u \in Thread : pc'[u] \in Rollback => active' /\ ~committed'
    BY <1>9 DEF Name, TypeOK, Phases, Phase
  <2>4. \A u \in Thread : pc'[u] \in {"original", "external", "checkExternal",
      "back", "setAside"} => existed'
    BY <1>9 DEF Name, TypeOK, Phases, Phase
  <2>5. pc'["apply"] \in {"idle", "check", "activate"} => ~active' /\ ~committed'
    BY <1>9 DEF Name, TypeOK, Phases, Phase
  <2>6. pc'["apply"] \in {"exchange", "verify", "verifyOriginal", "retain", "name",
      "mark", "commit"} => active' /\ ~committed'
    BY <1>9 DEF Name, TypeOK, Phases, Phase
  <2>7. pc'["apply"] \in {"verifyOriginal", "retain", "name"} => existed'
    BY <1>9 DEF Name, TypeOK, Phases, Phase
  <2>8. pc'["apply"] = "release" => committed'
    BY <1>9 DEF Name, TypeOK, Phases, Phase
  <2>9. pc'["discard"] \in {"stageAside", "release"} => committed' \/ ~active'
    BY <1>9 DEF Name, TypeOK, Phases, Phase
  <2>10. \A u \in Thread : pc'[u] = "withdraw" => ~existed'
    BY <1>9 DEF Name, TypeOK, Phases, Phase
  <2>11. active' /\ existed' => name' # None
    BY <1>9 DEF Name, TypeOK, Phases, Phase
  <2>12. pc'["apply"] = "exchange" /\ existed' => name' = "staging"
    BY <1>9 DEF Name, TypeOK, Phases, Phase
  <2> QED BY <2>1, <2>2, <2>3, <2>4, <2>5, <2>6, <2>7, <2>8, <2>9, <2>10, <2>11,
      <2>12 DEF Phases
<1>10. ASSUME Mark PROVE Phases'
  BY <1>10 DEF Mark, TypeOK, Phases, Phase
<1>11. ASSUME Commit PROVE Phases'
  BY <1>11 DEF Commit, TypeOK, Phases, Phase
<1>12. ASSUME ApplyReleases PROVE Phases'
  BY <1>12 DEF ApplyReleases, TypeOK, Phases, Phase
<1>13. ASSUME Handle PROVE Phases'
  BY <1>13 DEF Handle, TypeOK, Phases, Phase
<1>14. ASSUME BeginDiscard PROVE Phases'
  BY <1>14 DEF BeginDiscard, TypeOK, Phases, Phase
<1>15. ASSUME StartFails PROVE Phases'
  BY <1>15 DEF StartFails, TypeOK, Phases, Phase
<1>16. ASSUME Enter PROVE Phases'
  <2>1. \A u \in Thread : Working(u)' <=> mutex' = u
    BY <1>16 DEF Enter, TypeOK, Phases, Phase
  <2>2. Working("apply")' => state' \in {"applying", "failed"}
    BY <1>16 DEF Enter, TypeOK, Phases, Phase
  <2>3. \A u \in Thread : pc'[u] \in Rollback => active' /\ ~committed'
    BY <1>16 DEF Enter, TypeOK, Phases, Phase
  <2>4. \A u \in Thread : pc'[u] \in {"original", "external", "checkExternal",
      "back", "setAside"} => existed'
    BY <1>16 DEF Enter, TypeOK, Phases, Phase
  <2>5. pc'["apply"] \in {"idle", "check", "activate"} => ~active' /\ ~committed'
    BY <1>16 DEF Enter, TypeOK, Phases, Phase
  <2>6. pc'["apply"] \in {"exchange", "verify", "verifyOriginal", "retain", "name",
      "mark", "commit"} => active' /\ ~committed'
    BY <1>16 DEF Enter, TypeOK, Phases, Phase
  <2>7. pc'["apply"] \in {"verifyOriginal", "retain", "name"} => existed'
    BY <1>16 DEF Enter, TypeOK, Phases, Phase
  <2>8. pc'["apply"] = "release" => committed'
    BY <1>16 DEF Enter, TypeOK, Phases, Phase
  <2>9. pc'["discard"] \in {"stageAside", "release"} => committed' \/ ~active'
    BY <1>16 DEF Enter, TypeOK, Phases, Phase
  <2>10. \A u \in Thread : pc'[u] = "withdraw" => ~existed'
    BY <1>16 DEF Enter, TypeOK, Phases, Phase
  <2>11. active' /\ existed' => name' # None
    BY <1>16 DEF Enter, TypeOK, Phases, Phase
  <2>12. pc'["apply"] = "exchange" /\ existed' => name' = "staging"
    BY <1>16 DEF Enter, TypeOK, Phases, Phase
  <2> QED BY <2>1, <2>2, <2>3, <2>4, <2>5, <2>6, <2>7, <2>8, <2>9, <2>10, <2>11,
      <2>12 DEF Phases
<1>17. ASSUME Refuse PROVE Phases'
  BY <1>17 DEF Refuse, TypeOK, Phases, Phase
<1>18. ASSUME Accept PROVE Phases'
  BY <1>18 DEF Accept, TypeOK, Phases, Phase
<1>19. ASSUME StageAside PROVE Phases'
  BY <1>19 DEF StageAside, TypeOK, Phases, Phase
<1>20. ASSUME DiscardReleases PROVE Phases'
  BY <1>20 DEF DiscardReleases, TypeOK, Phases, Phase
<1>21. ASSUME HandlerInterrupted PROVE Phases'
  BY <1>21 DEF HandlerInterrupted, TypeOK, Phases, Phase
<1>22. ASSUME Crash PROVE Phases'
  BY <1>22 DEF Crash, TypeOK, Phases, Phase
<1>23. ASSUME Edit PROVE Phases'
  BY <1>23 DEF Edit, TypeOK, Phases, Phase
<1>24. ASSUME Remove PROVE Phases'
  BY <1>24 DEF Remove, TypeOK, Phases, Phase
<1>25. ASSUME NEW t \in Thread, Look(t) PROVE Phases'
  BY <1>25 DEF Look, TypeOK, Phases, Phase
<1>26. ASSUME NEW t \in Thread, Original(t) PROVE Phases'
  BY <1>26 DEF Original, TypeOK, Phases, Phase
<1>27. ASSUME NEW t \in Thread, Back(t) PROVE Phases'
  BY <1>27 DEF Back, TypeOK, Phases, Phase
<1>28. ASSUME NEW t \in Thread, SetAside(t) PROVE Phases'
  BY <1>28 DEF SetAside, TypeOK, Phases, Phase
<1>29. ASSUME NEW t \in Thread, Withdraw(t) PROVE Phases'
  BY <1>29 DEF Withdraw, TypeOK, Phases, Phase
<1>30. ASSUME NEW t \in Thread, External(t) PROVE Phases'
  BY <1>30 DEF External, TypeOK, Phases, Phase
<1>31. ASSUME NEW t \in Thread, CheckExternal(t) PROVE Phases'
  BY <1>31 DEF CheckExternal, TypeOK, Phases, Phase
<1>32. ASSUME NEW t \in Thread, CheckRestored(t) PROVE Phases'
  BY <1>32 DEF CheckRestored, TypeOK, Phases, Phase
<1>33. ASSUME NEW t \in Thread, Stop(t) PROVE Phases'
  <2>1. \A u \in Thread : Working(u)' <=> mutex' = u
    BY <1>33 DEF Stop, TypeOK, Phases, Phase
  <2>2. Working("apply")' => state' \in {"applying", "failed"}
    <3>1. CASE t = "apply"
      BY <1>33, <3>1 DEF Stop, TypeOK, Phases, Phase
    <3>2. CASE t = "discard"
      <4>1. pc'["apply"] = pc["apply"] /\ mutex = "discard"
        BY <1>33, <3>2 DEF Stop, TypeOK, Phases, Phase
      <4> QED BY <4>1 DEF Stop, TypeOK, Phases, Phase
    <3> QED BY <3>1, <3>2 DEF Thread
  <2>3. \A u \in Thread : pc'[u] \in Rollback => active' /\ ~committed'
    BY <1>33 DEF Stop, TypeOK, Phases, Phase
  <2>4. \A u \in Thread : pc'[u] \in {"original", "external", "checkExternal",
      "back", "setAside"} => existed'
    BY <1>33 DEF Stop, TypeOK, Phases, Phase
  <2>5. pc'["apply"] \in {"idle", "check", "activate"} => ~active' /\ ~committed'
    BY <1>33 DEF Stop, TypeOK, Phases, Phase
  <2>6. pc'["apply"] \in {"exchange", "verify", "verifyOriginal", "retain", "name",
      "mark", "commit"} => active' /\ ~committed'
    BY <1>33 DEF Stop, TypeOK, Phases, Phase
  <2>7. pc'["apply"] \in {"verifyOriginal", "retain", "name"} => existed'
    BY <1>33 DEF Stop, TypeOK, Phases, Phase
  <2>8. pc'["apply"] = "release" => committed'
    BY <1>33 DEF Stop, TypeOK, Phases, Phase
  <2>9. pc'["discard"] \in {"stageAside", "release"} => committed' \/ ~active'
    BY <1>33 DEF Stop, TypeOK, Phases, Phase
  <2>10. \A u \in Thread : pc'[u] = "withdraw" => ~existed'
    BY <1>33 DEF Stop, TypeOK, Phases, Phase
  <2>11. active' /\ existed' => name' # None
    BY <1>33 DEF Stop, TypeOK, Phases, Phase
  <2>12. pc'["apply"] = "exchange" /\ existed' => name' = "staging"
    BY <1>33 DEF Stop, TypeOK, Phases, Phase
  <2> QED BY <2>1, <2>2, <2>3, <2>4, <2>5, <2>6, <2>7, <2>8, <2>9, <2>10, <2>11,
      <2>12 DEF Phases
<1>34. ASSUME NEW x \in Ext, Replace(x) PROVE Phases'
  BY <1>34 DEF Replace, TypeOK, Phases, Phase
<1>35. ASSUME UNCHANGED vars PROVE Phases'
  BY <1>35 DEF vars, fs, plan, TypeOK, Phases, Phase
<1> QED BY <1>1, <1>2, <1>3, <1>4, <1>5, <1>6, <1>7, <1>8, <1>9, <1>10, <1>11, <1>12,
    <1>13, <1>14, <1>15, <1>16, <1>17, <1>18, <1>19, <1>20, <1>21, <1>22, <1>23,
        <1>24, <1>25, <1>26, <1>27, <1>28, <1>29, <1>30, <1>31, <1>32, <1>33, <1>34,
            <1>35 DEF Next, Apply, Discard, RollbackStep, Outside

(* Who moves a directory: the renames of the operation and the outside     *)
(* writers, and every other step leaves the places and the records of what *)
(* was seen and taken as they are.                                         *)
LEMMA MovedBy ==
  ASSUME [Next]_vars
  PROVE  \/ Exchange \/ Retain \/ StageAside \/ Remove
         \/ \E t \in Thread : Back(t) \/ SetAside(t) \/ Withdraw(t) \/ External(t)
         \/ \E x \in Ext : Replace(x)
         \/ UNCHANGED <<at, seen, taken>>
<1> USE DEF CheckThen, Same, fs, plan
<1>1. ASSUME Apply, ~Exchange, ~Retain PROVE UNCHANGED <<at, seen, taken>>
  BY <1>1 DEF Apply, StartApply, Check, Activate, ExchangeFails, Verify, VerifyOriginal,
     Name, Mark, Commit, ApplyReleases, Handle
<1>2. ASSUME Discard, ~StageAside PROVE UNCHANGED <<at, seen, taken>>
  BY <1>2 DEF Discard, BeginDiscard, StartFails, Enter, Refuse, Accept, DiscardReleases
<1>3. ASSUME NEW t \in Thread, RollbackStep(t) \/ Stop(t),
             ~Back(t), ~SetAside(t), ~Withdraw(t), ~External(t)
      PROVE  UNCHANGED <<at, seen, taken>>
  BY <1>3 DEF RollbackStep, Look, Original, CheckExternal, CheckRestored, Stop
<1>4. ASSUME HandlerInterrupted \/ Crash PROVE UNCHANGED <<at, seen, taken>>
  BY <1>4 DEF HandlerInterrupted, Crash
<1>5. ASSUME Edit \/ UNCHANGED vars PROVE UNCHANGED <<at, seen, taken>>
  BY <1>5 DEF Edit, vars
<1> QED BY <1>1, <1>2, <1>3, <1>4, <1>5 DEF Next, Outside

(* Only renames and outside writers move directories. *)
LEMMA NextApart == IInv /\ [Next]_vars => Apart'
<1> SUFFICES ASSUME TypeOK, Phases, Apart, [Next]_vars PROVE Apart'
  BY DEF IInv
<1> USE DEF Goto, In, Proceed, Fail, CheckThen, RenameThen, ExchangeThen, CanRename,
    CanExchange, Renamed, Exchanged, Undone, Same, Bystander, Unused, fs, plan,
    Thread, Rollback
<1>1. CASE UNCHANGED <<at>>
  BY <1>1 DEF Apart
<1>2. ASSUME Exchange PROVE Apart'
  BY <1>2 DEF Exchange, TypeOK, Phases, Apart, Place, Dir, Base, Planned
<1>3. ASSUME Retain PROVE Apart'
  BY <1>3 DEF Retain, TypeOK, Phases, Apart, Place, Dir, Base, Planned
<1>4. ASSUME NEW t \in Thread, Back(t) PROVE Apart'
  BY <1>4 DEF Back, TypeOK, Phases, Apart, Place, Dir, Base, Planned
<1>5. ASSUME NEW t \in Thread, SetAside(t) PROVE Apart'
  BY <1>5 DEF SetAside, TypeOK, Phases, Apart, Place, Dir, Base, Planned
<1>6. ASSUME NEW t \in Thread, Withdraw(t) PROVE Apart'
  BY <1>6 DEF Withdraw, TypeOK, Phases, Apart, Place, Dir, Base, Planned
<1>7. ASSUME NEW t \in Thread, External(t) PROVE Apart'
  BY <1>7 DEF External, TypeOK, Phases, Apart, Place, Dir, Base, Planned
<1>8. ASSUME StageAside PROVE Apart'
  BY <1>8 DEF StageAside, TypeOK, Phases, Apart, Place, Dir, Base, Planned
<1>9. ASSUME Remove PROVE Apart'
  BY <1>9 DEF Remove, TypeOK, Phases, Apart, Place, Dir, Base, Planned
<1>10. ASSUME NEW x \in Ext, Replace(x) PROVE Apart'
  BY <1>10 DEF Replace, TypeOK, Phases, Apart, Place, Dir, Base, Planned
<1> QED BY <1>1, <1>2, <1>3, <1>4, <1>5, <1>6, <1>7, <1>8, <1>9, <1>10, MovedBy

(* What is renamed keeps a place, and what an outside writer moves is taken. *)
LEMMA NextNothingLost == IInv /\ [Next]_vars => NothingLost'
<1> SUFFICES ASSUME TypeOK, Phases, Apart, NothingLost, [Next]_vars PROVE NothingLost'
  BY DEF IInv
<1> USE DEF Goto, In, Proceed, Fail, CheckThen, RenameThen, ExchangeThen, CanRename,
    CanExchange, Renamed, Exchanged, Undone, Same, Bystander, Unused, fs, plan,
    Thread, Rollback
<1>1. CASE UNCHANGED <<at, seen, taken>>
  BY <1>1 DEF NothingLost
<1>2. ASSUME Exchange PROVE NothingLost'
  BY <1>2 DEF Exchange, TypeOK, Phases, Apart, NothingLost, Place, Dir, Base, Planned
<1>3. ASSUME Retain PROVE NothingLost'
  BY <1>3 DEF Retain, TypeOK, Phases, Apart, NothingLost, Place, Dir, Base, Planned
<1>4. ASSUME NEW t \in Thread, Back(t) PROVE NothingLost'
  BY <1>4 DEF Back, TypeOK, Phases, Apart, NothingLost, Place, Dir, Base, Planned
<1>5. ASSUME NEW t \in Thread, SetAside(t) PROVE NothingLost'
  BY <1>5 DEF SetAside, TypeOK, Phases, Apart, NothingLost, Place, Dir, Base, Planned
<1>6. ASSUME NEW t \in Thread, Withdraw(t) PROVE NothingLost'
  BY <1>6 DEF Withdraw, TypeOK, Phases, Apart, NothingLost, Place, Dir, Base, Planned
<1>7. ASSUME NEW t \in Thread, External(t) PROVE NothingLost'
  BY <1>7 DEF External, TypeOK, Phases, Apart, NothingLost, Place, Dir, Base, Planned
<1>8. ASSUME StageAside PROVE NothingLost'
  BY <1>8 DEF StageAside, TypeOK, Phases, Apart, NothingLost, Place, Dir, Base, Planned
<1>9. ASSUME Remove PROVE NothingLost'
  BY <1>9 DEF Remove, TypeOK, Phases, Apart, NothingLost, Place, Dir, Base, Planned
<1>10. ASSUME NEW x \in Ext, Replace(x) PROVE NothingLost'
  BY <1>10 DEF Replace, TypeOK, Phases, Apart, NothingLost, Place, Dir, Base, Planned
<1> QED BY <1>1, <1>2, <1>3, <1>4, <1>5, <1>6, <1>7, <1>8, <1>9, <1>10, MovedBy

(* Only outside writers write, and never what was planned.                 *)
LEMMA NextPlannedIsStage == IInv /\ [Next]_vars => PlannedIsStage'
<1> SUFFICES ASSUME TypeOK, PlannedIsStage, [Next]_vars PROVE PlannedIsStage'
  BY DEF IInv
<1> USE DEF Goto, In, Proceed, Fail, CheckThen, RenameThen, ExchangeThen, CanRename,
    CanExchange, Renamed, Exchanged, Undone, Same, Bystander, Unused, fs, plan,
    Thread, Rollback
<1>1. CASE UNCHANGED <<content>>
  BY <1>1 DEF PlannedIsStage
<1>2. ASSUME Edit PROVE PlannedIsStage'
  BY <1>2 DEF Edit, TypeOK, PlannedIsStage, Place, Dir, Base, Planned
<1>3. ASSUME NEW x \in Ext, Replace(x) PROVE PlannedIsStage'
  BY <1>3 DEF Replace, TypeOK, PlannedIsStage, Place, Dir, Base, Planned
<1> QED BY <1>1, <1>2, <1>3
  DEF Next, Apply, Discard, RollbackStep, Outside, vars,
      StartApply, Check, Activate, Exchange, ExchangeFails, Verify, VerifyOriginal,
          Retain, Name, Mark, Commit, ApplyReleases, Handle, BeginDiscard,
              StartFails, Enter, Refuse, Accept, StageAside, DiscardReleases,
                  HandlerInterrupted, Crash, Edit, Remove, Look, Original, Back,
                      SetAside, Withdraw, External, CheckExternal, CheckRestored,
                          Stop, Replace

(* Nobody can reach the original once it is out of the canonical place,    *)
(* and no rollback touches it once it is committed.                        *)
LEMMA NextOrigKept == IInv /\ [Next]_vars => OrigKept'
<1> SUFFICES ASSUME TypeOK, Phases, Apart, OrigKept, [Next]_vars PROVE OrigKept'
  BY DEF IInv
<1> USE DEF Goto, In, Proceed, Fail, CheckThen, RenameThen, ExchangeThen, CanRename,
    CanExchange, Renamed, Exchanged, Undone, Same, Bystander, Unused, fs, plan,
    Thread, Rollback
<1> USE DEF TypeOK, Phases, Apart, OrigKept, Place, Dir, Phase, Working, Holds,
    Baseline, Crashed
<1>1. ASSUME StartApply PROVE OrigKept'
  BY <1>1 DEF StartApply
<1>2. ASSUME Check PROVE OrigKept'
  BY <1>2 DEF Check
<1>3. ASSUME Activate PROVE OrigKept'
  BY <1>3 DEF Activate
<1>4. ASSUME Exchange PROVE OrigKept'
  BY <1>4 DEF Exchange
<1>5. ASSUME ExchangeFails PROVE OrigKept'
  BY <1>5 DEF ExchangeFails
<1>6. ASSUME Verify PROVE OrigKept'
  BY <1>6 DEF Verify
<1>7. ASSUME VerifyOriginal PROVE OrigKept'
  BY <1>7 DEF VerifyOriginal
<1>8. ASSUME Retain PROVE OrigKept'
  BY <1>8 DEF Retain
<1>9. ASSUME Name PROVE OrigKept'
  BY <1>9 DEF Name
<1>10. ASSUME Mark PROVE OrigKept'
  BY <1>10 DEF Mark
<1>11. ASSUME Commit PROVE OrigKept'
  BY <1>11 DEF Commit
<1>12. ASSUME ApplyReleases PROVE OrigKept'
  BY <1>12 DEF ApplyReleases
<1>13. ASSUME Handle PROVE OrigKept'
  BY <1>13 DEF Handle
<1>14. ASSUME BeginDiscard PROVE OrigKept'
  BY <1>14 DEF BeginDiscard
<1>15. ASSUME StartFails PROVE OrigKept'
  BY <1>15 DEF StartFails
<1>16. ASSUME Enter PROVE OrigKept'
  BY <1>16 DEF Enter
<1>17. ASSUME Refuse PROVE OrigKept'
  BY <1>17 DEF Refuse
<1>18. ASSUME Accept PROVE OrigKept'
  BY <1>18 DEF Accept
<1>19. ASSUME StageAside PROVE OrigKept'
  BY <1>19 DEF StageAside
<1>20. ASSUME DiscardReleases PROVE OrigKept'
  BY <1>20 DEF DiscardReleases
<1>21. ASSUME HandlerInterrupted PROVE OrigKept'
  BY <1>21 DEF HandlerInterrupted
<1>22. ASSUME Crash PROVE OrigKept'
  BY <1>22 DEF Crash
<1>23. ASSUME Edit PROVE OrigKept'
  BY <1>23 DEF Edit
<1>24. ASSUME Remove PROVE OrigKept'
  BY <1>24 DEF Remove
<1>25. ASSUME NEW t \in Thread, Look(t) PROVE OrigKept'
  BY <1>25 DEF Look
<1>26. ASSUME NEW t \in Thread, Original(t) PROVE OrigKept'
  BY <1>26 DEF Original
<1>27. ASSUME NEW t \in Thread, Back(t) PROVE OrigKept'
  BY <1>27 DEF Back
<1>28. ASSUME NEW t \in Thread, SetAside(t) PROVE OrigKept'
  BY <1>28 DEF SetAside
<1>29. ASSUME NEW t \in Thread, Withdraw(t) PROVE OrigKept'
  BY <1>29 DEF Withdraw
<1>30. ASSUME NEW t \in Thread, External(t) PROVE OrigKept'
  BY <1>30 DEF External
<1>31. ASSUME NEW t \in Thread, CheckExternal(t) PROVE OrigKept'
  BY <1>31 DEF CheckExternal
<1>32. ASSUME NEW t \in Thread, CheckRestored(t) PROVE OrigKept'
  BY <1>32 DEF CheckRestored
<1>33. ASSUME NEW t \in Thread, Stop(t) PROVE OrigKept'
  BY <1>33 DEF Stop
<1>34. ASSUME NEW x \in Ext, Replace(x) PROVE OrigKept'
  BY <1>34 DEF Replace
<1>35. ASSUME UNCHANGED vars PROVE OrigKept'
  BY <1>35 DEF vars, fs, plan
<1> QED BY <1>1, <1>2, <1>3, <1>4, <1>5, <1>6, <1>7, <1>8, <1>9, <1>10, <1>11, <1>12,
    <1>13, <1>14, <1>15, <1>16, <1>17, <1>18, <1>19, <1>20, <1>21, <1>22, <1>23,
        <1>24, <1>25, <1>26, <1>27, <1>28, <1>29, <1>30, <1>31, <1>32, <1>33, <1>34,
            <1>35 DEF Next, Apply, Discard, RollbackStep, Outside

(* Only the exchange brings the staged tree to the canonical place, and    *)
(* only an undone exchange ends the publication.                           *)
LEMMA NextStageOut == IInv /\ [Next]_vars => StageOut'
<1> SUFFICES ASSUME TypeOK, Phases, Apart, StageOut, [Next]_vars PROVE StageOut'
  BY DEF IInv
<1> USE DEF Goto, In, Proceed, Fail, CheckThen, RenameThen, ExchangeThen, CanRename,
    CanExchange, Renamed, Exchanged, Undone, Same, Bystander, Unused, fs, plan,
    Thread, Rollback
<1> USE DEF TypeOK, Phases, Apart, StageOut, Place, Dir, Phase, Working, Holds,
    Baseline, Crashed
<1>1. ASSUME StartApply PROVE StageOut'
  BY <1>1 DEF StartApply
<1>2. ASSUME Check PROVE StageOut'
  BY <1>2 DEF Check
<1>3. ASSUME Activate PROVE StageOut'
  BY <1>3 DEF Activate
<1>4. ASSUME Exchange PROVE StageOut'
  BY <1>4 DEF Exchange
<1>5. ASSUME ExchangeFails PROVE StageOut'
  BY <1>5 DEF ExchangeFails
<1>6. ASSUME Verify PROVE StageOut'
  BY <1>6 DEF Verify
<1>7. ASSUME VerifyOriginal PROVE StageOut'
  BY <1>7 DEF VerifyOriginal
<1>8. ASSUME Retain PROVE StageOut'
  BY <1>8 DEF Retain
<1>9. ASSUME Name PROVE StageOut'
  BY <1>9 DEF Name
<1>10. ASSUME Mark PROVE StageOut'
  BY <1>10 DEF Mark
<1>11. ASSUME Commit PROVE StageOut'
  BY <1>11 DEF Commit
<1>12. ASSUME ApplyReleases PROVE StageOut'
  BY <1>12 DEF ApplyReleases
<1>13. ASSUME Handle PROVE StageOut'
  BY <1>13 DEF Handle
<1>14. ASSUME BeginDiscard PROVE StageOut'
  BY <1>14 DEF BeginDiscard
<1>15. ASSUME StartFails PROVE StageOut'
  BY <1>15 DEF StartFails
<1>16. ASSUME Enter PROVE StageOut'
  BY <1>16 DEF Enter
<1>17. ASSUME Refuse PROVE StageOut'
  BY <1>17 DEF Refuse
<1>18. ASSUME Accept PROVE StageOut'
  BY <1>18 DEF Accept
<1>19. ASSUME StageAside PROVE StageOut'
  BY <1>19 DEF StageAside
<1>20. ASSUME DiscardReleases PROVE StageOut'
  BY <1>20 DEF DiscardReleases
<1>21. ASSUME HandlerInterrupted PROVE StageOut'
  BY <1>21 DEF HandlerInterrupted
<1>22. ASSUME Crash PROVE StageOut'
  BY <1>22 DEF Crash
<1>23. ASSUME Edit PROVE StageOut'
  BY <1>23 DEF Edit
<1>24. ASSUME Remove PROVE StageOut'
  BY <1>24 DEF Remove
<1>25. ASSUME NEW t \in Thread, Look(t) PROVE StageOut'
  BY <1>25 DEF Look
<1>26. ASSUME NEW t \in Thread, Original(t) PROVE StageOut'
  BY <1>26 DEF Original
<1>27. ASSUME NEW t \in Thread, Back(t) PROVE StageOut'
  BY <1>27 DEF Back
<1>28. ASSUME NEW t \in Thread, SetAside(t) PROVE StageOut'
  BY <1>28 DEF SetAside
<1>29. ASSUME NEW t \in Thread, Withdraw(t) PROVE StageOut'
  BY <1>29 DEF Withdraw
<1>30. ASSUME NEW t \in Thread, External(t) PROVE StageOut'
  BY <1>30 DEF External
<1>31. ASSUME NEW t \in Thread, CheckExternal(t) PROVE StageOut'
  BY <1>31 DEF CheckExternal
<1>32. ASSUME NEW t \in Thread, CheckRestored(t) PROVE StageOut'
  BY <1>32 DEF CheckRestored
<1>33. ASSUME NEW t \in Thread, Stop(t) PROVE StageOut'
  BY <1>33 DEF Stop
<1>34. ASSUME NEW x \in Ext, Replace(x) PROVE StageOut'
  BY <1>34 DEF Replace
<1>35. ASSUME UNCHANGED vars PROVE StageOut'
  BY <1>35 DEF vars, fs, plan
<1> QED BY <1>1, <1>2, <1>3, <1>4, <1>5, <1>6, <1>7, <1>8, <1>9, <1>10, <1>11, <1>12,
    <1>13, <1>14, <1>15, <1>16, <1>17, <1>18, <1>19, <1>20, <1>21, <1>22, <1>23,
        <1>24, <1>25, <1>26, <1>27, <1>28, <1>29, <1>30, <1>31, <1>32, <1>33, <1>34,
            <1>35 DEF Next, Apply, Discard, RollbackStep, Outside

(* The project lock is given back by a commit or by a finished rollback.   *)
LEMMA NextLockTrue == IInv /\ [Next]_vars => LockTrue'
<1> SUFFICES ASSUME TypeOK, Phases, StageOut, LockTrue, [Next]_vars PROVE LockTrue'
  BY DEF IInv
<1> USE DEF Goto, In, Proceed, Fail, CheckThen, RenameThen, ExchangeThen, CanRename,
    CanExchange, Renamed, Exchanged, Undone, Same, Bystander, Unused, fs, plan,
    Thread, Rollback
<1> USE DEF TypeOK, Phases, StageOut, LockTrue, Place, Dir, Phase, Working, Holds,
    Baseline, Crashed
<1>1. ASSUME StartApply PROVE LockTrue'
  BY <1>1 DEF StartApply
<1>2. ASSUME Check PROVE LockTrue'
  BY <1>2 DEF Check
<1>3. ASSUME Activate PROVE LockTrue'
  BY <1>3 DEF Activate
<1>4. ASSUME Exchange PROVE LockTrue'
  BY <1>4 DEF Exchange
<1>5. ASSUME ExchangeFails PROVE LockTrue'
  BY <1>5 DEF ExchangeFails
<1>6. ASSUME Verify PROVE LockTrue'
  BY <1>6 DEF Verify
<1>7. ASSUME VerifyOriginal PROVE LockTrue'
  BY <1>7 DEF VerifyOriginal
<1>8. ASSUME Retain PROVE LockTrue'
  BY <1>8 DEF Retain
<1>9. ASSUME Name PROVE LockTrue'
  BY <1>9 DEF Name
<1>10. ASSUME Mark PROVE LockTrue'
  BY <1>10 DEF Mark
<1>11. ASSUME Commit PROVE LockTrue'
  BY <1>11 DEF Commit
<1>12. ASSUME ApplyReleases PROVE LockTrue'
  BY <1>12 DEF ApplyReleases
<1>13. ASSUME Handle PROVE LockTrue'
  BY <1>13 DEF Handle
<1>14. ASSUME BeginDiscard PROVE LockTrue'
  BY <1>14 DEF BeginDiscard
<1>15. ASSUME StartFails PROVE LockTrue'
  BY <1>15 DEF StartFails
<1>16. ASSUME Enter PROVE LockTrue'
  BY <1>16 DEF Enter
<1>17. ASSUME Refuse PROVE LockTrue'
  BY <1>17 DEF Refuse
<1>18. ASSUME Accept PROVE LockTrue'
  BY <1>18 DEF Accept
<1>19. ASSUME StageAside PROVE LockTrue'
  BY <1>19 DEF StageAside
<1>20. ASSUME DiscardReleases PROVE LockTrue'
  BY <1>20 DEF DiscardReleases
<1>21. ASSUME HandlerInterrupted PROVE LockTrue'
  BY <1>21 DEF HandlerInterrupted
<1>22. ASSUME Crash PROVE LockTrue'
  BY <1>22 DEF Crash
<1>23. ASSUME Edit PROVE LockTrue'
  BY <1>23 DEF Edit
<1>24. ASSUME Remove PROVE LockTrue'
  BY <1>24 DEF Remove
<1>25. ASSUME NEW t \in Thread, Look(t) PROVE LockTrue'
  BY <1>25 DEF Look
<1>26. ASSUME NEW t \in Thread, Original(t) PROVE LockTrue'
  BY <1>26 DEF Original
<1>27. ASSUME NEW t \in Thread, Back(t) PROVE LockTrue'
  BY <1>27 DEF Back
<1>28. ASSUME NEW t \in Thread, SetAside(t) PROVE LockTrue'
  BY <1>28 DEF SetAside
<1>29. ASSUME NEW t \in Thread, Withdraw(t) PROVE LockTrue'
  BY <1>29 DEF Withdraw
<1>30. ASSUME NEW t \in Thread, External(t) PROVE LockTrue'
  BY <1>30 DEF External
<1>31. ASSUME NEW t \in Thread, CheckExternal(t) PROVE LockTrue'
  BY <1>31 DEF CheckExternal
<1>32. ASSUME NEW t \in Thread, CheckRestored(t) PROVE LockTrue'
  BY <1>32 DEF CheckRestored
<1>33. ASSUME NEW t \in Thread, Stop(t) PROVE LockTrue'
  <2>1. CASE t = "apply"
    BY <1>33, <2>1 DEF Stop
  <2>2. CASE t = "discard"
    BY <1>33, <2>2 DEF Stop
  <2> QED BY <2>1, <2>2 DEF Thread
<1>34. ASSUME NEW x \in Ext, Replace(x) PROVE LockTrue'
  BY <1>34 DEF Replace
<1>35. ASSUME UNCHANGED vars PROVE LockTrue'
  BY <1>35 DEF vars, fs, plan
<1> QED BY <1>1, <1>2, <1>3, <1>4, <1>5, <1>6, <1>7, <1>8, <1>9, <1>10, <1>11, <1>12,
    <1>13, <1>14, <1>15, <1>16, <1>17, <1>18, <1>19, <1>20, <1>21, <1>22, <1>23,
        <1>24, <1>25, <1>26, <1>27, <1>28, <1>29, <1>30, <1>31, <1>32, <1>33, <1>34,
            <1>35 DEF Next, Apply, Discard, RollbackStep, Outside

(* The rollback goes from Exchanging to Restored in one rename.            *)
LEMMA NextExact == IInv /\ [Next]_vars => Exact'
<1> SUFFICES ASSUME TypeOK, Phases, Apart, OrigKept, StageOut, PlannedIsStage, Exact,
    [Next]_vars PROVE Exact'
  BY DEF IInv
<1> USE DEF Goto, In, Proceed, Fail, CheckThen, RenameThen, ExchangeThen, CanRename,
    CanExchange, Renamed, Exchanged, Undone, Same, Bystander, Unused, fs, plan,
    Thread, Rollback
<1> USE DEF TypeOK, Phases, Apart, OrigKept, StageOut, PlannedIsStage, Planned, Base,
    Exact, Exchanging, Restored, Given, Place, Dir, Phase, Working, Holds, Baseline,
        Crashed
<1>1. ASSUME StartApply PROVE Exact'
  BY <1>1 DEF StartApply
<1>2. ASSUME Check PROVE Exact'
  BY <1>2 DEF Check
<1>3. ASSUME Activate PROVE Exact'
  BY <1>3 DEF Activate
<1>4. ASSUME Exchange PROVE Exact'
  BY <1>4 DEF Exchange
<1>5. ASSUME ExchangeFails PROVE Exact'
  BY <1>5 DEF ExchangeFails
<1>6. ASSUME Verify PROVE Exact'
  BY <1>6 DEF Verify
<1>7. ASSUME VerifyOriginal PROVE Exact'
  BY <1>7 DEF VerifyOriginal
<1>8. ASSUME Retain PROVE Exact'
  BY <1>8 DEF Retain
<1>9. ASSUME Name PROVE Exact'
  BY <1>9 DEF Name
<1>10. ASSUME Mark PROVE Exact'
  BY <1>10 DEF Mark
<1>11. ASSUME Commit PROVE Exact'
  BY <1>11 DEF Commit
<1>12. ASSUME ApplyReleases PROVE Exact'
  BY <1>12 DEF ApplyReleases
<1>13. ASSUME Handle PROVE Exact'
  BY <1>13 DEF Handle
<1>14. ASSUME BeginDiscard PROVE Exact'
  BY <1>14 DEF BeginDiscard
<1>15. ASSUME StartFails PROVE Exact'
  BY <1>15 DEF StartFails
<1>16. ASSUME Enter PROVE Exact'
  BY <1>16 DEF Enter
<1>17. ASSUME Refuse PROVE Exact'
  BY <1>17 DEF Refuse
<1>18. ASSUME Accept PROVE Exact'
  BY <1>18 DEF Accept
<1>19. ASSUME StageAside PROVE Exact'
  BY <1>19 DEF StageAside
<1>20. ASSUME DiscardReleases PROVE Exact'
  BY <1>20 DEF DiscardReleases
<1>21. ASSUME HandlerInterrupted PROVE Exact'
  BY <1>21 DEF HandlerInterrupted
<1>22. ASSUME Crash PROVE Exact'
  BY <1>22 DEF Crash
<1>23. ASSUME Edit PROVE Exact'
  BY <1>23 DEF Edit
<1>24. ASSUME Remove PROVE Exact'
  BY <1>24 DEF Remove
<1>25. ASSUME NEW t \in Thread, Look(t) PROVE Exact'
  BY <1>25 DEF Look
<1>26. ASSUME NEW t \in Thread, Original(t) PROVE Exact'
  BY <1>26 DEF Original
<1>27. ASSUME NEW t \in Thread, Back(t) PROVE Exact'
  BY <1>27 DEF Back
<1>28. ASSUME NEW t \in Thread, SetAside(t) PROVE Exact'
  BY <1>28 DEF SetAside
<1>29. ASSUME NEW t \in Thread, Withdraw(t) PROVE Exact'
  BY <1>29 DEF Withdraw
<1>30. ASSUME NEW t \in Thread, External(t) PROVE Exact'
  BY <1>30 DEF External
<1>31. ASSUME NEW t \in Thread, CheckExternal(t) PROVE Exact'
  BY <1>31 DEF CheckExternal
<1>32. ASSUME NEW t \in Thread, CheckRestored(t) PROVE Exact'
  BY <1>32 DEF CheckRestored
<1>33. ASSUME NEW t \in Thread, Stop(t) PROVE Exact'
  BY <1>33 DEF Stop
<1>34. ASSUME NEW x \in Ext, Replace(x) PROVE Exact'
  BY <1>34 DEF Replace
<1>35. ASSUME UNCHANGED vars PROVE Exact'
  BY <1>35 DEF vars, fs, plan
<1> QED BY <1>1, <1>2, <1>3, <1>4, <1>5, <1>6, <1>7, <1>8, <1>9, <1>10, <1>11, <1>12,
    <1>13, <1>14, <1>15, <1>16, <1>17, <1>18, <1>19, <1>20, <1>21, <1>22, <1>23,
        <1>24, <1>25, <1>26, <1>27, <1>28, <1>29, <1>30, <1>31, <1>32, <1>33, <1>34,
            <1>35 DEF Next, Apply, Discard, RollbackStep, Outside

(* IInv is inductive: at every point of an apply or a discard, whatever    *)
(* outside writers do and whatever fails, the plan's flags, its state, the *)
(* project lock and the places of the directories agree.                   *)
THEOREM ContentInvariant == Spec => []IInv
<1>1. Init => IInv
  BY InitIInv
<1>2. IInv /\ [Next]_vars => IInv'
  <2> SUFFICES ASSUME IInv, [Next]_vars PROVE IInv'
    OBVIOUS
  <2>1. TypeOK' /\ Phases'
    BY NextTypeOK, NextPhases DEF IInv
  <2>2. NothingLost' /\ Apart' /\ PlannedIsStage'
    BY NextNothingLost, NextApart, NextPlannedIsStage
  <2>3. OrigKept' /\ StageOut' /\ LockTrue' /\ Exact'
    BY NextOrigKept, NextStageOut, NextLockTrue, NextExact
  <2> QED BY <2>1, <2>2, <2>3 DEF IInv
<1> QED BY <1>1, <1>2, PTL DEF Spec

(* No tree is lost by apply, rollback or discard. *)
THEOREM NothingIsLost == Spec => []NothingLost
<1>1. IInv => NothingLost
  BY DEF IInv
<1> QED BY <1>1, ContentInvariant, PTL

(* A committed change has replaced the very content it was planned for: no *)
(* outside update is overwritten by apply_content_changes.                 *)
THEOREM NoLostUpdate == Spec => []ReplacedIsBaseline
<1>1. IInv => ReplacedIsBaseline
  BY DEF IInv, OrigKept, ReplacedIsBaseline
<1> QED BY <1>1, ContentInvariant, PTL

(* A plan whose project lock is free is settled, and its state says how. *)
THEOREM Settled == Spec => []SettledWhenReleased
<1>1. IInv => SettledWhenReleased
  BY DEF IInv, TypeOK, LockTrue, StageOut, SettledWhenReleased
<1> QED BY <1>1, ContentInvariant, PTL

(* A rollback that has ended has given back what the exchange took, also   *)
(* when that was not what the plan was made for.                           *)
THEOREM ExactRollback == Spec => []RollbackIsExact
<1>1. IInv => RollbackIsExact
  BY DEF IInv, Exact, Exchanging, Restored, Given, RollbackIsExact
<1> QED BY <1>1, ContentInvariant, PTL

-----------------------------------------------------------------------------
(* A rollback ends *)

(* What went wrong so far: a writer before the exchange counts once, every *)
(* error, interrupt and cancellation counts.                               *)
Wrongs == stops + (IF stamp = Planned THEN 0 ELSE 1)
Calm == Wrongs <= 1 /\ ~disturbed /\ ~committed

(* Before the exchange the canonical directory is the planned one unless   *)
(* somebody has acted, and a directory that was there does not come back.  *)
Early ==
  pc["apply"] \in {"idle", "check", "activate", "exchange"} =>
    /\ content[Stage] = Planned /\ at["failed"] = None /\ at["retained"] = None
    /\ existed /\ stamp # Planned => ~Baseline
    /\ stamp = Planned => Baseline
    /\ ~disturbed => stamp = Planned

(* The staged tree is canonical: in the place of a directory, which is the *)
(* planned one unless somebody has acted, or where none was.               *)
StageIn == at["canonical"] = Stage /\ content[Stage] = Planned /\ at["failed"] = None
TookDirectory ==
  /\ existed /\ StageIn /\ before # None
  /\ stamp = Planned <=> before = Orig /\ content[Orig] = Base
TookNothing == ~existed /\ StageIn

(* The remembered name leads to what the exchange took.                    *)
Undoable == TookDirectory /\ at[name] = before

(* The original was renamed, and its new name was not remembered.          *)
Forgotten ==
  TookDirectory /\ at["retained"] = Orig /\ at["staging"] = None /\ name = "staging"

(* What each step of an active publication finds.                          *)
Found(l) ==
  /\ l \in {"exchange", "checkRestored"} => Baseline
  /\ l = "verify" => TookNothing \/ (Undoable /\ name = "staging" /\ at["retained"] = None)
  /\ l \in {"verifyOriginal", "retain"} => Undoable /\ name = "staging" /\ at["retained"] = None
  /\ l = "name" => Forgotten /\ before = Orig
  /\ l \in {"mark", "commit"} => TookNothing \/ Undoable
  /\ l \in {"except", "look"} => Baseline \/ TookNothing \/ Undoable \/ Forgotten
  /\ l \in {"original", "external"} => Undoable \/ Forgotten
  /\ l = "back" => Undoable /\ before = Orig /\ content[Orig] = Base
  /\ l = "setAside" => Baseline /\ at[name] # None /\ at["failed"] = None
  /\ l = "withdraw" => TookNothing
  /\ l = "checkExternal" => at["canonical"] = before
  /\ l = "over" => Forgotten

(* As long as at most one thing went wrong, each step finds what it needs, *)
(* so that it is that one thing that led to the rollback; and a discard    *)
(* cannot undo what apply could not.                                       *)
OneWrong ==
  Calm /\ active =>
    /\ Found(pc["apply"])
    /\ pc["apply"] \in {"except"} \cup Rollback => Wrongs = 1
    /\ pc["apply"] = "over" =>
         pc["discard"] \notin {"back", "setAside", "checkExternal", "checkRestored", "withdraw"}

Completing == Early /\ OneWrong

(* Nothing but the exchange brings a directory to another place before it. *)
LEMMA NextEarly == IInv /\ Completing /\ [Next]_vars => Early'
<1> SUFFICES ASSUME TypeOK, Phases, StageOut, Early,
    [Next]_vars PROVE Early'
  BY DEF IInv, Completing
<1> USE DEF Goto, In, Proceed, Fail, CheckThen, RenameThen, ExchangeThen, CanRename,
    CanExchange, Renamed, Exchanged, Undone, Same, Bystander, Unused, fs, plan,
    Thread, Rollback
<1> USE DEF TypeOK, Phases, StageOut, Early, Place, Dir, Phase, Working, Holds, Baseline, Planned, Base
<1>1. ASSUME StartApply PROVE Early'
  BY <1>1 DEF StartApply
<1>2. ASSUME Check PROVE Early'
  BY <1>2 DEF Check
<1>3. ASSUME Activate PROVE Early'
  BY <1>3 DEF Activate
<1>4. ASSUME Exchange PROVE Early'
  BY <1>4 DEF Exchange
<1>5. ASSUME ExchangeFails PROVE Early'
  BY <1>5 DEF ExchangeFails
<1>6. ASSUME Verify PROVE Early'
  BY <1>6 DEF Verify
<1>7. ASSUME VerifyOriginal PROVE Early'
  BY <1>7 DEF VerifyOriginal
<1>8. ASSUME Retain PROVE Early'
  BY <1>8 DEF Retain
<1>9. ASSUME Name PROVE Early'
  BY <1>9 DEF Name
<1>10. ASSUME Mark PROVE Early'
  BY <1>10 DEF Mark
<1>11. ASSUME Commit PROVE Early'
  BY <1>11 DEF Commit
<1>12. ASSUME ApplyReleases PROVE Early'
  BY <1>12 DEF ApplyReleases
<1>13. ASSUME Handle PROVE Early'
  BY <1>13 DEF Handle
<1>14. ASSUME BeginDiscard PROVE Early'
  BY <1>14 DEF BeginDiscard
<1>15. ASSUME StartFails PROVE Early'
  BY <1>15 DEF StartFails
<1>16. ASSUME Enter PROVE Early'
  BY <1>16 DEF Enter
<1>17. ASSUME Refuse PROVE Early'
  BY <1>17 DEF Refuse
<1>18. ASSUME Accept PROVE Early'
  BY <1>18 DEF Accept
<1>19. ASSUME StageAside PROVE Early'
  BY <1>19 DEF StageAside
<1>20. ASSUME DiscardReleases PROVE Early'
  BY <1>20 DEF DiscardReleases
<1>21. ASSUME HandlerInterrupted PROVE Early'
  BY <1>21 DEF HandlerInterrupted
<1>22. ASSUME Crash PROVE Early'
  BY <1>22 DEF Crash
<1>23. ASSUME Edit PROVE Early'
  BY <1>23 DEF Edit
<1>24. ASSUME Remove PROVE Early'
  BY <1>24 DEF Remove
<1>25. ASSUME NEW t \in Thread, Look(t) PROVE Early'
  BY <1>25 DEF Look
<1>26. ASSUME NEW t \in Thread, Original(t) PROVE Early'
  BY <1>26 DEF Original
<1>27. ASSUME NEW t \in Thread, Back(t) PROVE Early'
  BY <1>27 DEF Back
<1>28. ASSUME NEW t \in Thread, SetAside(t) PROVE Early'
  BY <1>28 DEF SetAside
<1>29. ASSUME NEW t \in Thread, Withdraw(t) PROVE Early'
  BY <1>29 DEF Withdraw
<1>30. ASSUME NEW t \in Thread, External(t) PROVE Early'
  BY <1>30 DEF External
<1>31. ASSUME NEW t \in Thread, CheckExternal(t) PROVE Early'
  BY <1>31 DEF CheckExternal
<1>32. ASSUME NEW t \in Thread, CheckRestored(t) PROVE Early'
  BY <1>32 DEF CheckRestored
<1>33. ASSUME NEW t \in Thread, Stop(t) PROVE Early'
  BY <1>33 DEF Stop
<1>34. ASSUME NEW x \in Ext, Replace(x) PROVE Early'
  BY <1>34 DEF Replace
<1> HIDE DEF TypeOK, Phases, StageOut, Early, Phase, Working, Holds, Baseline
<1>35. ASSUME UNCHANGED vars PROVE Early'
  BY <1>35 DEF vars, Early, Baseline, Holds
<1> QED BY <1>1, <1>2, <1>3, <1>4, <1>5, <1>6, <1>7, <1>8, <1>9, <1>10, <1>11, <1>12,
    <1>13, <1>14, <1>15, <1>16, <1>17, <1>18, <1>19, <1>20, <1>21, <1>22, <1>23,
    <1>24, <1>25, <1>26, <1>27, <1>28, <1>29, <1>30, <1>31, <1>32, <1>33, <1>34,
    <1>35 DEF Next, Apply, Discard, RollbackStep, Outside

(* From the exchange on, one thing that goes wrong leads to a rollback that
   finds what it needs.                                                    *)
LEMMA NextOneWrong == IInv /\ Completing /\ [Next]_vars => OneWrong'
<1> SUFFICES ASSUME TypeOK, Phases, Apart, OrigKept, StageOut, Early, OneWrong,
    [Next]_vars PROVE OneWrong'
  BY DEF IInv, Completing
<1> USE DEF Goto, In, Proceed, Fail, CheckThen, RenameThen, ExchangeThen, CanRename,
    CanExchange, Renamed, Exchanged, Undone, Same, Bystander, Unused, fs, plan,
    Thread, Rollback
<1> USE DEF TypeOK, Phases, Apart, OrigKept, StageOut, OneWrong, Found, TookNothing, TookDirectory, Undoable,
    Forgotten, StageIn, Calm, Wrongs, Place, Dir, Phase, Working, Holds, Baseline
<1>1. ASSUME StartApply PROVE OneWrong'
  BY <1>1 DEF StartApply
<1>2. ASSUME Check PROVE OneWrong'
  BY <1>2 DEF Check
<1>3. ASSUME Activate PROVE OneWrong'
  BY <1>3 DEF Activate, Early
<1>4. ASSUME Exchange PROVE OneWrong'
  <2> SUFFICES ASSUME Calm', active'
               PROVE  TookNothing' \/ (Undoable' /\ name' = "staging" /\ at'["retained"] = None)
    BY <1>4 DEF Exchange
  <2>1. /\ pc["apply"] = "exchange" /\ UNCHANGED <<content, stamp, existed, name>>
        /\ at["staging"] = Stage /\ before' = at["canonical"]
    BY <1>4 DEF Exchange
  <2>2. /\ content[Stage] = Planned /\ at["failed"] = None /\ at["retained"] = None
        /\ existed /\ stamp # Planned => ~Baseline
        /\ stamp = Planned => Baseline
    BY <2>1 DEF Early
  <2>3. /\ at'["canonical"] = Stage /\ at'["failed"] = None /\ at'["retained"] = None
        /\ existed => at'["staging"] = at["canonical"] /\ at["canonical"] # None
    BY <1>4, <2>1, <2>2 DEF Exchange
  <2>4. CASE existed
    BY <2>1, <2>2, <2>3, <2>4
  <2>5. CASE ~existed
    BY <2>1, <2>2, <2>3, <2>5
  <2> QED BY <2>4, <2>5
<1>5. ASSUME ExchangeFails PROVE OneWrong'
  BY <1>5 DEF ExchangeFails
<1>6. ASSUME Verify PROVE OneWrong'
  BY <1>6 DEF Verify
<1>7. ASSUME VerifyOriginal PROVE OneWrong'
  BY <1>7 DEF VerifyOriginal
<1>8. ASSUME Retain PROVE OneWrong'
  BY <1>8 DEF Retain
<1>9. ASSUME Name PROVE OneWrong'
  BY <1>9 DEF Name
<1>10. ASSUME Mark PROVE OneWrong'
  BY <1>10 DEF Mark
<1>11. ASSUME Commit PROVE OneWrong'
  BY <1>11 DEF Commit
<1>12. ASSUME ApplyReleases PROVE OneWrong'
  BY <1>12 DEF ApplyReleases
<1>13. ASSUME Handle PROVE OneWrong'
  BY <1>13 DEF Handle
<1>14. ASSUME BeginDiscard PROVE OneWrong'
  BY <1>14 DEF BeginDiscard
<1>15. ASSUME StartFails PROVE OneWrong'
  BY <1>15 DEF StartFails
<1>16. ASSUME Enter PROVE OneWrong'
  BY <1>16 DEF Enter
<1>17. ASSUME Refuse PROVE OneWrong'
  BY <1>17 DEF Refuse
<1>18. ASSUME Accept PROVE OneWrong'
  BY <1>18 DEF Accept
<1>19. ASSUME StageAside PROVE OneWrong'
  BY <1>19 DEF StageAside
<1>20. ASSUME DiscardReleases PROVE OneWrong'
  BY <1>20 DEF DiscardReleases
<1>21. ASSUME HandlerInterrupted PROVE OneWrong'
  BY <1>21 DEF HandlerInterrupted
<1>22. ASSUME Crash PROVE OneWrong'
  BY <1>22 DEF Crash
<1>23. ASSUME Edit PROVE OneWrong'
  BY <1>23 DEF Edit
<1>24. ASSUME Remove PROVE OneWrong'
  BY <1>24 DEF Remove
<1>25. ASSUME NEW t \in Thread, Look(t) PROVE OneWrong'
  BY <1>25 DEF Look
<1>26. ASSUME NEW t \in Thread, Original(t) PROVE OneWrong'
  BY <1>26 DEF Original
<1>27. ASSUME NEW t \in Thread, Back(t) PROVE OneWrong'
  BY <1>27 DEF Back
<1>28. ASSUME NEW t \in Thread, SetAside(t) PROVE OneWrong'
  BY <1>28 DEF SetAside
<1>29. ASSUME NEW t \in Thread, Withdraw(t) PROVE OneWrong'
  BY <1>29 DEF Withdraw
<1>30. ASSUME NEW t \in Thread, External(t) PROVE OneWrong'
  BY <1>30 DEF External
<1>31. ASSUME NEW t \in Thread, CheckExternal(t) PROVE OneWrong'
  BY <1>31 DEF CheckExternal
<1>32. ASSUME NEW t \in Thread, CheckRestored(t) PROVE OneWrong'
  BY <1>32 DEF CheckRestored
<1>33. ASSUME NEW t \in Thread, Stop(t) PROVE OneWrong'
  BY <1>33 DEF Stop
<1>34. ASSUME NEW x \in Ext, Replace(x) PROVE OneWrong'
  BY <1>34 DEF Replace
<1> HIDE DEF TypeOK, Phases, Apart, OrigKept, StageOut, OneWrong, Found, TookNothing,
    TookDirectory, Undoable, Forgotten, StageIn, Calm, Wrongs, Phase, Working, Holds,
    Baseline
<1>35. ASSUME UNCHANGED vars PROVE OneWrong'
  BY <1>35 DEF vars, OneWrong, Found, TookNothing,
     TookDirectory, Undoable, Forgotten, StageIn, Calm, Wrongs, Holds, Baseline
<1> QED BY <1>1, <1>2, <1>3, <1>4, <1>5, <1>6, <1>7, <1>8, <1>9, <1>10, <1>11, <1>12,
    <1>13, <1>14, <1>15, <1>16, <1>17, <1>18, <1>19, <1>20, <1>21, <1>22, <1>23,
    <1>24, <1>25, <1>26, <1>27, <1>28, <1>29, <1>30, <1>31, <1>32, <1>33, <1>34,
    <1>35 DEF Next, Apply, Discard, RollbackStep, Outside

LEMMA InitCompleting == Init => Completing
<1> SUFFICES ASSUME Init PROVE Completing
  OBVIOUS
<1> USE DEF Init, Planned, Base
<1>1. /\ at["canonical"] = IF existed THEN Orig ELSE None
      /\ at["failed"] = None /\ at["retained"] = None
  BY DEF Place
<1>2. content[Stage] = Planned /\ content[Orig] = Base
  BY DEF Dir
<1>3. Early
  BY <1>1, <1>2 DEF Early, Baseline, Holds
<1> QED BY <1>3 DEF Completing, OneWrong

(* The rollback does end: when only one thing went wrong, a failed apply   *)
(* has undone its exchange, unless the original's new name was forgotten.  *)
THEOREM RollbacksComplete == Spec => []RollbackCompletes
<1>1. IInv /\ Completing /\ [Next]_vars => Completing'
  BY NextEarly, NextOneWrong DEF Completing
<1>2. Completing => RollbackCompletes
  BY DEF Completing, OneWrong, Calm, Wrongs, Found, Forgotten, RollbackCompletes
<1> QED BY <1>1, <1>2, InitCompleting, ContentInvariant, PTL DEF Spec
=============================================================================
