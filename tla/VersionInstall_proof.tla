------------------------ MODULE VersionInstall_proof -----------------------
(***************************************************************************)
(* The safety properties of VersionInstall, for any processes, install     *)
(* paths, requests and number of operations. The invariant has two halves: *)
(* what holds of the operations, which a step of an operation keeps, and   *)
(* what a check has recorded, which follows from the first and Observe.    *)
(***************************************************************************)
EXTENDS VersionInstall, TLAPS

OpInv ==
    /\ OneHolder
    /\ OpTypeOK
    /\ HalfDoneIsMarked
    /\ \A p \in Proc : AtStep(p)
    /\ ReportedIsReal
    /\ TokenHasHook

(* A request to stand for none exists.                                     *)
LEMMA NoRequestIs == NoRequest \in Request /\ NoPath \in Path
  <1>1. NoRequest \in Requests
    BY RequestAssumption DEF NoRequest
  <1>2. NoRequest \in Request
    BY <1>1, RequestAssumption
  <1>3. NoRequest.path \in Path
    BY <1>2 DEF Request
  <1>. QED
    BY <1>2, <1>3 DEF NoPath

Inside(l) == l \notin {"idle", "lock"}

(* While one process is past the lock, the others are before it.           *)
LEMMA Alone ==
    ASSUME OneHolder, NEW p \in Proc, Inside(pc[p]), NEW q \in Proc \ {p}
    PROVE  ~Inside(pc[q])
  BY DEF OneHolder, Inside

(* So a step of the holder keeps the invariant if it keeps the parts that  *)
(* speak of the holder.                                                    *)
LEMMA HolderStep ==
    ASSUME OpInv, NEW p \in Proc, Inside(pc[p]), UNCHANGED readVars,
           NEW l, pc' = [pc EXCEPT ![p] = l], Inside(l), lock' = lock,
           OpTypeOK', HalfDoneIsMarked', AtStep(p)', Reported(p)', TokenHasHook'
    PROVE  OpInv'
  <1>1. ASSUME NEW q \in Proc \ {p} PROVE pc'[q] = pc[q] /\ ~Inside(pc'[q])
    BY Alone DEF OpInv, OpTypeOK
  <1>2. lock = p
    BY DEF OpInv, OneHolder, Inside
  <1>3. OneHolder'
    BY <1>1, <1>2, Zenon DEF OneHolder, readVars, OpInv, Inside
  <1>4. ASSUME NEW q \in Proc PROVE AtStep(q)'
    BY <1>1 DEF AtStep, Inside
  <1>5. ASSUME NEW q \in Proc PROVE Reported(q)'
    BY <1>1 DEF Reported, Inside
  <1>. QED
    BY <1>3, <1>4, <1>5 DEF OpInv, ReportedIsReal

(* Dropping a stale token changes neither paths nor marker.                *)
LEMMA DropStaleTokenPreserves ==
    ASSUME OpInv, UNCHANGED readVars, NEW p \in Proc, DropStaleToken(p)
    PROVE  OpInv' /\ killed \subseteq killed'
  <1>1. Inside(pc[p]) /\ lock' = lock /\ killed \subseteq killed'
    BY DEF DropStaleToken, Goto, Return, Inside
  <1>2. PICK l \in PcState : pc' = [pc EXCEPT ![p] = l] /\ Inside(l)
    BY DEF DropStaleToken, Goto, Return, PcState, Inside, OpInv, OpTypeOK, Request
  <1>3. OpTypeOK'
    BY <1>2, MaxOpsAssumption DEF DropStaleToken, Goto, Return, OpInv, OpTypeOK, DirState, Request
  <1>4. HalfDoneIsMarked'
    BY DEF DropStaleToken, Goto, Return, OpInv, OpTypeOK, HalfDoneIsMarked, HalfDone, AtStep, Request
  <1>5. AtStep(p)'
    BY DEF DropStaleToken, Goto, Return, OpInv, OpTypeOK, HalfDoneIsMarked, HalfDone, AtStep, Intact, Request, DirState
  <1>6. Reported(p)'
    BY DEF DropStaleToken, Goto, Return, OpInv, OpTypeOK, HalfDoneIsMarked, HalfDone, AtStep, Intact, Request, Reported, DirState
  <1>7. TokenHasHook'
    BY <1>1, Alone DEF DropStaleToken, Goto, Return, OpInv, OpTypeOK, TokenHasHook, HookRuns, Inside
  <1>. QED
    BY <1>1, <1>2, <1>3, <1>4, <1>5, <1>6, <1>7, HolderStep

(* A satisfied path is intact, by HalfDoneIsMarked.                        *)
LEMMA CheckPreserves ==
    ASSUME OpInv, UNCHANGED readVars, NEW p \in Proc, Check(p)
    PROVE  OpInv' /\ killed \subseteq killed'
  <1>1. Inside(pc[p]) /\ lock' = lock /\ killed \subseteq killed'
    BY DEF Check, Satisfied, Goto, Return, Inside
  <1>2. PICK l \in PcState : pc' = [pc EXCEPT ![p] = l] /\ Inside(l)
    BY DEF Check, Satisfied, Goto, Return, PcState, Inside, OpInv, OpTypeOK, Request
  <1>3. OpTypeOK'
    BY <1>2, MaxOpsAssumption DEF Check, Satisfied, Goto, Return, OpInv, OpTypeOK, DirState, Request
  <1>4. HalfDoneIsMarked'
    BY DEF Check, Satisfied, Goto, Return, OpInv, OpTypeOK, HalfDoneIsMarked, HalfDone, AtStep, Request
  <1>5. AtStep(p)'
    BY DEF Check, Satisfied, Goto, Return, OpInv, OpTypeOK, HalfDoneIsMarked, HalfDone, AtStep, Intact, Request, DirState
  <1>6. Reported(p)'
    BY DEF Check, Satisfied, Goto, Return, OpInv, OpTypeOK, HalfDoneIsMarked, HalfDone, AtStep, Intact, Request, Reported, DirState
  <1>7. TokenHasHook'
    BY <1>1, Alone DEF Check, Satisfied, Goto, Return, OpInv, OpTypeOK, TokenHasHook, HookRuns, Inside
  <1>. QED
    BY <1>1, <1>2, <1>3, <1>4, <1>5, <1>6, <1>7, HolderStep

(* Without a hook the path becomes complete.                               *)
LEMMA NoHookPreserves ==
    ASSUME OpInv, UNCHANGED readVars, NEW p \in Proc, NoHook(p)
    PROVE  OpInv' /\ killed \subseteq killed'
  <1>1. Inside(pc[p]) /\ lock' = lock /\ killed \subseteq killed'
    BY DEF NoHook, Goto, Return, Inside
  <1>2. PICK l \in PcState : pc' = [pc EXCEPT ![p] = l] /\ Inside(l)
    BY DEF NoHook, Goto, Return, PcState, Inside, OpInv, OpTypeOK, Request
  <1>3. OpTypeOK'
    BY <1>2, MaxOpsAssumption DEF NoHook, Goto, Return, OpInv, OpTypeOK, DirState, Request
  <1>4. HalfDoneIsMarked'
    BY DEF NoHook, Goto, Return, OpInv, OpTypeOK, HalfDoneIsMarked, HalfDone, AtStep, Request
  <1>5. AtStep(p)'
    BY DEF NoHook, Goto, Return, OpInv, OpTypeOK, HalfDoneIsMarked, HalfDone, AtStep, Intact, Request, DirState
  <1>6. Reported(p)'
    BY DEF NoHook, Goto, Return, OpInv, OpTypeOK, HalfDoneIsMarked, HalfDone, AtStep, Intact, Request, Reported, DirState
  <1>7. TokenHasHook'
    BY <1>1, Alone DEF NoHook, Goto, Return, OpInv, OpTypeOK, TokenHasHook, HookRuns, Inside
  <1>. QED
    BY <1>1, <1>2, <1>3, <1>4, <1>5, <1>6, <1>7, HolderStep

(* The path is half removed under the marker.                              *)
LEMMA RemoveBeginsPreserves ==
    ASSUME OpInv, UNCHANGED readVars, NEW p \in Proc, RemoveBegins(p)
    PROVE  OpInv' /\ killed \subseteq killed'
  <1>1. Inside(pc[p]) /\ lock' = lock /\ killed \subseteq killed'
    BY DEF RemoveBegins, Goto, Return, Inside
  <1>2. PICK l \in PcState : pc' = [pc EXCEPT ![p] = l] /\ Inside(l)
    BY DEF RemoveBegins, Goto, Return, PcState, Inside, OpInv, OpTypeOK, Request
  <1>3. OpTypeOK'
    BY <1>2, MaxOpsAssumption DEF RemoveBegins, Goto, Return, OpInv, OpTypeOK, DirState, Request
  <1>4. HalfDoneIsMarked'
    BY DEF RemoveBegins, Goto, Return, OpInv, OpTypeOK, HalfDoneIsMarked, HalfDone, AtStep, Request
  <1>5. AtStep(p)'
    BY DEF RemoveBegins, Goto, Return, OpInv, OpTypeOK, HalfDoneIsMarked, HalfDone, AtStep, Intact, Request, DirState
  <1>6. Reported(p)'
    BY DEF RemoveBegins, Goto, Return, OpInv, OpTypeOK, HalfDoneIsMarked, HalfDone, AtStep, Intact, Request, Reported, DirState
  <1>7. TokenHasHook'
    BY <1>1, Alone DEF RemoveBegins, Goto, Return, OpInv, OpTypeOK, TokenHasHook, HookRuns, Inside
  <1>. QED
    BY <1>1, <1>2, <1>3, <1>4, <1>5, <1>6, <1>7, HolderStep

(* The path is half removed and, without a marker, orphaned.               *)
LEMMA LinkRemovePreserves ==
    ASSUME OpInv, UNCHANGED readVars, NEW p \in Proc, LinkRemove(p)
    PROVE  OpInv' /\ killed \subseteq killed'
  <1>1. Inside(pc[p]) /\ lock' = lock /\ killed \subseteq killed'
    BY DEF LinkRemove, Gut, Goto, Return, Inside
  <1>2. PICK l \in PcState : pc' = [pc EXCEPT ![p] = l] /\ Inside(l)
    BY DEF LinkRemove, Gut, Goto, Return, PcState, Inside, OpInv, OpTypeOK, Request
  <1>3. OpTypeOK'
    <2>1. dir' \in [Path -> DirState] /\ pc' \in [Proc -> PcState]
      BY <1>2 DEF LinkRemove, Gut, OpInv, OpTypeOK, DirState, Request
    <2>2. orphaned' \subseteq Path /\ ok' \in [Proc -> BOOLEAN]
      BY DEF LinkRemove, Gut, Return, OpInv, OpTypeOK, Request
    <2>. QED
      BY <2>1, <2>2, MaxOpsAssumption DEF LinkRemove, Gut, OpInv, OpTypeOK
  <1>4. HalfDoneIsMarked'
    BY DEF LinkRemove, Gut, Goto, Return, OpInv, OpTypeOK, HalfDoneIsMarked, HalfDone, AtStep, Request
  <1>5. AtStep(p)'
    BY DEF LinkRemove, Gut, Goto, Return, OpInv, OpTypeOK, HalfDoneIsMarked, HalfDone, AtStep, Intact, Request, DirState
  <1>6. Reported(p)'
    BY DEF LinkRemove, Gut, Goto, Return, OpInv, OpTypeOK, HalfDoneIsMarked, HalfDone, AtStep, Intact, Request, Reported, DirState
  <1>7. TokenHasHook'
    BY <1>1, Alone DEF LinkRemove, Gut, Goto, Return, OpInv, OpTypeOK, TokenHasHook, HookRuns, Inside
  <1>. QED
    BY <1>1, <1>2, <1>3, <1>4, <1>5, <1>6, <1>7, HolderStep

(* The path is made under the marker.                                      *)
LEMMA MakePreserves ==
    ASSUME OpInv, UNCHANGED readVars, NEW p \in Proc, NEW d \in {"absent", "partial"}, Make(p, d)
    PROVE  OpInv' /\ killed \subseteq killed'
  <1>1. Inside(pc[p]) /\ lock' = lock /\ killed \subseteq killed'
    BY DEF Make, Goto, Return, Inside
  <1>2. PICK l \in PcState : pc' = [pc EXCEPT ![p] = l] /\ Inside(l)
    BY DEF Make, Goto, Return, PcState, Inside, OpInv, OpTypeOK, Request
  <1>3. OpTypeOK'
    BY <1>2, MaxOpsAssumption DEF Make, Goto, Return, OpInv, OpTypeOK, DirState, Request
  <1>4. HalfDoneIsMarked'
    BY DEF Make, Goto, Return, OpInv, OpTypeOK, HalfDoneIsMarked, HalfDone, AtStep, Request
  <1>5. AtStep(p)'
    BY DEF Make, Goto, Return, OpInv, OpTypeOK, HalfDoneIsMarked, HalfDone, AtStep, Intact, Request, DirState
  <1>6. Reported(p)'
    BY DEF Make, Goto, Return, OpInv, OpTypeOK, HalfDoneIsMarked, HalfDone, AtStep, Intact, Request, Reported, DirState
  <1>7. TokenHasHook'
    BY <1>1, Alone DEF Make, Goto, Return, OpInv, OpTypeOK, TokenHasHook, HookRuns, Inside
  <1>. QED
    BY <1>1, <1>2, <1>3, <1>4, <1>5, <1>6, <1>7, HolderStep

(* The path is filled, or removed, under the marker.                       *)
LEMMA FillPreserves ==
    ASSUME OpInv, UNCHANGED readVars, NEW p \in Proc, NEW d \in {"absent", "partial", "filled"}, Fill(p, d)
    PROVE  OpInv' /\ killed \subseteq killed'
  <1>1. Inside(pc[p]) /\ lock' = lock /\ killed \subseteq killed'
    BY DEF Fill, Goto, Return, Inside
  <1>2. PICK l \in PcState : pc' = [pc EXCEPT ![p] = l] /\ Inside(l)
    BY DEF Fill, Goto, Return, PcState, Inside, OpInv, OpTypeOK, Request
  <1>3. OpTypeOK'
    BY <1>2, MaxOpsAssumption DEF Fill, Goto, Return, OpInv, OpTypeOK, DirState, Request
  <1>4. HalfDoneIsMarked'
    BY DEF Fill, Goto, Return, OpInv, OpTypeOK, HalfDoneIsMarked, HalfDone, AtStep, Request
  <1>5. AtStep(p)'
    BY DEF Fill, Goto, Return, OpInv, OpTypeOK, HalfDoneIsMarked, HalfDone, AtStep, Intact, Request, DirState
  <1>6. Reported(p)'
    BY DEF Fill, Goto, Return, OpInv, OpTypeOK, HalfDoneIsMarked, HalfDone, AtStep, Intact, Request, Reported, DirState
  <1>7. TokenHasHook'
    BY <1>1, Alone DEF Fill, Goto, Return, OpInv, OpTypeOK, TokenHasHook, HookRuns, Inside
  <1>. QED
    BY <1>1, <1>2, <1>3, <1>4, <1>5, <1>6, <1>7, HolderStep

(* Marking leaves no path orphaned.                                        *)
LEMMA MarkInstallPreserves ==
    ASSUME OpInv, UNCHANGED readVars, NEW p \in Proc, NEW good \in BOOLEAN, MarkInstall(p, good)
    PROVE  OpInv' /\ killed \subseteq killed'
  <1>1. Inside(pc[p]) /\ lock' = lock /\ killed \subseteq killed'
    BY DEF MarkInstall, Mark, Goto, Return, Inside
  <1>2. PICK l \in PcState : pc' = [pc EXCEPT ![p] = l] /\ Inside(l)
    BY DEF MarkInstall, Mark, Goto, Return, PcState, Inside, OpInv, OpTypeOK, Request
  <1>3. OpTypeOK'
    BY <1>2, MaxOpsAssumption DEF MarkInstall, Mark, Goto, Return, OpInv, OpTypeOK, DirState, Request
  <1>4. HalfDoneIsMarked'
    BY DEF MarkInstall, Mark, Goto, Return, OpInv, OpTypeOK, HalfDoneIsMarked, HalfDone, AtStep, Request
  <1>5. AtStep(p)'
    BY DEF MarkInstall, Mark, Goto, Return, OpInv, OpTypeOK, HalfDoneIsMarked, HalfDone, AtStep, Intact, Request, DirState
  <1>6. Reported(p)'
    BY DEF MarkInstall, Mark, Goto, Return, OpInv, OpTypeOK, HalfDoneIsMarked, HalfDone, AtStep, Intact, Request, Reported, DirState
  <1>7. TokenHasHook'
    BY <1>1, Alone DEF MarkInstall, Mark, Goto, Return, OpInv, OpTypeOK, TokenHasHook, HookRuns, Inside
  <1>. QED
    BY <1>1, <1>2, <1>3, <1>4, <1>5, <1>6, <1>7, HolderStep

(* The marker goes after the path.                                         *)
LEMMA GiveUpPreserves ==
    ASSUME OpInv, UNCHANGED readVars, NEW p \in Proc, NEW good \in BOOLEAN, GiveUp(p, good)
    PROVE  OpInv' /\ killed \subseteq killed'
  <1>1. Inside(pc[p]) /\ lock' = lock /\ killed \subseteq killed'
    BY DEF GiveUp, Unmark, Goto, Return, Inside
  <1>2. PICK l \in PcState : pc' = [pc EXCEPT ![p] = l] /\ Inside(l)
    BY DEF GiveUp, Unmark, Goto, Return, PcState, Inside, OpInv, OpTypeOK, Request
  <1>3. OpTypeOK'
    <2>1. marker' \in BOOLEAN /\ orphaned' \subseteq Path
      BY DEF GiveUp, Unmark, OpInv, OpTypeOK
    <2>. QED
      BY <1>2, <2>1 DEF GiveUp, Return, Goto, OpInv, OpTypeOK
  <1>4. HalfDoneIsMarked'
    BY DEF GiveUp, Unmark, Goto, Return, OpInv, OpTypeOK, HalfDoneIsMarked, HalfDone, AtStep, Request
  <1>5. AtStep(p)'
    BY DEF GiveUp, Unmark, Goto, Return, OpInv, OpTypeOK, HalfDoneIsMarked, HalfDone, AtStep, Intact, Request, DirState
  <1>6. Reported(p)'
    BY DEF GiveUp, Unmark, Goto, Return, OpInv, OpTypeOK, HalfDoneIsMarked, HalfDone, AtStep, Intact, Request, Reported, DirState
  <1>7. TokenHasHook'
    BY <1>1, Alone DEF GiveUp, Unmark, Goto, Return, OpInv, OpTypeOK, TokenHasHook, HookRuns, Inside
  <1>. QED
    BY <1>1, <1>2, <1>3, <1>4, <1>5, <1>6, <1>7, HolderStep

(* The token is that of the hook that starts.                              *)
LEMMA HookStartPreserves ==
    ASSUME OpInv, UNCHANGED readVars, NEW p \in Proc, NEW good \in BOOLEAN, HookStart(p, good)
    PROVE  OpInv' /\ killed \subseteq killed'
  <1>1. Inside(pc[p]) /\ lock' = lock /\ killed \subseteq killed'
    BY DEF HookStart, Goto, Return, Inside
  <1>2. PICK l \in PcState : pc' = [pc EXCEPT ![p] = l] /\ Inside(l)
    BY DEF HookStart, Goto, Return, PcState, Inside, OpInv, OpTypeOK, Request
  <1>3. OpTypeOK'
    <2>1. my[p] \in 0..MaxOps /\ op[p].path \in Path
      BY DEF OpInv, OpTypeOK, Request
    <2>2. issued' \subseteq (0..MaxOps) \X Path
      <3>1. <<my[p], op[p].path>> \in (0..MaxOps) \X Path
        BY <2>1
      <3>2. issued \subseteq (0..MaxOps) \X Path
        BY DEF OpInv, OpTypeOK
      <3>3. issued' = issued \/ issued' = issued \cup {<<my[p], op[p].path>>}
        BY DEF HookStart
      <3>. QED
        BY <3>1, <3>2, <3>3
    <2>3. token' \in 0..MaxOps
      BY <2>1 DEF HookStart, OpInv, OpTypeOK
    <2>. QED
      BY <1>2, <2>2, <2>3 DEF HookStart, Return, Goto, OpInv, OpTypeOK
  <1>4. HalfDoneIsMarked'
    BY DEF HookStart, Goto, Return, OpInv, OpTypeOK, HalfDoneIsMarked, HalfDone, AtStep, Request
  <1>5. AtStep(p)'
    BY DEF HookStart, Goto, Return, OpInv, OpTypeOK, HalfDoneIsMarked, HalfDone, AtStep, Intact, Request, DirState
  <1>6. Reported(p)'
    BY DEF HookStart, Goto, Return, OpInv, OpTypeOK, HalfDoneIsMarked, HalfDone, AtStep, Intact, Request, Reported, DirState
  <1>7. TokenHasHook'
    BY <1>1, Alone DEF HookStart, Goto, Return, OpInv, OpTypeOK, TokenHasHook, HookRuns, Inside
  <1>. QED
    BY <1>1, <1>2, <1>3, <1>4, <1>5, <1>6, <1>7, HolderStep

(* The hook exits and its token is still there.                            *)
LEMMA HookExitsPreserves ==
    ASSUME OpInv, UNCHANGED readVars, NEW p \in Proc, NEW good \in BOOLEAN, HookExits(p, good)
    PROVE  OpInv' /\ killed \subseteq killed'
  <1>1. Inside(pc[p]) /\ lock' = lock /\ killed \subseteq killed'
    BY DEF HookExits, Goto, Return, Inside
  <1>2. PICK l \in PcState : pc' = [pc EXCEPT ![p] = l] /\ Inside(l)
    BY DEF HookExits, Goto, Return, PcState, Inside, OpInv, OpTypeOK, Request
  <1>3. OpTypeOK'
    BY <1>2, MaxOpsAssumption DEF HookExits, Goto, Return, OpInv, OpTypeOK, DirState, Request
  <1>4. HalfDoneIsMarked'
    BY DEF HookExits, Goto, Return, OpInv, OpTypeOK, HalfDoneIsMarked, HalfDone, AtStep, Request
  <1>5. AtStep(p)'
    BY DEF HookExits, Goto, Return, OpInv, OpTypeOK, HalfDoneIsMarked, HalfDone, AtStep, Intact, Request, DirState
  <1>6. Reported(p)'
    BY DEF HookExits, Goto, Return, OpInv, OpTypeOK, HalfDoneIsMarked, HalfDone, AtStep, Intact, Request, Reported, DirState
  <1>7. TokenHasHook'
    BY <1>1, Alone DEF HookExits, Goto, Return, OpInv, OpTypeOK, TokenHasHook, HookRuns, Inside
  <1>. QED
    BY <1>1, <1>2, <1>3, <1>4, <1>5, <1>6, <1>7, HolderStep

(* The token goes, or is recorded as outliving its hook.                   *)
LEMMA HookEndPreserves ==
    ASSUME OpInv, UNCHANGED readVars, NEW p \in Proc, NEW good \in BOOLEAN, HookEnd(p, good)
    PROVE  OpInv' /\ killed \subseteq killed'
  <1>1. Inside(pc[p]) /\ lock' = lock /\ killed \subseteq killed'
    BY DEF HookEnd, Goto, Return, Inside
  <1>2. PICK l \in PcState : pc' = [pc EXCEPT ![p] = l] /\ Inside(l)
    BY DEF HookEnd, Goto, Return, PcState, Inside, OpInv, OpTypeOK, Request
  <1>3. OpTypeOK'
    <2>1. my[p] \in 0..MaxOps /\ op[p].path \in Path
      BY DEF OpInv, OpTypeOK, Request
    <2>2. killed' \subseteq 0..MaxOps
      BY <2>1 DEF HookEnd, OpInv, OpTypeOK
    <2>3. token' \in 0..MaxOps
      BY MaxOpsAssumption DEF HookEnd, OpInv, OpTypeOK
    <2>4. dir' \in [Path -> DirState] /\ ok' \in [Proc -> BOOLEAN]
      BY <2>1 DEF HookEnd, Return, Goto, OpInv, OpTypeOK, DirState
    <2>. QED
      BY <1>2, <2>2, <2>3, <2>4 DEF HookEnd, OpInv, OpTypeOK
  <1>4. HalfDoneIsMarked'
    BY DEF HookEnd, Goto, Return, OpInv, OpTypeOK, HalfDoneIsMarked, HalfDone, AtStep, Request
  <1>5. AtStep(p)'
    BY DEF HookEnd, Goto, Return, OpInv, OpTypeOK, HalfDoneIsMarked, HalfDone, AtStep, Intact, Request, DirState
  <1>6. Reported(p)'
    BY DEF HookEnd, Goto, Return, OpInv, OpTypeOK, HalfDoneIsMarked, HalfDone, AtStep, Intact, Request, Reported, DirState
  <1>7. TokenHasHook'
    BY <1>1, Alone DEF HookEnd, Goto, Return, OpInv, OpTypeOK, TokenHasHook, HookRuns, Inside
  <1>. QED
    BY <1>1, <1>2, <1>3, <1>4, <1>5, <1>6, <1>7, HolderStep

(* The marker goes when the path is complete.                              *)
LEMMA ClearPreserves ==
    ASSUME OpInv, UNCHANGED readVars, NEW p \in Proc, NEW good \in BOOLEAN, Clear(p, good)
    PROVE  OpInv' /\ killed \subseteq killed'
  <1>1. Inside(pc[p]) /\ lock' = lock /\ killed \subseteq killed'
    BY DEF Clear, Unmark, Goto, Return, Inside
  <1>2. PICK l \in PcState : pc' = [pc EXCEPT ![p] = l] /\ Inside(l)
    BY DEF Clear, Unmark, Goto, Return, PcState, Inside, OpInv, OpTypeOK, Request
  <1>3. OpTypeOK'
    BY <1>2, MaxOpsAssumption DEF Clear, Unmark, Goto, Return, OpInv, OpTypeOK, DirState, Request
  <1>4. HalfDoneIsMarked'
    BY DEF Clear, Unmark, Goto, Return, OpInv, OpTypeOK, HalfDoneIsMarked, HalfDone, AtStep, Request
  <1>5. AtStep(p)'
    BY DEF Clear, Unmark, Goto, Return, OpInv, OpTypeOK, HalfDoneIsMarked, HalfDone, AtStep, Intact, Request, DirState
  <1>6. Reported(p)'
    BY DEF Clear, Unmark, Goto, Return, OpInv, OpTypeOK, HalfDoneIsMarked, HalfDone, AtStep, Intact, Request, Reported, DirState
  <1>7. TokenHasHook'
    BY <1>1, Alone DEF Clear, Unmark, Goto, Return, OpInv, OpTypeOK, TokenHasHook, HookRuns, Inside
  <1>. QED
    BY <1>1, <1>2, <1>3, <1>4, <1>5, <1>6, <1>7, HolderStep

(* The backend half removes the path, which without a marker is orphaned.  *)
LEMMA BackendRemovesPreserves ==
    ASSUME OpInv, UNCHANGED readVars, NEW p \in Proc, BackendRemoves(p)
    PROVE  OpInv' /\ killed \subseteq killed'
  <1>1. Inside(pc[p]) /\ lock' = lock /\ killed \subseteq killed'
    BY DEF BackendRemoves, Gut, Goto, Return, Inside
  <1>2. PICK l \in PcState : pc' = [pc EXCEPT ![p] = l] /\ Inside(l)
    BY DEF BackendRemoves, Gut, Goto, Return, PcState, Inside, OpInv, OpTypeOK, Request
  <1>3. OpTypeOK'
    <2>1. dir' \in [Path -> DirState] /\ orphaned' \subseteq Path
      BY DEF BackendRemoves, Gut, Goto, Return, OpInv, OpTypeOK, DirState, Request
    <2>2. pc' \in [Proc -> PcState] /\ ok' \in [Proc -> BOOLEAN]
      BY <1>2 DEF BackendRemoves, Gut, Goto, Return, OpInv, OpTypeOK
    <2>. QED
      BY <2>1, <2>2 DEF BackendRemoves, Gut, Goto, Return, OpInv, OpTypeOK
  <1>4. HalfDoneIsMarked'
    BY DEF BackendRemoves, Gut, Goto, Return, OpInv, OpTypeOK, HalfDoneIsMarked, HalfDone, Request
  <1>5. AtStep(p)'
    BY DEF BackendRemoves, Gut, Goto, Return, OpInv, OpTypeOK, AtStep, Request
  <1>6. Reported(p)'
    BY DEF BackendRemoves, Gut, Goto, Return, OpInv, OpTypeOK, Reported
  <1>7. TokenHasHook'
    BY <1>1, Alone DEF BackendRemoves, Gut, Goto, Return, OpInv, OpTypeOK, TokenHasHook, HookRuns, Inside
  <1>. QED
    BY <1>1, <1>2, <1>3, <1>4, <1>5, <1>6, <1>7, HolderStep

(* The backend leaves the path as it is, or removes the rest of it.        *)
LEMMA BackendUninstalledPreserves ==
    ASSUME OpInv, UNCHANGED readVars, NEW p \in Proc, NEW gone \in BOOLEAN, NEW good \in BOOLEAN,
           BackendUninstalled(p, gone, good)
    PROVE  OpInv' /\ killed \subseteq killed'
  <1>1. Inside(pc[p]) /\ lock' = lock /\ killed \subseteq killed'
    BY DEF BackendUninstalled, Gone, Goto, Return, Inside
  <1>2. PICK l \in PcState : pc' = [pc EXCEPT ![p] = l] /\ Inside(l)
    BY DEF BackendUninstalled, Gone, Goto, Return, PcState, Inside, OpInv, OpTypeOK, Request
  <1>3. OpTypeOK'
    <2>1. dir' \in [Path -> DirState] /\ orphaned' \subseteq Path
      BY DEF BackendUninstalled, Gone, Goto, Return, OpInv, OpTypeOK, DirState, Request
    <2>2. pc' \in [Proc -> PcState] /\ ok' \in [Proc -> BOOLEAN]
      BY <1>2 DEF BackendUninstalled, Gone, Goto, Return, OpInv, OpTypeOK
    <2>. QED
      BY <2>1, <2>2 DEF BackendUninstalled, Gone, Goto, Return, OpInv, OpTypeOK
  <1>4. HalfDoneIsMarked'
    BY DEF BackendUninstalled, Gone, Goto, Return, OpInv, OpTypeOK, HalfDoneIsMarked, HalfDone, Request
  <1>5. AtStep(p)'
    BY DEF BackendUninstalled, Gone, Goto, Return, OpInv, OpTypeOK, AtStep, Request
  <1>6. Reported(p)'
    BY DEF BackendUninstalled, Gone, Goto, Return, OpInv, OpTypeOK, Reported
  <1>7. TokenHasHook'
    BY <1>1, Alone DEF BackendUninstalled, Gone, Goto, Return, OpInv, OpTypeOK, TokenHasHook, HookRuns, Inside
  <1>. QED
    BY <1>1, <1>2, <1>3, <1>4, <1>5, <1>6, <1>7, HolderStep

(* Marking leaves no path orphaned.                                        *)
LEMMA MarkRemovalPreserves ==
    ASSUME OpInv, UNCHANGED readVars, NEW p \in Proc, NEW good \in BOOLEAN, MarkRemoval(p, good)
    PROVE  OpInv' /\ killed \subseteq killed'
  <1>1. Inside(pc[p]) /\ lock' = lock /\ killed \subseteq killed'
    BY DEF MarkRemoval, Mark, Goto, Return, Inside
  <1>2. PICK l \in PcState : pc' = [pc EXCEPT ![p] = l] /\ Inside(l)
    BY DEF MarkRemoval, Mark, Goto, Return, PcState, Inside, OpInv, OpTypeOK, Request
  <1>3. OpTypeOK'
    BY <1>2, MaxOpsAssumption DEF MarkRemoval, Mark, Goto, Return, OpInv, OpTypeOK, DirState, Request
  <1>4. HalfDoneIsMarked'
    BY DEF MarkRemoval, Mark, Goto, Return, OpInv, OpTypeOK, HalfDoneIsMarked, HalfDone, AtStep, Request
  <1>5. AtStep(p)'
    BY DEF MarkRemoval, Mark, Goto, Return, OpInv, OpTypeOK, HalfDoneIsMarked, HalfDone, AtStep, Intact, Request, DirState
  <1>6. Reported(p)'
    BY DEF MarkRemoval, Mark, Goto, Return, OpInv, OpTypeOK, HalfDoneIsMarked, HalfDone, AtStep, Intact, Request, Reported, DirState
  <1>7. TokenHasHook'
    BY <1>1, Alone DEF MarkRemoval, Mark, Goto, Return, OpInv, OpTypeOK, TokenHasHook, HookRuns, Inside
  <1>. QED
    BY <1>1, <1>2, <1>3, <1>4, <1>5, <1>6, <1>7, HolderStep

(* The path is gone, or half removed under the marker.                     *)
LEMMA RemoveEndsPreserves ==
    ASSUME OpInv, UNCHANGED readVars, NEW p \in Proc, NEW good \in BOOLEAN, RemoveEnds(p, good)
    PROVE  OpInv' /\ killed \subseteq killed'
  <1>1. Inside(pc[p]) /\ lock' = lock /\ killed \subseteq killed'
    BY DEF RemoveEnds, Goto, Return, Inside
  <1>2. PICK l \in PcState : pc' = [pc EXCEPT ![p] = l] /\ Inside(l)
    BY DEF RemoveEnds, Goto, Return, PcState, Inside, OpInv, OpTypeOK, Request
  <1>3. OpTypeOK'
    BY <1>2, MaxOpsAssumption DEF RemoveEnds, Goto, Return, OpInv, OpTypeOK, DirState, Request
  <1>4. HalfDoneIsMarked'
    BY DEF RemoveEnds, Goto, Return, OpInv, OpTypeOK, HalfDoneIsMarked, HalfDone, AtStep, Request
  <1>5. AtStep(p)'
    BY DEF RemoveEnds, Goto, Return, OpInv, OpTypeOK, HalfDoneIsMarked, HalfDone, AtStep, Intact, Request, DirState
  <1>6. Reported(p)'
    BY DEF RemoveEnds, Goto, Return, OpInv, OpTypeOK, HalfDoneIsMarked, HalfDone, AtStep, Intact, Request, Reported, DirState
  <1>7. TokenHasHook'
    BY <1>1, Alone DEF RemoveEnds, Goto, Return, OpInv, OpTypeOK, TokenHasHook, HookRuns, Inside
  <1>. QED
    BY <1>1, <1>2, <1>3, <1>4, <1>5, <1>6, <1>7, HolderStep

(* The marker goes after the path.                                         *)
LEMMA ClearRemovalPreserves ==
    ASSUME OpInv, UNCHANGED readVars, NEW p \in Proc, NEW good \in BOOLEAN, ClearRemoval(p, good)
    PROVE  OpInv' /\ killed \subseteq killed'
  <1>1. Inside(pc[p]) /\ lock' = lock /\ killed \subseteq killed'
    BY DEF ClearRemoval, Unmark, Goto, Return, Inside
  <1>2. PICK l \in PcState : pc' = [pc EXCEPT ![p] = l] /\ Inside(l)
    BY DEF ClearRemoval, Unmark, Goto, Return, PcState, Inside, OpInv, OpTypeOK, Request
  <1>3. OpTypeOK'
    BY <1>2, MaxOpsAssumption DEF ClearRemoval, Unmark, Goto, Return, OpInv, OpTypeOK, DirState, Request
  <1>4. HalfDoneIsMarked'
    BY DEF ClearRemoval, Unmark, Goto, Return, OpInv, OpTypeOK, HalfDoneIsMarked, HalfDone, AtStep, Request
  <1>5. AtStep(p)'
    BY DEF ClearRemoval, Unmark, Goto, Return, OpInv, OpTypeOK, HalfDoneIsMarked, HalfDone, AtStep, Intact, Request, DirState
  <1>6. Reported(p)'
    BY DEF ClearRemoval, Unmark, Goto, Return, OpInv, OpTypeOK, HalfDoneIsMarked, HalfDone, AtStep, Intact, Request, Reported, DirState
  <1>7. TokenHasHook'
    BY <1>1, Alone DEF ClearRemoval, Unmark, Goto, Return, OpInv, OpTypeOK, TokenHasHook, HookRuns, Inside
  <1>. QED
    BY <1>1, <1>2, <1>3, <1>4, <1>5, <1>6, <1>7, HolderStep

(* The path is gone, or stays half removed and orphaned.                   *)
LEMMA LinkRemovedPreserves ==
    ASSUME OpInv, UNCHANGED readVars, NEW p \in Proc, NEW good \in BOOLEAN, LinkRemoved(p, good)
    PROVE  OpInv' /\ killed \subseteq killed'
  <1>1. Inside(pc[p]) /\ lock' = lock /\ killed \subseteq killed'
    BY DEF LinkRemoved, Gone, Goto, Return, Inside
  <1>2. PICK l \in PcState : pc' = [pc EXCEPT ![p] = l] /\ Inside(l)
    BY DEF LinkRemoved, Gone, Goto, Return, PcState, Inside, OpInv, OpTypeOK, Request
  <1>3. OpTypeOK'
    BY <1>2, MaxOpsAssumption DEF LinkRemoved, Gone, Goto, Return, OpInv, OpTypeOK, DirState, Request
  <1>4. HalfDoneIsMarked'
    BY DEF LinkRemoved, Gone, Goto, Return, OpInv, OpTypeOK, HalfDoneIsMarked, HalfDone, AtStep, Request
  <1>5. AtStep(p)'
    BY DEF LinkRemoved, Gone, Goto, Return, OpInv, OpTypeOK, HalfDoneIsMarked, HalfDone, AtStep, Intact, Request, DirState
  <1>6. Reported(p)'
    BY DEF LinkRemoved, Gone, Goto, Return, OpInv, OpTypeOK, HalfDoneIsMarked, HalfDone, AtStep, Intact, Request, Reported, DirState
  <1>7. TokenHasHook'
    BY <1>1, Alone DEF LinkRemoved, Gone, Goto, Return, OpInv, OpTypeOK, TokenHasHook, HookRuns, Inside
  <1>. QED
    BY <1>1, <1>2, <1>3, <1>4, <1>5, <1>6, <1>7, HolderStep

(* The link makes the path complete.                                       *)
LEMMA MakeLinkPreserves ==
    ASSUME OpInv, UNCHANGED readVars, NEW p \in Proc, NEW good \in BOOLEAN, MakeLink(p, good)
    PROVE  OpInv' /\ killed \subseteq killed'
  <1>1. Inside(pc[p]) /\ lock' = lock /\ killed \subseteq killed'
    BY DEF MakeLink, Goto, Return, Inside
  <1>2. PICK l \in PcState : pc' = [pc EXCEPT ![p] = l] /\ Inside(l)
    BY DEF MakeLink, Goto, Return, PcState, Inside, OpInv, OpTypeOK, Request
  <1>3. OpTypeOK'
    <2>1. dir' \in [Path -> DirState] /\ pc' \in [Proc -> PcState]
      BY <1>2 DEF MakeLink, OpInv, OpTypeOK, DirState, Request
    <2>2. ok' \in [Proc -> BOOLEAN]
      BY DEF MakeLink, Return, OpInv, OpTypeOK, Request
    <2>. QED
      BY <2>1, <2>2, MaxOpsAssumption DEF MakeLink, OpInv, OpTypeOK
  <1>4. HalfDoneIsMarked'
    BY DEF MakeLink, Goto, Return, OpInv, OpTypeOK, HalfDoneIsMarked, HalfDone, AtStep, Request
  <1>5. AtStep(p)'
    BY DEF MakeLink, Goto, Return, OpInv, OpTypeOK, HalfDoneIsMarked, HalfDone, AtStep, Intact, Request, DirState
  <1>6. Reported(p)'
    BY DEF MakeLink, Goto, Return, OpInv, OpTypeOK, HalfDoneIsMarked, HalfDone, AtStep, Intact, Request, Reported, DirState
  <1>7. TokenHasHook'
    BY <1>1, Alone DEF MakeLink, Goto, Return, OpInv, OpTypeOK, TokenHasHook, HookRuns, Inside
  <1>. QED
    BY <1>1, <1>2, <1>3, <1>4, <1>5, <1>6, <1>7, HolderStep

(* The marker goes when the path is complete.                              *)
LEMMA ClearLinkPreserves ==
    ASSUME OpInv, UNCHANGED readVars, NEW p \in Proc, NEW good \in BOOLEAN, ClearLink(p, good)
    PROVE  OpInv' /\ killed \subseteq killed'
  <1>1. Inside(pc[p]) /\ lock' = lock /\ killed \subseteq killed'
    BY DEF ClearLink, Unmark, Goto, Return, Inside
  <1>2. PICK l \in PcState : pc' = [pc EXCEPT ![p] = l] /\ Inside(l)
    BY DEF ClearLink, Unmark, Goto, Return, PcState, Inside, OpInv, OpTypeOK, Request
  <1>3. OpTypeOK'
    BY <1>2, MaxOpsAssumption DEF ClearLink, Unmark, Goto, Return, OpInv, OpTypeOK, DirState, Request
  <1>4. HalfDoneIsMarked'
    BY DEF ClearLink, Unmark, Goto, Return, OpInv, OpTypeOK, HalfDoneIsMarked, HalfDone, AtStep, Request
  <1>5. AtStep(p)'
    BY DEF ClearLink, Unmark, Goto, Return, OpInv, OpTypeOK, HalfDoneIsMarked, HalfDone, AtStep, Intact, Request, DirState
  <1>6. Reported(p)'
    BY DEF ClearLink, Unmark, Goto, Return, OpInv, OpTypeOK, HalfDoneIsMarked, HalfDone, AtStep, Intact, Request, Reported, DirState
  <1>7. TokenHasHook'
    BY <1>1, Alone DEF ClearLink, Unmark, Goto, Return, OpInv, OpTypeOK, TokenHasHook, HookRuns, Inside
  <1>. QED
    BY <1>1, <1>2, <1>3, <1>4, <1>5, <1>6, <1>7, HolderStep

(* A step that leaves dir, marker and orphaned alone and brings p before   *)
(* the lock keeps what the others know.                                    *)
LEMMA OthersKeep ==
    ASSUME OpInv, NEW p \in Proc, NEW q \in Proc \ {p}, UNCHANGED <<dir, marker, orphaned>>,
           pc'[q] = pc[q], op'[q] = op[q], fresh'[q] = fresh[q], ok'[q] = ok[q]
    PROVE  AtStep(q)' /\ Reported(q)'
  <1>1. AtStep(q) /\ Reported(q)
    BY DEF OpInv, ReportedIsReal
  <1>. QED
    BY <1>1 DEF AtStep, Reported, Intact

(* The lock is taken when nobody is past it.                               *)
LEMMA TakeLockPreserves ==
    ASSUME OpInv, UNCHANGED readVars, NEW p \in Proc, TakeLock(p)
    PROVE  OpInv' /\ killed \subseteq killed'
  <1>. USE DEF TakeLock, Goto
  <1>1. \A q \in Proc : ~Inside(pc[q])
    BY ProcAssumption DEF OpInv, OneHolder, Inside
  <1>2. OneHolder'
    BY <1>1, ProcAssumption DEF OpInv, OneHolder, OpTypeOK, Inside, readVars
  <1>3. OpTypeOK'
    BY DEF OpInv, OpTypeOK, PcState
  <1>4. HalfDoneIsMarked'
    BY DEF OpInv, HalfDoneIsMarked, HalfDone
  <1>5. ASSUME NEW q \in Proc PROVE AtStep(q)' /\ Reported(q)'
    <2>1. CASE q = p
      BY <2>1 DEF AtStep, Reported, OpInv, OpTypeOK
    <2>2. CASE q # p
      BY <2>2, OthersKeep DEF OpInv, OpTypeOK
    <2>. QED
      BY <2>1, <2>2
  <1>6. TokenHasHook'
    BY <1>1 DEF OpInv, OpTypeOK, TokenHasHook, HookRuns, Inside
  <1>. QED
    BY <1>2, <1>3, <1>4, <1>5, <1>6 DEF OpInv, ReportedIsReal

(* A new operation is before the lock.                                     *)
LEMMA StartPreserves ==
    ASSUME OpInv, UNCHANGED readVars, NEW p \in Proc, NEW r \in Requests, Start(p, r)
    PROVE  OpInv' /\ killed \subseteq killed'
  <1>. USE DEF Start, Goto
  <1>1. OneHolder'
    BY DEF OpInv, OneHolder, OpTypeOK, readVars
  <1>2. OpTypeOK'
    <2>1. ops' \in 0..MaxOps
      BY MaxOpsAssumption DEF OpInv, OpTypeOK
    <2>2. op' \in [Proc -> Request]
      BY RequestAssumption DEF OpInv, OpTypeOK
    <2>3. my' \in [Proc -> 0..MaxOps]
      BY <2>1 DEF OpInv, OpTypeOK
    <2>. QED
      BY <2>1, <2>2, <2>3 DEF OpInv, OpTypeOK, PcState
  <1>3. HalfDoneIsMarked'
    BY DEF OpInv, HalfDoneIsMarked, HalfDone
  <1>4. ASSUME NEW q \in Proc PROVE AtStep(q)' /\ Reported(q)'
    <2>1. CASE q = p
      BY <2>1 DEF AtStep, Reported, OpInv, OpTypeOK
    <2>2. CASE q # p
      BY <2>2, OthersKeep DEF OpInv, OpTypeOK
    <2>. QED
      BY <2>1, <2>2
  <1>5. TokenHasHook'
    BY DEF OpInv, OpTypeOK, TokenHasHook, HookRuns
  <1>. QED
    BY <1>1, <1>2, <1>3, <1>4, <1>5 DEF OpInv, ReportedIsReal

(* Kill, and Release, which is a kill that the process wants.              *)
LEMMA IdlePreserves ==
    ASSUME OpInv, UNCHANGED <<readVars, marker, dir, orphaned, ops, issued, token>>,
           NEW p \in Proc, Idle(p),
           lock' = IF lock = p THEN Free ELSE lock,
           killed' = IF pc[p] \in {"hook", "hookEnd"} THEN killed \cup {my[p]} ELSE killed
    PROVE  OpInv' /\ killed \subseteq killed'
  <1>. USE DEF Idle, Goto
  <1>1. OneHolder'
    BY ProcAssumption DEF OpInv, OneHolder, OpTypeOK, readVars
  <1>2. OpTypeOK'
    <2>1. killed' \subseteq 0..MaxOps
      BY DEF OpInv, OpTypeOK
    <2>2. op' \in [Proc -> Request]
      BY NoRequestIs DEF OpInv, OpTypeOK
    <2>3. my' \in [Proc -> 0..MaxOps]
      BY MaxOpsAssumption DEF OpInv, OpTypeOK
    <2>4. pc' \in [Proc -> PcState]
      BY DEF OpInv, OpTypeOK, PcState
    <2>. QED
      BY <2>1, <2>2, <2>3, <2>4 DEF OpInv, OpTypeOK
  <1>3. HalfDoneIsMarked'
    BY DEF OpInv, HalfDoneIsMarked, HalfDone
  <1>4. ASSUME NEW q \in Proc PROVE AtStep(q)' /\ Reported(q)'
    <2>1. CASE q = p
      BY <2>1 DEF AtStep, Reported, OpInv, OpTypeOK
    <2>2. CASE q # p
      BY <2>2, OthersKeep DEF OpInv, OpTypeOK
    <2>. QED
      BY <2>1, <2>2
  <1>5. TokenHasHook'
    BY DEF OpInv, OpTypeOK, TokenHasHook, HookRuns
  <1>. QED
    BY <1>1, <1>2, <1>3, <1>4, <1>5 DEF OpInv, ReportedIsReal

(* The holder ends.                                                        *)
LEMMA ReleasePreserves ==
    ASSUME OpInv, UNCHANGED readVars, NEW p \in Proc, Release(p)
    PROVE  OpInv' /\ killed \subseteq killed'
  <1>1. lock = p
    BY DEF Release, OpInv, OneHolder
  <1>. QED
    BY <1>1, IdlePreserves DEF Release

(* A process is killed.                                                    *)
LEMMA KillPreserves ==
    ASSUME OpInv, UNCHANGED readVars, NEW p \in Proc, Kill(p)
    PROVE  OpInv' /\ killed \subseteq killed'
  BY IdlePreserves DEF Kill

(* A step of an operation keeps the operations' half of the invariant and  *)
(* forgets no token that outlived its hook.                                *)
LEMMA OperationStep ==
    ASSUME OpInv, OpStep, UNCHANGED readVars
    PROVE  OpInv' /\ killed \subseteq killed'
  <1>. SUFFICES ASSUME NEW p \in Proc,
                       Step(p) \/ Kill(p) \/ \E r \in Requests : Start(p, r)
                PROVE  OpInv' /\ killed \subseteq killed'
    BY DEF OpStep
  <1>. QED
    BY TakeLockPreserves, DropStaleTokenPreserves, ReleasePreserves, CheckPreserves,
       NoHookPreserves, BackendRemovesPreserves, BackendUninstalledPreserves,
       RemoveBeginsPreserves, LinkRemovePreserves, MakePreserves,
       FillPreserves, MarkInstallPreserves, GiveUpPreserves, HookStartPreserves,
       HookExitsPreserves, HookEndPreserves, ClearPreserves, MarkRemovalPreserves,
       RemoveEndsPreserves, ClearRemovalPreserves, LinkRemovedPreserves, MakeLinkPreserves,
       ClearLinkPreserves, KillPreserves, StartPreserves DEF Step

-----------------------------------------------------------------------------
(***************************************************************************)
(* The checks.                                                             *)
(***************************************************************************)
CheckInv ==
    /\ CheckTypeOK
    /\ \A c \in Checker : Recorded(c)
    /\ CheckIsHonest
    /\ TokenIsLive

(* What a step of an operation shows to the checks is recorded.            *)
LEMMA ObserveStep ==
    ASSUME OpInv, OpInv', CheckInv, Observe, killed \subseteq killed'
    PROVE  CheckInv'
  <1>. USE DEF Observe, readVars
  <1>1. CheckTypeOK'
    BY DEF CheckInv, CheckTypeOK
  <1>2. ASSUME NEW c \in Checker PROVE Recorded(c)'
    <2>1. /\ ccomplete'[c] = (ccomplete[c] \/ (Checking(c) /\ dir'[cpath[c]] = "complete"))
          /\ ccleared'[c] = (ccleared[c] \/ (Checking(c) /\ marker /\ ~marker'))
          /\ corphaned'[c] = (corphaned[c] \/ (Checking(c) /\ cpath[c] \in orphaned'))
          /\ clive'[c] = (clive[c] \/ (Checking(c) /\ HookRuns(ctok[c])'))
      OBVIOUS
    <2>2. Recorded(c) /\ Checking(c)' = Checking(c)
      BY DEF CheckInv, Checking
    <2>3. Checking(c)' /\ dir'[cpath'[c]] = "complete" => ccomplete'[c]
      BY <2>1, <2>2
    <2>4. Checking(c)' /\ cpath'[c] \in orphaned' => corphaned'[c]
      BY <2>1, <2>2
    <2>5. Checking(c)' /\ HookRuns(ctok[c])' => clive'[c]
      BY <2>1, <2>2
    <2>6. cpc'[c] \in {"token", "probe", "unprobe", "marker"} /\ cexists'[c] /\ ~marker'
            => ccomplete'[c] \/ ccleared'[c] \/ corphaned'[c]
      BY <2>1, <2>2 DEF Recorded, Checking, OpInv, OpTypeOK
    <2>7. (cpc'[c] = "token" => ctok'[c] # 0) /\ (cpc'[c] = "idle" => ~cmatch'[c])
      BY <2>2 DEF Recorded
    <2>8. cpc'[c] = "probe" => ctok'[c] \in killed' \/ clive'[c]
      BY <2>1, <2>2 DEF Recorded
    <2>. QED
      BY <2>3, <2>4, <2>5, <2>6, <2>7, <2>8 DEF Recorded
  <1>3. CheckIsHonest'
    BY DEF CheckInv, CheckIsHonest, CheckTypeOK
  <1>4. TokenIsLive'
    BY DEF CheckInv, TokenIsLive, CheckTypeOK
  <1>. QED
    BY <1>1, <1>2, <1>3, <1>4 DEF CheckInv

(* The other checks keep what they have recorded while c reads.            *)
LEMMA OtherChecks ==
    ASSUME CheckInv, NEW c \in Checker, NEW d \in Checker \ {c},
           UNCHANGED <<marker, dir, token, pc, my, killed, orphaned>>,
           cpc'[d] = cpc[d], cpath'[d] = cpath[d], ctok'[d] = ctok[d], cexists'[d] = cexists[d],
           cmatch'[d] = cmatch[d], ccomplete'[d] = ccomplete[d], ccleared'[d] = ccleared[d],
           corphaned'[d] = corphaned[d], clive'[d] = clive[d]
    PROVE  Recorded(d)'
  <1>1. Recorded(d)
    BY DEF CheckInv
  <1>. QED
    BY <1>1 DEF Recorded, Checking, HookRuns

(* A step of a check that does not touch the lock.                         *)
LEMMA OpsUntouched ==
    ASSUME OpInv, UNCHANGED opVars, \A d \in Checker : cpc'[d] = "unprobe" => cpc[d] = "unprobe"
    PROVE  OpInv'
  <1>1. OneHolder'
    BY DEF OpInv, OneHolder, opVars
  <1>2. OpTypeOK' /\ HalfDoneIsMarked' /\ TokenHasHook'
    BY DEF OpInv, OpTypeOK, HalfDoneIsMarked, HalfDone, TokenHasHook, HookRuns, opVars
  <1>3. ASSUME NEW p \in Proc PROVE AtStep(p)' /\ Reported(p)'
    <2>1. AtStep(p) /\ Reported(p)
      BY DEF OpInv, ReportedIsReal
    <2>. QED
      BY <2>1 DEF AtStep, Reported, Intact, opVars
  <1>. QED
    BY <1>1, <1>2, <1>3 DEF OpInv, ReportedIsReal

(* A check begins by recording what it could see now.                      *)
LEMMA CheckStartPreserves ==
    ASSUME OpInv, CheckInv, NEW c \in Checker, NEW x \in Path, NEW t \in 0..MaxOps,
           CheckStart(c, x, t)
    PROVE  OpInv' /\ CheckInv'
  <1>. USE DEF CheckStart, CGoto
  <1>1. CheckTypeOK'
    <2>1. HookRuns(t) \in BOOLEAN
      BY DEF HookRuns
    <2>2. clive' \in [Checker -> BOOLEAN]
      BY <2>1 DEF CheckInv, CheckTypeOK
    <2>3. ccomplete' \in [Checker -> BOOLEAN] /\ corphaned' \in [Checker -> BOOLEAN]
      BY DEF CheckInv, CheckTypeOK
    <2>. QED
      BY <2>2, <2>3 DEF CheckInv, CheckTypeOK
  <1>2. OpInv'
    BY OpsUntouched DEF CheckInv, CheckTypeOK
  <1>3. ASSUME NEW d \in Checker PROVE Recorded(d)'
    <2>1. CASE d = c
      <3>1. Recorded(c)
        BY DEF CheckInv
      <3>2. UNCHANGED <<dir, orphaned, pc, my, marker, killed>>
        BY DEF opVars
      <3>3. /\ cpc'[c] = "exists" /\ cpath'[c] = x /\ ctok'[c] = t
            /\ ccomplete'[c] = (dir[x] = "complete")
            /\ corphaned'[c] = (x \in orphaned)
            /\ clive'[c] = HookRuns(t)
        BY DEF CheckInv, CheckTypeOK
      <3>4. HookRuns(ctok[c])' => HookRuns(t)
        BY <3>2, <3>3 DEF HookRuns
      <3>5. Checking(c)' /\ HookRuns(ctok[c])' => clive'[c]
        BY <3>3, <3>4
      <3>6. Checking(c)' /\ dir'[cpath'[c]] = "complete" => ccomplete'[c]
        BY <3>2, <3>3
      <3>7. Checking(c)' /\ cpath'[c] \in orphaned' => corphaned'[c]
        BY <3>2, <3>3
      <3>. QED
        BY <2>1, <3>3, <3>5, <3>6, <3>7 DEF Recorded
    <2>2. CASE d # c
      BY <2>2, OtherChecks DEF CheckInv, CheckTypeOK, opVars
    <2>. QED
      BY <2>1, <2>2
  <1>4. CheckIsHonest'
    BY DEF CheckInv, CheckTypeOK, CheckIsHonest
  <1>5. TokenIsLive'
    BY DEF CheckInv, CheckTypeOK, TokenIsLive, Recorded, opVars
  <1>. QED
    BY <1>1, <1>2, <1>3, <1>4, <1>5 DEF CheckInv

(* A path that is there without a marker is complete or orphaned.          *)
LEMMA ReadExistsPreserves ==
    ASSUME OpInv, CheckInv, NEW c \in Checker, ReadExists(c)
    PROVE  OpInv' /\ CheckInv'
  <1>. USE DEF ReadExists, CGoto, seenVars
  <1>1. CheckTypeOK'
    BY DEF CheckInv, CheckTypeOK
  <1>2. OpInv'
    BY OpsUntouched DEF CheckInv, CheckTypeOK
  <1>3. ASSUME NEW d \in Checker PROVE Recorded(d)'
    <2>1. CASE d = c
      <3>1. Recorded(c)
        BY DEF CheckInv
      <3>. QED
        BY <2>1, <3>1 DEF Recorded, Checking, HookRuns, CheckInv, CheckTypeOK, opVars, OpInv, OpTypeOK, HalfDoneIsMarked, HalfDone, DirState
    <2>2. CASE d # c
      BY <2>2, OtherChecks DEF CheckInv, CheckTypeOK, opVars
    <2>. QED
      BY <2>1, <2>2
  <1>4. CheckIsHonest'
    BY DEF CheckInv, CheckTypeOK, CheckIsHonest, Recorded
  <1>5. TokenIsLive'
    BY DEF CheckInv, CheckTypeOK, TokenIsLive, opVars
  <1>. QED
    BY <1>1, <1>2, <1>3, <1>4, <1>5 DEF CheckInv

(* A current token is that of a running hook, or outlived it.              *)
LEMMA ReadTokenPreserves ==
    ASSUME OpInv, CheckInv, NEW c \in Checker, ReadToken(c)
    PROVE  OpInv' /\ CheckInv'
  <1>. USE DEF ReadToken, CGoto, seenVars
  <1>1. CheckTypeOK'
    BY DEF CheckInv, CheckTypeOK
  <1>2. OpInv'
    BY OpsUntouched DEF CheckInv, CheckTypeOK
  <1>3. ASSUME NEW d \in Checker PROVE Recorded(d)'
    <2>1. CASE d = c
      <3>1. Recorded(c)
        BY DEF CheckInv
      <3>. QED
        BY <2>1, <3>1 DEF Recorded, Checking, HookRuns, CheckInv, CheckTypeOK, opVars, OpInv, TokenHasHook
    <2>2. CASE d # c
      BY <2>2, OtherChecks DEF CheckInv, CheckTypeOK, opVars
    <2>. QED
      BY <2>1, <2>2
  <1>4. CheckIsHonest'
    BY DEF CheckInv, CheckTypeOK, CheckIsHonest, Recorded
  <1>5. TokenIsLive'
    BY DEF CheckInv, CheckTypeOK, TokenIsLive, opVars
  <1>. QED
    BY <1>1, <1>2, <1>3, <1>4, <1>5 DEF CheckInv

(* The answer rests on what was recorded.                                  *)
LEMMA ReadMarkerPreserves ==
    ASSUME OpInv, CheckInv, NEW c \in Checker, ReadMarker(c)
    PROVE  OpInv' /\ CheckInv'
  <1>. USE DEF ReadMarker, CGoto, seenVars
  <1>1. CheckTypeOK'
    BY DEF CheckInv, CheckTypeOK
  <1>2. OpInv'
    BY OpsUntouched DEF CheckInv, CheckTypeOK
  <1>3. ASSUME NEW d \in Checker PROVE Recorded(d)'
    <2>1. CASE d = c
      <3>1. Recorded(c)
        BY DEF CheckInv
      <3>. QED
        BY <2>1, <3>1 DEF Recorded, Checking, HookRuns, CheckInv, CheckTypeOK, opVars
    <2>2. CASE d # c
      BY <2>2, OtherChecks DEF CheckInv, CheckTypeOK, opVars
    <2>. QED
      BY <2>1, <2>2
  <1>4. CheckIsHonest'
    BY DEF CheckInv, CheckTypeOK, CheckIsHonest, Recorded
  <1>5. TokenIsLive'
    BY DEF CheckInv, CheckTypeOK, TokenIsLive, opVars
  <1>. QED
    BY <1>1, <1>2, <1>3, <1>4, <1>5 DEF CheckInv

(* A check ends.                                                           *)
LEMMA CheckEndsPreserves ==
    ASSUME OpInv, CheckInv, NEW c \in Checker, CheckEnds(c)
    PROVE  OpInv' /\ CheckInv'
  <1>. USE DEF CheckEnds, CGoto, seenVars
  <1>1. CheckTypeOK'
    <2>1. cpath' \in [Checker -> Path]
      BY NoRequestIs DEF CheckInv, CheckTypeOK
    <2>2. ctok' \in [Checker -> 0..MaxOps]
      BY MaxOpsAssumption DEF CheckInv, CheckTypeOK
    <2>. QED
      BY <2>1, <2>2 DEF CheckInv, CheckTypeOK
  <1>2. OpInv'
    BY OpsUntouched DEF CheckInv, CheckTypeOK
  <1>3. ASSUME NEW d \in Checker PROVE Recorded(d)'
    <2>1. CASE d = c
      <3>1. Recorded(c)
        BY DEF CheckInv
      <3>. QED
        BY <2>1, <3>1 DEF Recorded, Checking, HookRuns, CheckInv, CheckTypeOK, opVars
    <2>2. CASE d # c
      BY <2>2, OtherChecks DEF CheckInv, CheckTypeOK, opVars
    <2>. QED
      BY <2>1, <2>2
  <1>4. CheckIsHonest'
    BY DEF CheckInv, CheckTypeOK, CheckIsHonest, Recorded
  <1>5. TokenIsLive'
    BY DEF CheckInv, CheckTypeOK, TokenIsLive, opVars
  <1>. QED
    BY <1>1, <1>2, <1>3, <1>4, <1>5 DEF CheckInv

(* The lock is probed: it is had for a moment, or somebody has it.         *)
LEMMA ProbePreserves ==
    ASSUME OpInv, CheckInv, NEW c \in Checker, Probe(c) \/ Unprobe(c)
    PROVE  OpInv' /\ CheckInv'
  <1>. USE DEF Probe, Unprobe, CGoto, seenVars
  <1>1. CheckTypeOK'
    BY DEF CheckInv, CheckTypeOK
  <1>2. OneHolder'
    BY ProcAssumption DEF OpInv, OneHolder, CheckInv, CheckTypeOK
  <1>3. OpTypeOK' /\ HalfDoneIsMarked' /\ TokenHasHook'
    BY DEF OpInv, OpTypeOK, HalfDoneIsMarked, HalfDone, TokenHasHook, HookRuns
  <1>4. ASSUME NEW p \in Proc PROVE AtStep(p)' /\ Reported(p)'
    <2>1. AtStep(p) /\ Reported(p)
      BY DEF OpInv, ReportedIsReal
    <2>. QED
      BY <2>1 DEF AtStep, Reported, Intact
  <1>5. ASSUME NEW d \in Checker PROVE Recorded(d)'
    <2>1. CASE d = c
      <3>1. Recorded(c)
        BY DEF CheckInv
      <3>. QED
        BY <2>1, <3>1 DEF Recorded, Checking, HookRuns, CheckInv, CheckTypeOK
    <2>2. CASE d # c
      BY <2>2, OtherChecks DEF CheckInv, CheckTypeOK
    <2>. QED
      BY <2>1, <2>2
  <1>6. CheckIsHonest'
    BY DEF CheckInv, CheckTypeOK, CheckIsHonest
  <1>7. TokenIsLive'
    BY DEF CheckInv, CheckTypeOK, TokenIsLive, Recorded
  <1>. QED
    BY <1>1, <1>2, <1>3, <1>4, <1>5, <1>6, <1>7 DEF OpInv, CheckInv, ReportedIsReal

-----------------------------------------------------------------------------
(* The invariant is the two halves.                                        *)
LEMMA IInvHalves == (IInv <=> OpInv /\ CheckInv) /\ (IInv' <=> OpInv' /\ CheckInv')
  BY DEF IInv, OpInv, CheckInv, TypeOK

(* It holds initially,                                                     *)
LEMMA InitIInv == Init => IInv
  <1>. SUFFICES ASSUME Init PROVE OpInv /\ CheckInv
    BY IInvHalves
  <1>. USE NoRequestIs, MaxOpsAssumption DEF Init
  <1>1. OneHolder /\ HalfDoneIsMarked /\ TokenHasHook
    BY DEF OneHolder, HalfDoneIsMarked, HalfDone, TokenHasHook
  <1>2. OpTypeOK
    <2>1. dir \in [Path -> DirState]
      BY DEF DirState
    <2>2. pc \in [Proc -> PcState]
      BY DEF PcState
    <2>3. op \in [Proc -> Request]
      OBVIOUS
    <2>4. token \in 0..MaxOps /\ ops \in 0..MaxOps /\ my \in [Proc -> 0..MaxOps]
      OBVIOUS
    <2>5. was \in [Proc -> BOOLEAN] /\ fresh \in [Proc -> BOOLEAN] /\ ok \in [Proc -> BOOLEAN]
      OBVIOUS
    <2>6. lock \in Proc \cup Checker \cup {Free} /\ marker \in BOOLEAN
      OBVIOUS
    <2>7. killed \subseteq 0..MaxOps /\ orphaned \subseteq Path /\ issued \subseteq (0..MaxOps) \X Path
      OBVIOUS
    <2>. QED
      BY <2>1, <2>2, <2>3, <2>4, <2>5, <2>6, <2>7, Zenon DEF OpTypeOK
  <1>3. ASSUME NEW p \in Proc PROVE AtStep(p) /\ Reported(p)
    BY DEF AtStep, Reported
  <1>4. CheckTypeOK /\ CheckIsHonest /\ TokenIsLive
    BY DEF CheckTypeOK, CheckIsHonest, TokenIsLive
  <1>5. ASSUME NEW c \in Checker PROVE Recorded(c)
    BY DEF Recorded, Checking
  <1>. QED
    BY <1>1, <1>2, <1>3, <1>4, <1>5 DEF OpInv, CheckInv, ReportedIsReal

(* in a stuttering step                                                    *)
LEMMA StutterIInv == IInv /\ UNCHANGED vars => IInv'
  <1>. SUFFICES ASSUME OpInv, CheckInv, UNCHANGED vars PROVE OpInv' /\ CheckInv'
    BY IInvHalves
  <1>. USE DEF vars
  <1>1. OpInv'
    BY OpsUntouched DEF readVars
  <1>2. CheckTypeOK' /\ CheckIsHonest' /\ TokenIsLive'
    BY DEF CheckInv, CheckTypeOK, CheckIsHonest, TokenIsLive, opVars, readVars, seenVars
  <1>3. ASSUME NEW c \in Checker PROVE Recorded(c)'
    <2>1. Recorded(c)
      BY DEF CheckInv
    <2>. QED
      BY <2>1 DEF Recorded, Checking, HookRuns, opVars, readVars, seenVars
  <1>. QED
    BY <1>1, <1>2, <1>3 DEF CheckInv

(* and in every step.                                                      *)
LEMMA NextIInv == IInv /\ [Next]_vars => IInv'
  <1>1. ASSUME OpInv, CheckInv, OpStep, Observe PROVE OpInv' /\ CheckInv'
    <2>1. OpInv' /\ killed \subseteq killed'
      BY <1>1, OperationStep DEF Observe
    <2>. QED
      BY <1>1, <2>1, ObserveStep
  <1>2. ASSUME OpInv, CheckInv, NEW c \in Checker,
               CheckStep(c) \/ \E x \in Path, t \in 0..MaxOps : CheckStart(c, x, t)
        PROVE  OpInv' /\ CheckInv'
    BY <1>2, CheckStartPreserves, ReadExistsPreserves, ReadTokenPreserves, ProbePreserves,
       ReadMarkerPreserves, CheckEndsPreserves DEF CheckStep
  <1>. QED
    BY <1>1, <1>2, IInvHalves, StutterIInv DEF Next

(* So it holds always.                                                     *)
LEMMA IInvHolds == Spec => []IInv
  BY InitIInv, NextIInv, PTL DEF Spec

(* One process at a time is past the lock of the version, and all state    *)
(* has its type.                                                           *)
THEOREM TypeCorrect == Spec => []TypeOK
  <1>1. IInv => TypeOK
    BY DEF IInv
  <1>. QED
    BY <1>1, IInvHolds, PTL

(* A half-done directory is marked (create_install_dirs, uninstall_version,*)
(* cleanup_install_dirs_on_error), for any number of processes and paths,  *)
(* unless its marker was cleared for another path or link --force or the   *)
(* backend's own uninstall, which do not mark, removed it half way.        *)
THEOREM HalfDoneMarked == Spec => []HalfDoneIsMarked
  <1>1. IInv => HalfDoneIsMarked
    BY DEF IInv
  <1>. QED
    BY <1>1, IInvHolds, PTL

(* What install_version, uninstall_version and link report is real, but    *)
(* for paths that lost, or never had, the marker in those three ways.      *)
THEOREM ReportsAreReal == Spec => []ReportedIsReal
  <1>1. IInv => ReportedIsReal
    BY DEF IInv
  <1>. QED
    BY <1>1, IInvHolds, PTL

(* is_version_installed answers for a moment at which the version was      *)
(* there, but for markers cleared during the check and those three ways.   *)
THEOREM ChecksAreHonest == Spec => []CheckIsHonest
  <1>1. IInv => CheckIsHonest
    BY DEF IInv
  <1>. QED
    BY <1>1, IInvHolds, PTL

(* A postinstall token that matches is that of a hook that runs.           *)
THEOREM TokensAreLive == Spec => []TokenIsLive
  <1>1. IInv => TokenIsLive
    BY DEF IInv
  <1>. QED
    BY <1>1, IInvHolds, PTL
-----------------------------------------------------------------------------
(***************************************************************************)
(* The exceptions of these properties are three and no more. Where the     *)
(* backend has no uninstall of its own, no link is forced and the version  *)
(* has one path, no path is ever orphaned, and they hold without them.     *)
(***************************************************************************)
Plain ==
    /\ ~OwnUninstall
    /\ \A r \in Requests : r.kind = "link" => ~r.force
    /\ \A x, y \in Path : x = y

PlainInv ==
    /\ op \in [Proc -> Requests]
    /\ orphaned = {}
    /\ \A c \in Checker : ~corphaned[c]

PlainIsSafe ==
    /\ \A x \in Path : HalfDone(dir[x]) => marker
    /\ \A p \in Proc :
          pc[p] = "return" /\ ok[p] =>
              dir[op[p].path] = IF op[p].kind = "uninstall" THEN "absent" ELSE "complete"
    /\ \A c \in Checker :
          cpc[c] = "answered" /\ answer[c] /\ ~cmatch[c] => ccomplete[c] \/ ccleared[c]

(* The marker of the only path is not cleared for another.                 *)
LEMMA UnmarkPlain ==
    ASSUME Plain, orphaned = {}, NEW x \in Path, Unmark(x)
    PROVE  orphaned' = {}
  BY DEF Plain, Unmark

(* An operation orphans no path.                                           *)
LEMMA OpStepPlain ==
    ASSUME Plain, IInv, PlainInv, OpStep
    PROVE  op' \in [Proc -> Requests] /\ orphaned' = {}
  <1>1. PICK p \in Proc : Step(p) \/ Kill(p) \/ \E r \in Requests : Start(p, r)
    BY DEF OpStep
  <1>2. op[p] \in Requests /\ op[p].path \in Path /\ NoRequest \in Requests
    BY RequestAssumption DEF PlainInv, Request, NoRequest
  <1>3. pc[p] = "link" => ~op[p].force
    BY <1>2 DEF Plain, IInv, AtStep
  <1>4. CASE Kill(p) \/ Release(p)
    BY <1>2, <1>4 DEF Kill, Release, Idle, PlainInv
  <1>5. CASE \E r \in Requests : Start(p, r)
    BY <1>5 DEF Start, PlainInv
  <1>6. CASE BackendRemoves(p) \/ LinkRemove(p)
    BY <1>3, <1>6 DEF BackendRemoves, LinkRemove, Plain, PlainInv
  <1>7. CASE \E gone, good \in BOOLEAN : BackendUninstalled(p, gone, good)
    BY <1>7 DEF BackendUninstalled, Plain, PlainInv
  <1>8. CASE TakeLock(p) \/ DropStaleToken(p) \/ Check(p) \/ NoHook(p) \/ RemoveBegins(p)
    BY <1>8 DEF TakeLock, DropStaleToken, Check, NoHook, RemoveBegins, PlainInv
  <1>9. CASE \/ \E d \in {"absent", "partial"} : Make(p, d)
             \/ \E d \in {"absent", "partial", "filled"} : Fill(p, d)
    BY <1>9 DEF Make, Fill, PlainInv
  <1>10. CASE \E good \in BOOLEAN : MarkInstall(p, good) \/ MarkRemoval(p, good)
    BY <1>10 DEF MarkInstall, MarkRemoval, Mark, PlainInv
  <1>11. CASE \E good \in BOOLEAN : \/ HookStart(p, good) \/ HookExits(p, good) \/ HookEnd(p, good)
                                    \/ RemoveEnds(p, good) \/ MakeLink(p, good)
    BY <1>11 DEF HookStart, HookExits, HookEnd, RemoveEnds, MakeLink, PlainInv
  <1>12. CASE \E good \in BOOLEAN : \/ GiveUp(p, good) \/ Clear(p, good)
                                    \/ ClearRemoval(p, good) \/ ClearLink(p, good)
    BY <1>2, <1>12, UnmarkPlain DEF GiveUp, Clear, ClearRemoval, ClearLink, PlainInv
  <1>13. CASE \E good \in BOOLEAN : LinkRemoved(p, good)
    BY <1>13 DEF LinkRemoved, Gone, PlainInv
  <1>. QED
    BY <1>1, <1>4, <1>5, <1>6, <1>7, <1>8, <1>9, <1>10, <1>11, <1>12, <1>13 DEF Step

(* Nor does a check record one.                                            *)
LEMMA NextPlain ==
    ASSUME Plain, IInv, PlainInv, [Next]_vars
    PROVE  PlainInv'
  <1>1. CASE OpStep /\ Observe
    BY <1>1, OpStepPlain DEF Observe, PlainInv
  <1>2. ASSUME NEW c \in Checker, CheckEnds(c) PROVE PlainInv'
    BY <1>2 DEF CheckEnds, PlainInv, opVars, IInv, TypeOK, CheckTypeOK
  <1>3. ASSUME NEW c \in Checker, NEW x \in Path, NEW t \in 0..MaxOps, CheckStart(c, x, t)
        PROVE  PlainInv'
    BY <1>3 DEF CheckStart, PlainInv, opVars, IInv, TypeOK, CheckTypeOK
  <1>4. ASSUME NEW c \in Checker,
               ReadExists(c) \/ ReadToken(c) \/ Probe(c) \/ Unprobe(c) \/ ReadMarker(c)
        PROVE  PlainInv'
    BY <1>4 DEF ReadExists, ReadToken, Probe, Unprobe, ReadMarker, PlainInv, opVars, seenVars
  <1>5. CASE UNCHANGED vars
    BY <1>5 DEF vars, opVars, seenVars, PlainInv
  <1>. QED
    BY <1>1, <1>2, <1>3, <1>4, <1>5 DEF Next, CheckStep

(* Without a backend's own uninstall, a forced link and a second path, a   *)
(* half-done directory is marked, an operation that succeeds leaves what   *)
(* it reports, and a check that answers "installed" has a moment at which  *)
(* the version was complete or its marker was cleared.                     *)
THEOREM NothingOrphaned ==
    ASSUME Plain PROVE Spec => []PlainIsSafe
  <1>1. Init => PlainInv
    BY RequestAssumption DEF Init, PlainInv, NoRequest
  <1>2. IInv /\ PlainInv /\ [Next]_vars => PlainInv'
    BY NextPlain
  <1>3. IInv /\ PlainInv => PlainIsSafe
    <2>. SUFFICES ASSUME IInv, PlainInv PROVE PlainIsSafe
      OBVIOUS
    <2>1. \A x \in Path : HalfDone(dir[x]) => marker
      BY DEF IInv, PlainInv, HalfDoneIsMarked
    <2>2. \A p \in Proc :
            pc[p] = "return" /\ ok[p] =>
                dir[op[p].path] = IF op[p].kind = "uninstall" THEN "absent" ELSE "complete"
      BY DEF IInv, PlainInv, ReportedIsReal, Reported, Intact
    <2>3. \A c \in Checker :
            cpc[c] = "answered" /\ answer[c] /\ ~cmatch[c] => ccomplete[c] \/ ccleared[c]
      BY DEF IInv, PlainInv, CheckIsHonest
    <2>. QED
      BY <2>1, <2>2, <2>3 DEF PlainIsSafe
  <1>. QED
    BY <1>1, <1>2, <1>3, IInvHolds, PTL DEF Spec
=============================================================================
