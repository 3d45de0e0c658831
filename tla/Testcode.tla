------------------------------ MODULE Testcode -----------------------------
(* The other programs under testcode, which have no part in common: comp1, *)
(* comp2, comp3, the comparisons and the barrier of util.h, the printing   *)
(* of ee_printf and CoreMark's memory. A behaviour is one of them, the     *)
(* others are idle.                                                        *)
EXTENDS Comp1, Comp2, Comp3, Verify, Barrier, EePrintf, Blocks

vars == <<c1, c2, c3, ver, bar, io, mem>>

Init ==
  \/ Comp1Init /\ c2 = Idle2 /\ c3 = Idle3 /\ ver = IdleVer /\ bar = IdleBar /\ io = IdleIo /\ mem = IdleMem
  \/ Comp2Init /\ c1 = Idle /\ c3 = Idle3 /\ ver = IdleVer /\ bar = IdleBar /\ io = IdleIo /\ mem = IdleMem
  \/ Comp3Init /\ c1 = Idle /\ c2 = Idle2 /\ ver = IdleVer /\ bar = IdleBar /\ io = IdleIo /\ mem = IdleMem
  \/ VerifyInit /\ c1 = Idle /\ c2 = Idle2 /\ c3 = Idle3 /\ bar = IdleBar /\ io = IdleIo /\ mem = IdleMem
  \/ BarrierInit /\ c1 = Idle /\ c2 = Idle2 /\ c3 = Idle3 /\ ver = IdleVer /\ io = IdleIo /\ mem = IdleMem
  \/ IoInit /\ c1 = Idle /\ c2 = Idle2 /\ c3 = Idle3 /\ ver = IdleVer /\ bar = IdleBar /\ mem = IdleMem
  \/ MemInit /\ c1 = Idle /\ c2 = Idle2 /\ c3 = Idle3 /\ ver = IdleVer /\ bar = IdleBar /\ io = IdleIo

Comp1Runs == c1 # Idle /\ Comp1Next /\ UNCHANGED <<c2, c3, ver, bar, io, mem>>

Comp2Runs == c2 # Idle2 /\ Comp2Next /\ UNCHANGED <<c1, c3, ver, bar, io, mem>>

Comp3Runs == c3 # Idle3 /\ Comp3Next /\ UNCHANGED <<c1, c2, ver, bar, io, mem>>

VerifyRuns == ver # IdleVer /\ VerifyNext /\ UNCHANGED <<c1, c2, c3, bar, io, mem>>

ThreadRuns(t) == bar # IdleBar /\ BarrierStep(t) /\ UNCHANGED <<c1, c2, c3, ver, io, mem>>

PrintRuns == io # IdleIo /\ IoNext /\ UNCHANGED <<c1, c2, c3, ver, bar, mem>>

MemRuns == mem # IdleMem /\ MemNext /\ UNCHANGED <<c1, c2, c3, ver, bar, io>>

Next == Comp1Runs \/ Comp2Runs \/ Comp3Runs \/ VerifyRuns \/ (\E t \in Threads : ThreadRuns(t)) \/ PrintRuns
        \/ MemRuns

(* The threads of a barrier run on cores of their own, so each goes on.    *)
Spec == Init /\ [][Next]_vars /\ \A t \in Threads : WF_vars(ThreadRuns(t))

(* The competition programs end with the codes they should: comp1 and      *)
(* comp2 with success, over kernels and multiples that are what their      *)
(* names say, and comp3 by the risk of the notifications it took, which    *)
(* were in order.                                                          *)
ProgramsSucceed ==
  /\ KernelKeepsLowOnes /\ Comp1Succeeds
  /\ CommonMultipleFitsInt /\ Comp2Succeeds
  /\ AcceptedInOrder /\ VerdictOnRisk

=============================================================================
