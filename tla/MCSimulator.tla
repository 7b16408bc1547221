---------------------------- MODULE MCSimulator ----------------------------
(***************************************************************************)
(* The parts of the simulator for TLC: differential testing, the traces,   *)
(* the devices, the instruction loop and the byte lanes.  They share no    *)
(* variable here, so each is explored alone: part is the one that moves,   *)
(* and the others stay in an initial state.                                *)
(***************************************************************************)
EXTENDS MCDifftest, Trace, Bus, MCSim, MCLanes

VARIABLE part

simulatorVars == <<part, difftestVars, traceVars, busVars, simVars, lanesVars>>

SimulatorInit ==
  /\ part \in {"difftest", "trace", "bus", "loop", "lanes"}
  /\ DifftestInit /\ TraceInit /\ BusInit /\ SimInit /\ LanesInit
  /\ part # "difftest" => prog = CHOOSE p \in Progs : TRUE
  /\ part # "trace" => frames = <<CHOOSE f \in Funcs : TRUE>>

SimulatorNext ==
  /\ UNCHANGED part
  /\ \/ /\ part = "difftest" /\ DifftestNext
        /\ UNCHANGED <<traceVars, busVars, simVars, lanesVars>>
     \/ /\ part = "trace" /\ TraceNext
        /\ UNCHANGED <<difftestVars, busVars, simVars, lanesVars>>
     \/ /\ part = "bus" /\ BusNext
        /\ UNCHANGED <<difftestVars, traceVars, simVars, lanesVars>>
     \/ /\ part = "loop" /\ single_cycle
        /\ UNCHANGED <<difftestVars, traceVars, busVars, lanesVars>>
     \/ /\ part = "lanes" /\ LanesNext
        /\ UNCHANGED <<difftestVars, traceVars, busVars, simVars>>

SimulatorSpec == SimulatorInit /\ [][SimulatorNext]_simulatorVars
=============================================================================
