-------------------------------- MODULE Frontend --------------------------------
(***************************************************************************)
(* The application with its window, and the runner with the helper that it *)
(* talks to, side by side.  One of them runs, and the variables of the     *)
(* other rest: the window sees of a runner that the step of its job ends,  *)
(* and a runner sees of the window that somebody cancels.                  *)
(***************************************************************************)
EXTENDS Application, HelperProtocol

VARIABLE part  \* who runs: "window" or "runner"

frontendVars == <<part, windowVars, protocolVars>>

FrontendInit ==
  /\ part \in {"window", "runner"}
  /\ Init /\ ProtocolInit
  /\ part # "runner" => kind = "raw"

WindowSteps == part = "window" /\ Next /\ UNCHANGED <<part, protocolVars>>
RunnerSteps == part = "runner" /\ ProtocolNext /\ UNCHANGED <<part, windowVars>>

FrontendNext == WindowSteps \/ RunnerSteps

\* At rest the window has nothing to do.  What is fair to the runner and to the helper is
\* stated with what follows from it (HelperProtocol).
FrontendSpec == FrontendInit /\ [][FrontendNext]_frontendVars /\ Fairness
=============================================================================
