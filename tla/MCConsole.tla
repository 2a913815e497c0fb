------------------------------ MODULE MCConsole ------------------------------
(* The console: who may write on it (LineOwner), the driver that carries what *)
(* is written and typed (Uart), and the shell that reads it (Shell).  They    *)
(* share no state; each behaviour is one of one of them, and the others'      *)
(* variables keep their initial values.                                       *)
EXTENDS LineOwner, Uart, Shell

CONSTANTS
  parent, first, second, other  \* a process and its two children, and another of the shell's

VARIABLES part
allVars == <<part, lineVars, vars, shellVars>>

MCProcs == {parent, first, second, other}
MCParent == [p \in MCProcs |-> IF p \in {first, second} THEN parent ELSE NoProc]
MCExec == <<"x">>
MCTimeout == <<"t">>

Owner(A) == part = "owner" /\ A /\ UNCHANGED <<part, vars, shellVars>>
Driver(A) == part = "driver" /\ A /\ UNCHANGED <<part, lineVars, shellVars>>
MCInit == part \in {"owner", "driver", "shell"} /\ LineInit /\ Init /\ ShellInit
MCNext == \/ Owner(LineNext) \/ Driver(Next)
          \/ part = "shell" /\ ShellNext /\ UNCHANGED <<part, lineVars, vars>>
MCSpec ==
  /\ MCInit /\ [][MCNext]_allVars
  /\ \A p \in Procs : WF_allVars(Owner(Take(p)))
  /\ WF_allVars(Driver(Transmit))
  /\ SF_allVars(Driver(Handle)) /\ SF_allVars(Driver(HandleEmptied))
  /\ \A w \in Writers : SF_allVars(Driver(Goes(w)))
=============================================================================
