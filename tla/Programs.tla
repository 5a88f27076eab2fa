------------------------------- MODULE Programs -------------------------------
(***************************************************************************)
(* The two programs of the repository, each started with some command      *)
(* line.  They share the parser and the variables that hold its state.     *)
(***************************************************************************)
EXTENDS App, Service

CONSTANTS AppCommands, ServiceCommands   \* command lines, as sequences of words

ASSUME CommandsAssumption ==
  \A line \in AppCommands \union ServiceCommands : IsCommandLine(line)

VARIABLE program

vars == <<program, parserVars, appVars, serviceVars>>

ProgramArguments == IF program = "app" THEN AppArguments ELSE ServiceArguments

Init == /\ program \in {"app", "service"}
        /\ ParserInit(ProgramArguments, IF program = "app" THEN AppCommands ELSE ServiceCommands)
        /\ AppInit /\ ServiceInit

Next == /\ UNCHANGED program
        /\ \/ program = "app" /\ AppNext /\ UNCHANGED serviceVars
           \/ program = "service" /\ ServiceNext /\ UNCHANGED appVars

Spec == Init /\ [][Next]_vars

\* Each program accepts the command lines that are legal for it and no other.
CommandLinesDecide == CommandLineDecides(ProgramArguments)
===============================================================================
