------------------------------- MODULE Sessions -------------------------------
(***************************************************************************)
(* What registration promises, apart from queues and messages.  A process  *)
(* is given a session that no process was ever given before.  It asks for  *)
(* things while it is there, the service makes the answers for the session *)
(* that asked, and each answer goes to the process whose session it was    *)
(* made for, once.                                                         *)
(*                                                                         *)
(* Sessions have names, which are used again.  When a name is given to a   *)
(* process while another that has it is still there, or to a process that  *)
(* has lost its way (it comes too late for its run of the service), the    *)
(* name is disputed from then on, and nothing is promised about the        *)
(* answers under that name; nobody else notices.                           *)
(***************************************************************************)
CONSTANTS Procs,        \* client processes
          SessionIds,   \* what a session may be
          Name,         \* the name of each session
          Requests,     \* what a process may ask for
          NoSession

VARIABLES session,      \* the session of each process, or NoSession
          present,      \* processes that have not ended
          asked,        \* requests each process has asked for
          made,         \* answers that are made, as <<session, request>>
          answered,     \* requests each process has had the answer to
          disputed      \* names

vars == <<session, present, asked, made, answered, disputed>>

Init == /\ session = [p \in Procs |-> NoSession]
        /\ present = Procs
        /\ asked = [p \in Procs |-> {}]
        /\ made = {}
        /\ answered = [p \in Procs |-> {}]
        /\ disputed = {}

Named(p, name) == session[p] # NoSession /\ Name[session[p]] = name
Disputed(p) == session[p] # NoSession /\ Name[session[p]] \in disputed

Join(p, lost) ==
  LET s == session'[p] IN
  /\ p \in present /\ session[p] = NoSession
  /\ s \in SessionIds
  /\ \A q \in Procs : session[q] # s
  /\ session' = [session EXCEPT ![p] = s]
  /\ disputed' = IF lost \/ \E q \in present \ {p} : Named(q, Name[s])
                 THEN disputed \cup {Name[s]} ELSE disputed
  /\ Name[s] \notin disputed' => \A r \in Requests : <<s, r>> \notin made
  /\ UNCHANGED <<present, asked, made, answered>>

Ask(p, r) ==
  /\ p \in present /\ session[p] # NoSession
  /\ r \notin asked[p]
  /\ asked' = [asked EXCEPT ![p] = @ \cup {r}]
  /\ UNCHANGED <<session, present, made, answered, disputed>>

\* The service makes the answer to something p waits for.
Make(p, r) ==
  /\ r \in asked[p] \ answered[p]
  /\ <<session[p], r>> \notin made
  /\ made' = made \cup {<<session[p], r>>}
  /\ UNCHANGED <<session, present, asked, answered, disputed>>

\* p takes an answer that was made for it.
Answer(p, r) ==
  /\ p \in present
  /\ <<session[p], r>> \in made
  /\ made' = made \ {<<session[p], r>>}
  /\ answered' = [answered EXCEPT ![p] = @ \cup {r}]
  /\ UNCHANGED <<session, present, asked, disputed>>

\* The service dies, and what it has made with it.
Forget ==
  /\ made' = {}
  /\ UNCHANGED <<session, present, asked, answered, disputed>>

\* Processes with a disputed name are answered anything they asked for.
Confuse ==
  /\ DOMAIN answered' = Procs
  /\ \A p \in Procs : IF Disputed(p) THEN answered[p] \subseteq answered'[p]
                                          /\ answered'[p] \subseteq asked[p]
                                     ELSE answered'[p] = answered[p]
  /\ \A m \in (made \ made') \cup (made' \ made) : Name[m[1]] \in disputed
  /\ UNCHANGED <<session, present, asked, disputed>>

Leave(p) ==
  /\ p \in present
  /\ present' = present \ {p}
  /\ UNCHANGED <<session, asked, made, answered, disputed>>

Next == \/ \E p \in Procs : \/ \E lost \in BOOLEAN : Join(p, lost)
                            \/ \E r \in Requests : Ask(p, r) \/ Make(p, r) \/ Answer(p, r)
                            \/ Leave(p)
        \/ Forget \/ Confuse

Spec == Init /\ [][Next]_vars
===============================================================================
