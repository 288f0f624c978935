-------------------------------- MODULE Permits --------------------------------
(***************************************************************************)
(* What the Semaphore class promises its callers: a call to acquire(),     *)
(* release() or Z() that returns has changed the number of permits by all  *)
(* of what it asked for, at one moment after it was made, and one that     *)
(* raises an exception has changed nothing; no call waits that may not, or *)
(* begins to wait for what is there; what a process has taken with undo is *)
(* put right when it ends, and only then, unless the value has been set or *)
(* the semaphore removed meanwhile, which settles what everyone owes.      *)
(***************************************************************************)
EXTENDS Integers

CONSTANTS
  Sems, Procs, Threads,
  ProcOf,       \* the process of each thread
  Limit         \* the most permits a semaphore can have

VARIABLES
  present,  \* the semaphores in the system
  permits,  \* how many permits each has
  owed,     \* what each gets when a process ends, by process
  options,  \* what each process has made of block and undo
  ask,      \* the change each thread has asked for and has no answer to yet
  answer    \* whether its last call has come back without an exception

permitVars == <<present, permits, owed, options, ask, answer>>

NoAsk    == [kind |-> "none"]
Requests == [kind : {"change"}, sem : Sems, by : Int, undo : BOOLEAN,
             block : BOOLEAN,   \* whether the call may wait
             waits : BOOLEAN]   \* whether it does

Settled  == [p \in Procs |-> 0]

\* Taking permits waits until there are enough, Z until there are none, and
\* giving never does.
MustWait(r) ==
  IF r.by = 0 THEN permits[r.sem] # 0 ELSE permits[r.sem] + r.by < 0

Within(n) == IF n < 0 THEN 0 ELSE IF n > Limit THEN Limit ELSE n

Reply(t, ok) ==
  /\ ask' = [ask EXCEPT ![t] = NoAsk]
  /\ answer' = [answer EXCEPT ![t] = ok]

\* What a thread makes of the options of its process is its own affair.
OthersKeepOptions(p) == \A q \in Procs \ {p} : options'[q] = options[q]

----------------------------------------------------------------------------

\* A call to acquire(), release() or Z() begins, with the options of now.
Ask(t) ==
  /\ ask[t] = NoAsk
  /\ ask'[t] \in Requests /\ ask' = [ask EXCEPT ![t] = ask'[t]]
  /\ ~ask'[t].waits
  /\ options[ProcOf[t]] = [block |-> ask'[t].block, undo |-> ask'[t].undo]
  /\ answer' = [answer EXCEPT ![t] = FALSE]
  /\ UNCHANGED <<present, permits, owed, options>>

\* It cannot have what it asks for, and waits.
Wait(t) ==
  LET r == ask[t] IN
  /\ r # NoAsk /\ ~r.waits /\ r.block
  /\ r.sem \in present /\ MustWait(r)
  /\ ask' = [ask EXCEPT ![t].waits = TRUE]
  /\ UNCHANGED <<present, permits, owed, options, answer>>

\* It gets what it has asked for, whether it had to wait or not.
Change(t) ==
  LET r == ask[t] IN
  /\ r # NoAsk
  /\ r.sem \in present /\ ~MustWait(r) /\ permits[r.sem] + r.by <= Limit
  /\ permits' = [permits EXCEPT ![r.sem] = @ + r.by]
  /\ owed' = IF r.undo THEN [owed EXCEPT ![r.sem][ProcOf[t]] = @ - r.by] ELSE owed
  /\ Reply(t, TRUE) /\ UNCHANGED <<present, options>>

\* A call fails, or it is one that does not ask for permits.
Other(t) ==
  /\ UNCHANGED <<present, permits, owed>>
  /\ \E ok \in BOOLEAN : (ok => ask[t] = NoAsk) /\ Reply(t, ok)
  /\ OthersKeepOptions(ProcOf[t])

Assign(t, s, n) ==
  /\ ask[t] = NoAsk /\ s \in present /\ n \in 0..Limit
  /\ permits' = [permits EXCEPT ![s] = n]
  /\ owed' = [owed EXCEPT ![s] = Settled]
  /\ Reply(t, TRUE) /\ UNCHANGED present /\ OthersKeepOptions(ProcOf[t])

\* A semaphore comes into the system; nobody owes it anything.
Create(t, s) ==
  /\ ask[t] = NoAsk /\ s \notin present /\ owed[s] = Settled
  /\ present' = present \cup {s}
  /\ \E n \in 0..Limit : permits' = [permits EXCEPT ![s] = n]
  /\ \E ok \in BOOLEAN : Reply(t, ok)
  /\ UNCHANGED owed /\ OthersKeepOptions(ProcOf[t])

Remove(t, s) ==
  /\ ask[t] = NoAsk /\ s \in present
  /\ present' = present \ {s}
  /\ permits' = [permits EXCEPT ![s] = 0]
  /\ owed' = [owed EXCEPT ![s] = Settled]
  /\ Reply(t, TRUE) /\ UNCHANGED options

\* The end of a process, whatever its threads are doing.
Vanish(p) ==
  /\ permits' = [s \in Sems |-> IF s \in present
                                THEN Within(permits[s] + owed[s][p])
                                ELSE permits[s]]
  /\ owed' = [s \in Sems |-> [owed[s] EXCEPT ![p] = 0]]
  /\ ask' = [t \in Threads |-> IF ProcOf[t] = p THEN NoAsk ELSE ask[t]]
  /\ answer' = [t \in Threads |-> ProcOf[t] # p /\ answer[t]]
  /\ UNCHANGED present /\ OthersKeepOptions(p)

PermitInit ==
  /\ present = {}
  /\ permits = [s \in Sems |-> 0]
  /\ owed = [s \in Sems |-> Settled]
  /\ options = [p \in Procs |-> [block |-> TRUE, undo |-> FALSE]]
  /\ ask = [t \in Threads |-> NoAsk]
  /\ answer = [t \in Threads |-> FALSE]

PermitNext ==
  \/ \E t \in Threads : Other(t) \/ Ask(t) \/ Wait(t) \/ Change(t)
  \/ \E t \in Threads, s \in Sems :
       \/ Create(t, s) \/ Remove(t, s)
       \/ \E n \in 0..Limit : Assign(t, s, n)
  \/ \E p \in Procs : Vanish(p)

PermitSpec == PermitInit /\ [][PermitNext]_permitVars

=============================================================================
