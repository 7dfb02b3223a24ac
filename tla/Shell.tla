---------------------------------- MODULE Shell ----------------------------------
(***************************************************************************)
(* The shell and its jobs: the main loop of shell/shell.c, createFromShell *)
(* and newpid() of system/create.c, and what receive(), recvclr() and the  *)
(* send() inside kill() do with the one message the shell's process has    *)
(* room for.                                                               *)
(*                                                                         *)
(* The shell learns that a job has ended from a message with its process   *)
(* id.  Ids are used again, there may be jobs in the background, and a     *)
(* message that finds another one waiting is dropped.  Processes are       *)
(* interleaved as the clock may interleave them: kernel calls that disable *)
(* interrupts are one action, receive(), which does not, is several.       *)
(***************************************************************************)
EXTENDS Lexan

CONSTANTS
    NPROC,       (* entries of proctab; 0 is the null process, 1 the shell *)
    MaxLine      (* bound: length of a command line without its newline  *)

ASSUME ShellAssumption == NPROC \in Nat \ {0, 1, 2} /\ MaxLine \in Nat

SHELL == 1
Jobs  == 2 .. NPROC - 1

(* cmdtab: a command that runs in a process of its own, and the built-in   *)
(* ones that matter here, kill and exit.                                   *)
cmdtab  == [spawn |-> <<"c">>, kill |-> <<"k">>, exit |-> <<"x">>]
Builtin == {"kill", "exit"}

VARIABLES
    at,          (* where the shell is in its loop                       *)
    buf,         (* the line it has read                                 *)
    backgnd, child,
    job,         (* what each process that may be a job is doing         *)
    fore,        (* it was started in the foreground                     *)
    nextpid,
    prhasmsg, prmsg,   (* the shell's message slot                       *)
    missed       (* the end of the job waited for left no message to take *)

proc == <<job, fore, nextpid>>
slot == <<prhasmsg, prmsg>>
vars == <<at, buf, backgnd, child, proc, slot, missed>>

Init ==
    /\ at = "prompt" /\ buf = <<>>
    /\ backgnd = FALSE /\ child = SHELL
    /\ job = [p \in Jobs |-> "free"]
    /\ fore = [p \in Jobs |-> FALSE]
    /\ nextpid = 2
    /\ prhasmsg = FALSE /\ prmsg = SHELL
    /\ missed = FALSE

--------------------------------------------------------------------------------
(* A line is read and divided into tokens.                                 *)

Read ==
    /\ at = "prompt"
    /\ \E n \in 1 .. MaxLine : buf' \in [1 .. n -> Chars]
    /\ at' = "parse"
    /\ UNCHANGED <<backgnd, child, proc, slot, missed>>

(* The command of a line: its words without a final ampersand.             *)
Words(toks) ==
    IF toks # <<>> /\ Last(toks).type = "amper" THEN Front(toks) ELSE toks

(* The tokens are command c: there are some, an ampersand is at their end  *)
(* only and not after a built-in command, and the first is c's name.       *)
IsCommand(toks, c) ==
    /\ Words(toks) # <<>>
    /\ \A i \in DOMAIN Words(toks) : Words(toks)[i].type = "other"
    /\ Words(toks)[1].text = cmdtab[c]
    /\ c \in Builtin => Words(toks) = toks

(* The line is divided into tokens and its command looked up.  After an    *)
(* error, which is reported on the terminal, the shell prompts again.      *)
Parse ==
    /\ at = "parse"
    /\ LET found == Lexan(buf)
       IN  \/ \E c \in DOMAIN cmdtab :
                 /\ IsCommand(found.toks, c)
                 /\ at' = c /\ backgnd' = (Words(found.toks) # found.toks)
           \/ /\ \A c \in DOMAIN cmdtab : ~IsCommand(found.toks, c)
              /\ at' = "prompt" /\ UNCHANGED backgnd
    /\ buf' = <<>>
    /\ UNCHANGED <<child, proc, slot, missed>>

(* send() by a process that ends: a message that finds one waiting is      *)
(* dropped, and so is one to a process that has ended.                     *)
SendToShell(p) ==
    IF at = "gone" \/ prhasmsg THEN UNCHANGED slot
    ELSE prhasmsg' = TRUE /\ prmsg' = p

(* kill() of a job by the built-in command, which as its parent sends the  *)
(* message to itself.                                                      *)
KillJob(p) ==
    /\ at = "kill" /\ at' = "prompt"
    /\ job[p] # "free"
    /\ SendToShell(p)
    /\ job' = [job EXCEPT ![p] = "free"]
    /\ UNCHANGED <<buf, backgnd, child, fore, nextpid, missed>>

(* It fails: there is no such process, or it is the null process.          *)
KillFails ==
    /\ at = "kill" /\ at' = "prompt"
    /\ UNCHANGED <<buf, backgnd, child, proc, slot, missed>>

(* exit, or a kill of the shell itself.                                    *)
End ==
    /\ at \in Builtin /\ at' = "gone"
    /\ UNCHANGED <<buf, backgnd, child, proc, slot, missed>>

--------------------------------------------------------------------------------
(* A job is started.                                                       *)

(* The i-th entry newpid() looks at.                                       *)
Newpid(i) == (nextpid + i) % NPROC

(* A bug: nextpid is brought back into the table only to look at an entry. *)
AroundNot(n) == n + NPROC

(* nextpid after a search of all entries in vain.                          *)
Around(n) == ((n + NPROC - 1) % NPROC) + 1

Free(p) == p \in Jobs /\ job[p] = "free"

Spawn ==
    /\ at = "spawn"
    /\ UNCHANGED <<buf, backgnd, slot, missed>>
    /\ \/ \E i \in 0 .. NPROC - 1 :
             /\ Free(Newpid(i)) /\ \A k \in 0 .. i - 1 : ~Free(Newpid(k))
             /\ child' = Newpid(i) /\ nextpid' = Newpid(i) + 1
             /\ job' = [job EXCEPT ![Newpid(i)] = "susp"]
             /\ fore' = [fore EXCEPT ![Newpid(i)] = ~backgnd]
             /\ at' = "clear"
       \/ /\ \A p \in Jobs : ~Free(p)
          /\ nextpid' = Around(nextpid)
          /\ at' = "prompt"
          /\ UNCHANGED <<child, job, fore>>

(* A bug: a message from before is left for the wait below.                *)
RecvclrKeeps ==
    /\ at = "clear" /\ at' = "resume"
    /\ UNCHANGED <<buf, backgnd, child, proc, slot, missed>>

Recvclr ==
    /\ at = "clear" /\ at' = "resume"
    /\ prhasmsg' = FALSE
    /\ UNCHANGED <<buf, backgnd, child, proc, prmsg, missed>>

Resume ==
    /\ at = "resume"
    /\ job' = [job EXCEPT ![child] = "run"]
    /\ at' = IF backgnd THEN "prompt" ELSE "test"
    /\ UNCHANGED <<buf, backgnd, child, fore, nextpid, slot, missed>>

--------------------------------------------------------------------------------
(* The wait for a job in the foreground: receive() until it returns child. *)

(* if (prhasmsg == FALSE)                                                  *)
Test ==
    /\ at = "test"
    /\ at' = IF prhasmsg THEN "take" ELSE "sleep"
    /\ UNCHANGED <<buf, backgnd, child, proc, slot, missed>>

(* prstate = PR_RECV; yield()                                              *)
Sleep ==
    /\ at = "sleep" /\ at' = "recv"
    /\ UNCHANGED <<buf, backgnd, child, proc, slot, missed>>

Take ==
    /\ at = "take"
    /\ prhasmsg' = FALSE
    /\ at' = IF prmsg = child THEN "prompt" ELSE "test"
    /\ UNCHANGED <<buf, backgnd, child, proc, prmsg, missed>>

--------------------------------------------------------------------------------
(* The jobs.                                                               *)

Waiting == at \in {"test", "sleep", "recv", "take"}

(* A bug: the shell is not made ready.                                     *)
JobEndsSilently(p) ==
    /\ job[p] = "run"
    /\ job' = [job EXCEPT ![p] = "ending"]
    /\ SendToShell(p)
    /\ missed' = (missed \/ (Waiting /\ p = child /\ (prhasmsg \/ at = "sleep")))
    /\ UNCHANGED <<at, buf, backgnd, child, fore, nextpid>>

(* The program returns: kill() up to the message to its parent, which is   *)
(* made ready if it waits, and may then run at once.                       *)
JobEnds(p) ==
    /\ job[p] = "run"
    /\ job' = [job EXCEPT ![p] = "ending"]
    /\ SendToShell(p)
    /\ at' = IF at = "recv" /\ ~prhasmsg THEN "take" ELSE at
    /\ missed' = (missed \/ (Waiting /\ p = child /\ (prhasmsg \/ at = "sleep")))
    /\ UNCHANGED <<buf, backgnd, child, fore, nextpid>>

(* The rest of kill().                                                     *)
JobGone(p) ==
    /\ job[p] = "ending"
    /\ job' = [job EXCEPT ![p] = "free"]
    /\ UNCHANGED <<at, buf, backgnd, child, fore, nextpid, slot, missed>>

WaitStep == Test \/ Sleep \/ Take

Next ==
    \/ Read \/ Parse \/ KillFails \/ End \/ Spawn \/ Recvclr \/ Resume \/ WaitStep
    \/ \E p \in Jobs : KillJob(p) \/ JobEnds(p) \/ JobGone(p)

Spec == Init /\ [][Next]_vars

(* The scheduler gives every ready process the CPU (XinuKernel!ReadyRuns). *)
(* Nobody has to type a line, and no job has to end.                       *)
FairSpec == Spec /\ WF_vars(WaitStep)

--------------------------------------------------------------------------------
(* Properties.                                                             *)

(* Every variable keeps its type.                                          *)
TypeOK ==
    /\ at \in {"prompt", "parse", "spawn", "kill", "exit", "clear", "resume",
              "test", "sleep", "recv", "take", "gone"}
    /\ buf \in Seq(Chars)
    /\ backgnd \in BOOLEAN
    /\ child \in Jobs \cup {SHELL}
    /\ job \in [Jobs -> {"free", "susp", "run", "ending"}]
    /\ fore \in [Jobs -> BOOLEAN]
    /\ nextpid \in 1 .. NPROC
    /\ prhasmsg \in BOOLEAN
    /\ prmsg \in Jobs \cup {SHELL}
    /\ missed \in BOOLEAN

(* The loops of lexan() (lexan.c:40-147) and the automaton agree on every  *)
(* line.                                                                   *)
LexanAgrees == at = "parse" => Lexan(buf) = LexRef(buf)

(* When the shell prompts or reads the next line, no job it started in the *)
(* foreground is still running: neither a message of an earlier job, nor   *)
(* one of an earlier process with the same id, ends its wait               *)
(* (shell.c:327-336).  On this rests that such a job's arguments, which    *)
(* are pointers into the shell's own buffers, stay what they were.         *)
JobDone == at \in {"prompt", "parse"} => \A p \in Jobs : ~(fore[p] /\ job[p] = "run")

(* A wait for a job that has ended comes to an end, except where the job's *)
(* message was dropped because one of a background job was waiting         *)
(* (message.c:109-112), or came between receive()'s test and its PR_RECV   *)
(* (message.c:17-18).                                                      *)
WaitEnds ==
    (Waiting /\ job[child] # "run") ~> (at = "prompt" \/ missed)
================================================================================
