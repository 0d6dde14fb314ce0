-------------------------------- MODULE Privd --------------------------------
(***************************************************************************)
(* The privileged helper `privd`: one root process that reads requests     *)
(* from a unix socket, one connection at a time, and executes them. It     *)
(* owns the table of the engines it spawned; the engines themselves and    *)
(* the kernel's nftables table live on when it dies.                       *)
(*                                                                         *)
(* The table `daemons` of the code is keyed by pid file, and every launch  *)
(* plan names the same file, so it is the single variable `child`.         *)
(***************************************************************************)
EXTENDS Naturals, Sequences

CONSTANTS Pids,            (* process identifiers; none is used twice      *)
          NoPid,           (* absence of a process identifier              *)
          MaxCrashes       (* bound: deaths and replacements of the helper *)

ASSUME PrivdAssumption ==
    /\ NoPid \notin Pids
    /\ MaxCrashes \in Nat

VARIABLES privd,           (* does a process accept on the socket?         *)
          child,           (* entry of `daemons`: the last spawned engine  *)
          alive,           (* engine processes running in the system       *)
          used,            (* identifiers handed out so far                *)
          table,           (* is the kernel table inet zapret2 present?    *)
          late,            (* requests whose client no longer waits, still *)
                           (* unread in the socket                         *)
          crashes

privdVars == <<privd, child, alive, used, table, late, crashes>>

Requests == [op : {"nft", "nft_delete", "daemon"}, pid : {NoPid}]
                \cup [op : {"kill"}, pid : Pids]

PrivdTypeOK ==
    /\ privd \in {"up", "down"}
    /\ child \in Pids \cup {NoPid}
    /\ alive \subseteq used
    /\ used \subseteq Pids
    /\ table \in BOOLEAN
    /\ late \in Seq(Requests)
    /\ crashes \in 0..MaxCrashes

PrivdInit ==
    /\ privd = "down"
    /\ child = NoPid
    /\ alive = {}
    /\ used = {}
    /\ table = FALSE
    /\ late = <<>>
    /\ crashes = 0

-----------------------------------------------------------------------------
(* The operations. `ok` is the field of the reply; each operator says what *)
(* an answer with that field has done to alive, used, table and child.     *)

(* `nft -f -` applies the whole script or nothing. *)
OpNft(ok) ==
    /\ table' = (table \/ ok)
    /\ UNCHANGED <<child, alive, used>>

(* A missing table is a success. *)
OpNftDelete(ok) ==
    /\ table' = (table /\ ~ok)
    /\ UNCHANGED <<child, alive, used>>

(* A spawned engine takes the place of the previous entry of the table. *)
OpDaemon(ok) ==
    /\ IF ok
         THEN \E p \in Pids \ used : /\ child' = p
                                     /\ alive' = alive \cup {p}
                                     /\ used' = used \cup {p}
         ELSE UNCHANGED <<child, alive, used>>
    /\ UNCHANGED table

(* Mutant of OpKill: an own child is signalled, not waited for. *)
OpKillWithoutWait(p, ok) ==
    /\ \/ ok /\ alive' \in {alive, alive \ {p}} /\ child' = IF p = child THEN NoPid ELSE child
       \/ p # child /\ ~ok /\ UNCHANGED <<child, alive>>
    /\ UNCHANGED <<used, table>>

(* An own child is killed and waited for. A process this helper did not    *)
(* spawn only gets SIGTERM from /bin/kill: it may be running still when    *)
(* the reply is sent, and /bin/kill may fail.                              *)
OpKill(p, ok) ==
    /\ \/ p = child /\ ok /\ child' = NoPid /\ alive' = alive \ {p}
       \/ p # child /\ ok /\ alive' \in {alive, alive \ {p}} /\ UNCHANGED child
       \/ p # child /\ ~ok /\ UNCHANGED <<child, alive>>
    /\ UNCHANGED <<used, table>>

Exec(m, ok) ==
    \/ m.op = "nft" /\ OpNft(ok)
    \/ m.op = "nft_delete" /\ OpNftDelete(ok)
    \/ m.op = "daemon" /\ OpDaemon(ok)
    \/ m.op = "kill" /\ OpKill(m.pid, ok)

(* Own children are asked with try_wait. Others with `kill -0`, where a    *)
(* command that cannot be started counts as "not running".                 *)
OpStatus(p, running) ==
    \/ running = (p \in alive)
    \/ p # child /\ ~running

-----------------------------------------------------------------------------
(* Steps of the helper and of the processes below it.                      *)

(* Connections are accepted in order, so a request whose client has given  *)
(* up is still executed before any newer one.                              *)
ExecLate ==
    /\ privd = "up"
    /\ late # <<>>
    /\ \E ok \in BOOLEAN : Exec(Head(late), ok)
    /\ late' = Tail(late)
    /\ UNCHANGED <<privd, crashes>>

(* pkexec or sudo brings the helper up with an empty table of engines. *)
PrivdStart ==
    /\ privd = "down"
    /\ privd' = "up"
    /\ child' = NoPid
    /\ UNCHANGED <<alive, used, table, late, crashes>>

(* The helper dies, with everything it had not read yet. *)
PrivdDies ==
    /\ privd = "up"
    /\ crashes < MaxCrashes
    /\ privd' = "down"
    /\ late' = <<>>
    /\ crashes' = crashes + 1
    /\ UNCHANGED <<child, alive, used, table>>

(* A second helper removes the socket file of the first and binds its own: *)
(* the first one is never asked again. (A replacement while the first one  *)
(* still has unread requests is left out.)                                 *)
PrivdReplaced ==
    /\ privd = "up"
    /\ late = <<>>
    /\ crashes < MaxCrashes
    /\ child' = NoPid
    /\ crashes' = crashes + 1
    /\ UNCHANGED <<privd, alive, used, table, late>>

(* An engine ends on its own. *)
EngineExits(p) ==
    /\ p \in alive
    /\ alive' = alive \ {p}
    /\ UNCHANGED <<privd, child, used, table, late, crashes>>

PrivdNext ==
    \/ ExecLate
    \/ PrivdStart
    \/ PrivdDies
    \/ PrivdReplaced
    \/ \E p \in Pids : EngineExits(p)
=============================================================================
