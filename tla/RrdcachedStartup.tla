--------------------------- MODULE RrdcachedStartup ----------------------------
(***************************************************************************)
(* The life of rrdcached processes that are started with the same options: *)
(* how daemonize takes the pid file, over from a daemon that crashed if    *)
(* need be, opens the socket and forks; how a stopped daemon gives them up *)
(* (close_listen_sockets, cleanup); and how the init script ends processes *)
(* and then removes the pid file.  Processes are started, stopped and      *)
(* killed at any time.                                                     *)
(*                                                                         *)
(* A file lives as long as a process has it open, whatever its name stands *)
(* for by then; a process creates one pid file at most, so that files are  *)
(* named after their creators.  A process stands for its process id, too.  *)
(***************************************************************************)
EXTENDS Naturals

CONSTANTS
    Starts,   \* the processes, one for each start of the program
    None,     \* no process and no file
    MaxStops  \* bound: how often the init script is told to stop the daemon

ASSUME NoneAssumption == None \notin Starts
ASSUME StopsAssumption == MaxStops \in Nat

VARIABLES
    pc,         \* what each process does
    fd,         \* its pid_fd: the file it has opened
    pid,        \* what it has read from that file
    pidfile,    \* the file that has the name of the pid file
    content,    \* of each file: the process it names, or None when it is empty
    socket,     \* the process that is bound to the path of the socket
    script,     \* what `stop' of the init script does
    victims,    \* the processes that it ends
    stops,      \* how often it has been run
    contested,  \* history: a file was taken over that was not the one checked
    robbed,     \* history: the script removed the pid file of a later process
    unwritten,  \* history: the processes whose id did not get into the file
    crashed     \* history: the owners of the pid file that were killed

files == <<pidfile, content, socket>>
stopping == <<script, victims, stops>>
history == <<contested, robbed, unwritten, crashed>>
vars == <<pc, fd, pid, files, stopping, history>>

Init ==
    /\ pc = [s \in Starts |-> "idle"]
    /\ fd = [s \in Starts |-> None]
    /\ pid = [s \in Starts |-> None]
    /\ pidfile = None
    /\ content = [s \in Starts |-> None]
    /\ socket = None
    /\ script = "idle" /\ victims = {} /\ stops = 0
    /\ contested = FALSE /\ robbed = FALSE
    /\ unwritten = {} /\ crashed = {}

\* From taking the pid file until it is given up.
Owning == {"unlink", "bind", "fork", "write", "running", "flushing"}
Owners == {s \in Starts : pc[s] \in Owning}
Alive(s) == pc[s] \notin {"idle", "gone"}
Goto(s, l) == pc' = [pc EXCEPT ![s] = l]

-----------------------------------------------------------------------------
(* daemonize: the pid file.                                                *)

\* open_pidfile("create", O_CREAT|O_EXCL|O_WRONLY)
Create(s) ==
    /\ pc[s] = "idle"
    /\ \/ /\ pidfile = None
          /\ pidfile' = s /\ content' = [content EXCEPT ![s] = None]
          /\ fd' = [fd EXCEPT ![s] = s]
          /\ Goto(s, "unlink")
       \/ /\ pidfile # None
          /\ Goto(s, "open") /\ UNCHANGED <<pidfile, content, fd>>
    /\ UNCHANGED <<pid, socket, stopping, history>>

\* check_pidfile: the file may have been removed in between.
Open(s) ==
    /\ pc[s] = "open"
    /\ fd' = [fd EXCEPT ![s] = pidfile]
    /\ Goto(s, IF pidfile = None THEN "gone" ELSE "read")
    /\ UNCHANGED <<pid, files, stopping, history>>

\* Mutant: an empty pid file is taken for a stale one.
Read_EmptyIsStale(s) ==
    /\ pc[s] = "read"
    /\ pid' = [pid EXCEPT ![s] = content[fd[s]]]
    /\ Goto(s, IF content[fd[s]] = None THEN "truncate" ELSE "kill")
    /\ UNCHANGED <<fd, files, stopping, history>>

\* An empty file is that of a process that is starting, or did not survive it.
Read(s) ==
    /\ pc[s] = "read"
    /\ pid' = [pid EXCEPT ![s] = content[fd[s]]]
    /\ Goto(s, IF content[fd[s]] = None THEN "gone" ELSE "kill")
    /\ UNCHANGED <<fd, files, stopping, history>>

\* Mutant: a start that is refused removes the pid file.
Kill0_Removes(s) ==
    /\ pc[s] = "kill"
    /\ \/ ~ Alive(pid[s]) /\ Goto(s, "truncate") /\ UNCHANGED pidfile
       \/ pidfile' = None /\ Goto(s, "gone")
    /\ UNCHANGED <<fd, pid, content, socket, stopping, history>>

\* kill(pid, 0): when the daemon is gone, another program may have its process id.
Kill0(s) ==
    /\ pc[s] = "kill"
    /\ \/ ~ Alive(pid[s]) /\ Goto(s, "truncate")
       \/ Goto(s, "gone")
    /\ UNCHANGED <<fd, pid, files, stopping, history>>

\* ftruncate: the file has become that of this process.
Truncate(s) ==
    /\ pc[s] = "truncate"
    /\ content' = [content EXCEPT ![fd[s]] = None]
    /\ contested' = (contested \/ pidfile # fd[s] \/ content[fd[s]] # pid[s])
    /\ Goto(s, "unlink")
    /\ UNCHANGED <<fd, pid, pidfile, socket, stopping, robbed, unwritten, crashed>>

-----------------------------------------------------------------------------
(* daemonize: the socket, the fork, the process id.                        *)

\* open_listen_socket_unix removes what has the name of the socket.
Unlink(s) ==
    /\ pc[s] = "unlink"
    /\ socket' = None /\ Goto(s, "bind")
    /\ UNCHANGED <<fd, pid, pidfile, content, stopping, history>>

\* Mutant: the pid file stays when a start fails.
Fail_KeepsPidFile(s) == pidfile' = pidfile /\ Goto(s, "gone")

\* The label error: the pid file is removed, the socket stays.
Fail(s) == pidfile' = None /\ Goto(s, "gone")

\* bind and listen: without a socket there is no daemon.
Bind(s) ==
    /\ pc[s] = "bind"
    /\ \/ /\ socket = None
          /\ socket' = s /\ Goto(s, "fork") /\ UNCHANGED pidfile
       \/ /\ socket = None                  \* listen fails
          /\ Fail(s) /\ UNCHANGED socket
       \/ /\ Fail(s) /\ UNCHANGED socket    \* socket or bind fails
    /\ UNCHANGED <<fd, pid, content, stopping, history>>

\* fork and chdir: the child goes on.
Fork(s) ==
    /\ pc[s] = "fork"
    /\ \/ Goto(s, "write") /\ UNCHANGED pidfile
       \/ Fail(s)
    /\ UNCHANGED <<fd, pid, content, socket, stopping, history>>

\* install_signal_handlers, write_pidfile: through the descriptor, not the name.  When
\* fdopen fails the start has failed, and the pid file stays; when fprintf or fclose
\* do, nobody notices.
Write(s) ==
    /\ pc[s] = "write"
    /\ \/ /\ content' = [content EXCEPT ![fd[s]] = s]
          /\ Goto(s, "running") /\ UNCHANGED unwritten
       \/ /\ unwritten' = unwritten \union {s}
          /\ Goto(s, "gone") \/ Goto(s, "running")
          /\ UNCHANGED content
    /\ UNCHANGED <<fd, pid, pidfile, socket, stopping, contested, robbed, crashed>>

-----------------------------------------------------------------------------
(* The end of a daemon.                                                    *)

\* Mutant: the pid file is removed before the values are flushed.
Close_RemovesPidFile(s) ==
    /\ pc[s] = "running"
    /\ socket' = None /\ pidfile' = None /\ Goto(s, "flushing")
    /\ UNCHANGED <<fd, pid, content, stopping, history>>

\* A signal: close_listen_sockets removes the name of the socket.
Close(s) ==
    /\ pc[s] = "running"
    /\ socket' = None /\ Goto(s, "flushing")
    /\ UNCHANGED <<fd, pid, pidfile, content, stopping, history>>

\* cleanup, after everything is flushed, or when main cannot create its threads.
Cleanup(s) ==
    /\ pc[s] \in {"running", "flushing"}
    /\ pidfile' = None /\ Goto(s, "gone")
    /\ UNCHANGED <<fd, pid, content, socket, stopping, history>>

\* The process is killed, or gets a signal before the handlers are there.
Killed(s) ==
    /\ Alive(s) /\ Goto(s, "gone")
    /\ crashed' = crashed \union ({s} \intersect Owners)
    /\ UNCHANGED <<fd, pid, files, stopping, contested, robbed, unwritten>>

-----------------------------------------------------------------------------
(* The init script, `stop'.                                                *)

\* killproc finds processes by their name or by a pid file, and ends them.
KillProc ==
    /\ script = "idle" /\ script' = "kill"
    /\ stops < MaxStops /\ stops' = stops + 1
    /\ \E found \in SUBSET {s \in Starts : Alive(s)} : victims' = found
    /\ UNCHANGED <<pc, fd, pid, files, history>>

\* It succeeds when they are gone.
KillProcEnds ==
    /\ script = "kill" /\ victims' = {}
    /\ script' = IF \E s \in victims : Alive(s) THEN "idle" ELSE "remove"
    /\ UNCHANGED <<pc, fd, pid, files, stops, history>>

\* rm -rf: the file that has the name by now.
Remove ==
    /\ script = "remove" /\ script' = "idle"
    /\ pidfile' = None
    /\ robbed' = (robbed \/ Owners # {})
    /\ UNCHANGED <<pc, fd, pid, content, socket, victims, stops, contested, unwritten, crashed>>

Stop == KillProc \/ KillProcEnds \/ Remove
Daemonize(s) == Create(s) \/ Open(s) \/ Read(s) \/ Kill0(s) \/ Truncate(s)
                \/ Unlink(s) \/ Bind(s) \/ Fork(s) \/ Write(s)
Next == Stop \/ \E s \in Starts : Daemonize(s) \/ Close(s) \/ Cleanup(s) \/ Killed(s)

Spec == Init /\ [][Next]_vars

-----------------------------------------------------------------------------
(* Type invariant: a process past "open" has a file open, and what is      *)
(* probed is the id of a process that wrote its own.                       *)
TypeOK ==
    /\ pc \in [Starts -> {"idle", "open", "read", "kill", "truncate", "gone"} \union Owning]
    /\ fd \in [Starts -> Starts \union {None}]
    /\ pid \in [Starts -> Starts \union {None}]
    /\ pidfile \in Starts \union {None}
    /\ content \in [Starts -> Starts \union {None}]
    /\ socket \in Starts \union {None}
    /\ script \in {"idle", "kill", "remove"} /\ victims \subseteq Starts
    /\ stops \in 0 .. MaxStops
    /\ contested \in BOOLEAN /\ robbed \in BOOLEAN
    /\ unwritten \subseteq Starts /\ crashed \subseteq Starts
    /\ \A s \in Starts : pc[s] \in Owning \union {"read", "kill", "truncate"} => fd[s] # None
    /\ \A s \in Starts : pc[s] \in {"kill", "truncate"} => pid[s] # None

\* The two ways in which an owner loses its file to another process: check_pidfile
\* takes over a file that has changed hands since it was probed, and the init script
\* removes one that is newer than the daemon it has ended.
Undisturbed == ~ contested /\ ~ robbed

(* There is one daemon at a time for a pid file, whatever crashed or was   *)
(* stopped before and however many are started at once, unless the file    *)
(* changed hands between two steps of check_pidfile or of the init script  *)
(* (daemonize, check_pidfile, cleanup).                                    *)
OneDaemon == Undisturbed => \A s, r \in Owners : s = r

(* While a daemon serves its clients it has the pid file, so that no other *)
(* one starts, and the file names it, so that it can be stopped, or is     *)
(* empty if its id could not be written.  The socket leads to it.  So      *)
(* nobody's clean-up and nobody's failed start removes the files of        *)
(* another process (remove_pidfile, close_listen_sockets go by the name).  *)
FilesNameTheDaemon ==
    Undisturbed => \A s \in Starts :
        pc[s] = "running" =>
            /\ pidfile # None /\ fd[s] = pidfile /\ socket = s
            /\ content[pidfile] = IF s \in unwritten THEN None ELSE s

(* What is left when no process is left is due to a crash, or to an id     *)
(* that could not be written: a daemon that ends in order, and a start     *)
(* that fails on its way, remove the pid file.  The file names a process   *)
(* that was killed while it owned the file; an empty one, which no later   *)
(* start takes over, was open in one that was killed or could not write    *)
(* (daemonize, write_pidfile, cleanup).                                    *)
LeftoversAreExplained ==
    Undisturbed /\ pidfile # None /\ (\A s \in Starts : ~ Alive(s)) =>
        IF content[pidfile] = None
        THEN \E s \in crashed \union unwritten : fd[s] = pidfile
        ELSE content[pidfile] \in crashed

(* Who has got as far as the socket owns the pid file, and no other daemon *)
(* that was started with the same arguments is alive, as the comment in    *)
(* open_listen_socket_unix says.                                           *)
OwnsPidFile == \A s, r \in Owners : s = r
=============================================================================
