------------------------------ MODULE SocketFds ------------------------------
(***************************************************************************)
(* userland/libc/unistd.c: sockets as file descriptors.  socket() hands    *)
(* out ids of the kernel's one pool of TCP sockets, open() descriptors of  *)
(* the process; both are small numbers, and close() is given either.       *)
(* g_eyn_tcp_socket_open remembers which ids this process got.             *)
(***************************************************************************)
EXTENDS Integers, FiniteSets

CONSTANTS
    Procs,     \* the processes
    PoolMax,   \* EYN_TCP_POOL_MAX: ids are 1..PoolMax - 1
    FirstFd,   \* the first descriptor open() may return, after the standard ones
    LastFd     \* bound: the last one

None == "none"

ASSUME FdAssumption ==
    /\ PoolMax \in Nat /\ FirstFd \in Nat \ {0} /\ LastFd \in Nat
    /\ None \notin Procs

VARIABLES
    pool,   \* the kernel's sockets: the process that each id is allocated to
    files,  \* the kernel's descriptor table of each process
    known,  \* g_eyn_tcp_socket_open of each process
    held    \* how many of what each program has opened and not closed

fdVars == <<pool, files, known, held>>

Ids == 1..(PoolMax - 1)
Fds == FirstFd..LastFd
Socket(n) == <<"socket", n>>
File(n) == <<"file", n>>
Handles == {Socket(n) : n \in Ids} \cup {File(n) : n \in Fds}

FdInit ==
    /\ pool = [id \in Ids |-> None]
    /\ files = [p \in Procs |-> {}]
    /\ known = [p \in Procs |-> {}]
    /\ held = [p \in Procs |-> [h \in Handles |-> 0]]

Opened(p, h) == held' = [held EXCEPT ![p][h] = @ + 1]

\* The kernel's choice of an id: any free one.
Allocated(p, id) == pool[id] = None /\ pool' = [pool EXCEPT ![id] = p]

\* socket(), or accept() for a new connection.
OpenSocket(p) ==
    /\ \E id \in Ids :
           /\ Allocated(p, id)
           /\ known' = [known EXCEPT ![p] = @ \cup {id}]
           /\ Opened(p, Socket(id))
    /\ UNCHANGED files

\* open() returns the lowest free descriptor.
OpenFile(p) ==
    \E fd \in Fds \ files[p] :
        /\ \A lower \in Fds : lower < fd => lower \in files[p]
        /\ files' = [files EXCEPT ![p] = @ \cup {fd}]
        /\ Opened(p, File(fd))
        /\ UNCHANGED <<pool, known>>

\* Mutated form: a closed socket stays in the table.
CloseNumber_Remembers(p, n) ==
    IF n \in known[p]
    THEN pool' = [pool EXCEPT ![n] = None] /\ UNCHANGED <<known, files>>
    ELSE files' = [files EXCEPT ![p] = @ \ {n}] /\ UNCHANGED <<known, pool>>

\* close(): an id of the table is a socket, every other number a descriptor.
CloseNumber(p, n) ==
    IF n \in known[p]
    THEN /\ known' = [known EXCEPT ![p] = @ \ {n}]
         /\ pool' = [pool EXCEPT ![n] = None]
         /\ UNCHANGED files
    ELSE files' = [files EXCEPT ![p] = @ \ {n}] /\ UNCHANGED <<known, pool>>

\* A program closes what it holds, once.
Close(p, h) ==
    /\ held[p][h] > 0
    /\ held' = [held EXCEPT ![p][h] = @ - 1]
    /\ CloseNumber(p, h[2])

FdNext ==
    \E p \in Procs :
        OpenSocket(p) \/ OpenFile(p) \/ \E h \in Handles : Close(p, h)

FdSpec == FdInit /\ [][FdNext]_fdVars

----------------------------------------------------------------------------
Holds(p, n) ==
    (IF n \in Ids THEN held[p][Socket(n)] ELSE 0)
        + (IF n \in Fds THEN held[p][File(n)] ELSE 0)

InKernel(p) ==
    {Socket(id) : id \in {i \in Ids : pool[i] = p}} \cup {File(fd) : fd \in files[p]}

\* What a process takes for its sockets is what the kernel allocated to it, so
\* that an id another process got after it was closed here is not closed here
\* again; and for each number a program holds as many as the kernel has open
\* for it: a program that closes all it opened leaves nothing open, though the
\* wrong one of two with the same number may go first.
NumbersBalance ==
    \A p \in Procs :
        /\ known[p] = {id \in Ids : pool[id] = p}
        /\ \A n \in Ids \cup Fds :
               Holds(p, n) = Cardinality({h \in InKernel(p) : h[2] = n})
=============================================================================
