------------------------------- MODULE Sockets -------------------------------
(***************************************************************************)
(* The sockets of src/src/Socket.cpp.  The states of a socket are flags    *)
(* (module Flags); the multiplexer, whose engine lives outside this        *)
(* repository, calls MultiplexEvent, MultiplexError and MultiplexRead when *)
(* the descriptor is ready, and these call back into the application,      *)
(* which may connect, construct and delete sockets from there.             *)
(*                                                                         *)
(* There is one thread.  `calls' is its stack of callbacks that have not   *)
(* returned, those MultiplexEvent still has work to do after being marked  *)
(* by its name, and of constructors that are binding, innermost first.     *)
(* The kernel's side is `link', the state of each descriptor, where "failed"   *)
(* holds an error that nobody has read yet: reading SO_ERROR clears it.    *)
(* All listeners bind to one address, and `holder' has it.                 *)
(***************************************************************************)
EXTENDS Flags, Integers, Sequences, FiniteSets

CONSTANTS
    Socks,        \* addresses sockets are allocated at
    NoSock,       \* a frame that will not touch a socket again
    Fds,          \* descriptors the kernel hands out, the lowest free one first
    MaxCallbacks  \* bound: callbacks nested in each other

ASSUME SocketsAssumption == NoSock \notin Socks /\ Fds \subseteq Nat /\ IsFiniteSet(Fds) /\ MaxCallbacks \in Nat

NoFd == -1

(* socketstatus_t: every one of them is a mask, none a bit's index. *)
SS_DEAD == 2
SS_CONNECTING == 8
SS_CONNECTED == 16
SS_ACCEPTING == 32
SS_ACCEPTED == 64
MX_WRITABLE == 128
MX_READABLE == 256

VARIABLES
    kind,         \* "none" or the class of the object at an address
    sock_fd,      \* NoFd if socket() failed, which no one checks
    Flag_Values,
    openFds,      \* descriptors this process has open
    link,         \* descriptor -> "idle", "pending", "up" or "failed"
    holder,       \* who has the bind address: "none", "other" or a socket
    calls,
    fault,        \* "none", or what ended the program: "out_of_range" thrown by
                  \* HasFlag, or "dangling", a write to a socket that is deleted
    refused,      \* descriptors accepted that no ClientSocket was made for
    reached,      \* connection sockets that were connected since their construction
    told          \* those whose OnError was called since they began to connect

SocketVars == <<kind, sock_fd, Flag_Values, openFds, link, holder, calls, fault, refused, reached, told>>

Live(s) == kind[s] # "none"
Running == fault = "none" /\ (calls # <<>> => Head(calls).in # "bind")
Push(in, s) == calls' = <<[in |-> in, sock |-> s]>> \o calls
MayCall == Running /\ Len(calls) < MaxCallbacks
EngineCalls == Running /\ calls = <<>>
Has(s, flag) == HasFlag(Flag_Values[s], flag)

SocketInit ==
    /\ kind = [s \in Socks |-> "none"]
    /\ sock_fd = [s \in Socks |-> NoFd]
    /\ Flag_Values = [s \in Socks |-> {}]
    /\ openFds = {} /\ refused = {}
    /\ link = [fd \in Fds |-> "idle"]
    /\ holder = "none"
    /\ calls = <<>> /\ fault = "none"
    /\ reached = {} /\ told = {}

-----------------------------------------------------------------------------
(* The constructor Socket(fd, ...) of an object of class k at s. *)
Construct(s, k, fd, flags) ==
    /\ ~Live(s)
    /\ kind' = [kind EXCEPT ![s] = k]
    /\ sock_fd' = [sock_fd EXCEPT ![s] = fd]
    /\ Flag_Values' = [Flag_Values EXCEPT
                         ![s] = SetFlags(SetFlags({}, {MX_READABLE, MX_WRITABLE}), flags)]

LowestFree == {fd \in Fds \ openFds : \A e \in Fds \ openFds : fd <= e}

Opened(fd) == openFds' = openFds \cup ({fd} \ {NoFd})

NewConnection(s) ==
    /\ Running
    /\ \E fd \in LowestFree \cup {NoFd} :
          Construct(s, "connection", fd, {}) /\ Opened(fd)
    /\ UNCHANGED <<link, holder, calls, fault, refused, reached, told>>

(* Faulty variant: a socket that goes away leaves its descriptor open. *)
CloseLeaks(s) ==
    /\ kind' = [kind EXCEPT ![s] = "none"]
    /\ Flag_Values' = [Flag_Values EXCEPT ![s] = {}]
    /\ sock_fd' = [sock_fd EXCEPT ![s] = NoFd]
    /\ UNCHANGED <<openFds, link>>
    /\ holder' = IF holder = s THEN "none" ELSE holder
    /\ reached' = reached \ {s} /\ told' = told \ {s}

(* ~Socket: the descriptor is closed, and what it was bound to is free. *)
Close(s) ==
    /\ kind' = [kind EXCEPT ![s] = "none"]
    /\ Flag_Values' = [Flag_Values EXCEPT ![s] = {}]
    /\ sock_fd' = [sock_fd EXCEPT ![s] = NoFd]
    /\ openFds' = openFds \ {sock_fd[s]}
    /\ link' = [fd \in Fds |-> IF fd = sock_fd[s] THEN "idle" ELSE link[fd]]
    /\ holder' = IF holder = s THEN "none" ELSE holder
    /\ reached' = reached \ {s} /\ told' = told \ {s}

(* delete s: by the application, or by a callback of s itself. *)
Destroy(s) ==
    /\ Running /\ Live(s)
    /\ Close(s)
    /\ calls' = [i \in DOMAIN calls |->
                    [calls[i] EXCEPT !.sock = IF @ = s THEN NoSock ELSE @]]
    /\ UNCHANGED <<fault, refused>>

-----------------------------------------------------------------------------
(* The constructor of ListeningSocket tries bind() until it succeeds.  For *)
(* an invalid host it throws, and leaves nothing behind.                   *)
NewListener(s) ==
    /\ MayCall
    /\ \E fd \in LowestFree \cup {NoFd} :
          Construct(s, "listener", fd, {}) /\ Opened(fd)
    /\ Push("bind", s)
    /\ UNCHANGED <<link, holder, fault, refused, reached, told>>

Binding(s) == calls # <<>> /\ Head(calls).in = "bind" /\ Head(calls).sock = s

BindAndListen(s) ==
    /\ Binding(s) /\ sock_fd[s] # NoFd /\ holder = "none"
    /\ holder' = s
    /\ calls' = Tail(calls)
    /\ UNCHANGED <<kind, sock_fd, Flag_Values, openFds, link, fault,
                   refused, reached, told>>

(* Faulty variant: a listen() that fails is tried again like bind(). *)
ListenFailsRetry(s) ==
    /\ Binding(s) /\ holder = "none" /\ sock_fd[s] # NoFd
    /\ holder' = s
    /\ UNCHANGED <<kind, sock_fd, Flag_Values, openFds, link, calls, fault,
                   refused, reached, told>>

(* listen() fails and the constructor throws: the base is destroyed. *)
ListenFails(s) ==
    /\ Binding(s) /\ holder = "none" /\ sock_fd[s] # NoFd
    /\ Close(s)
    /\ calls' = Tail(calls)
    /\ UNCHANGED <<fault, refused>>

-----------------------------------------------------------------------------
(* ConnectionSocket::Connect, by what connect() returns. *)
ConnectNow(s) ==
    /\ MayCall /\ kind[s] = "connection" /\ sock_fd[s] # NoFd
    /\ link[sock_fd[s]] \in {"idle", "up"}
    /\ link' = [link EXCEPT ![sock_fd[s]] = "up"]
    /\ Flag_Values' = [Flag_Values EXCEPT ![s] = SetFlag(@, SS_CONNECTED)]
    /\ reached' = reached \cup {s}
    /\ Push("callback", NoSock)
    /\ UNCHANGED <<kind, sock_fd, openFds, holder, fault, refused, told>>

ConnectInProgress(s) ==
    /\ Running /\ kind[s] = "connection" /\ sock_fd[s] # NoFd
    /\ link[sock_fd[s]] = "idle"
    /\ link' = [link EXCEPT ![sock_fd[s]] = "pending"]
    /\ Flag_Values' = [Flag_Values EXCEPT ![s] = SetFlags(@, {SS_CONNECTING, MX_WRITABLE})]
    /\ told' = IF Has(s, SS_CONNECTED) THEN told ELSE told \ {s}
    /\ UNCHANGED <<kind, sock_fd, openFds, holder, calls, fault, refused, reached>>

(* The kernel forgets the error of a descriptor when it reports it. *)
ReadError(s) ==
    link' = [fd \in Fds |-> IF fd = sock_fd[s] /\ link[fd] = "failed" THEN "idle"
                            ELSE link[fd]]

(* Refused at once, or EBADF, EALREADY, EISCONN or an error not yet read. *)
ConnectFails(s) ==
    /\ MayCall /\ kind[s] = "connection"
    /\ ReadError(s)
    /\ told' = told \cup {s}
    /\ Push("callback", NoSock)
    /\ UNCHANGED <<kind, sock_fd, Flag_Values, openFds, holder, fault,
                   refused, reached>>

-----------------------------------------------------------------------------
(* The multiplexer: a descriptor is ready unless it is still connecting.   *)
Ready(s) == EngineCalls /\ sock_fd[s] # NoFd /\ link[sock_fd[s]] # "pending"
Connecting(s) == Ready(s) /\ kind[s] = "connection" /\ ~Has(s, SS_CONNECTED)

(* ConnectionSocket::MultiplexEvent with SS_CONNECTING set. *)
EventEstablished(s) ==
    /\ Connecting(s) /\ Has(s, SS_CONNECTING)
    /\ link[sock_fd[s]] # "failed"
    /\ Flag_Values' = [Flag_Values EXCEPT
                         ![s] = SetFlag(RemoveFlag(@, SS_CONNECTING), SS_CONNECTED)]
    /\ Push("callback", NoSock)
    /\ UNCHANGED <<kind, sock_fd, openFds, link, holder, fault, refused,
                   reached, told>>

(* Faulty variant: the error is not reported and the attempt made again. *)
EventFailedRetries(s) ==
    /\ Connecting(s) /\ Has(s, SS_CONNECTING)
    /\ link[sock_fd[s]] = "failed"
    /\ link' = [link EXCEPT ![sock_fd[s]] = "pending"]
    /\ UNCHANGED <<kind, sock_fd, Flag_Values, openFds, holder, calls, fault,
                   refused, reached, told>>

EventFailed(s) ==
    /\ Connecting(s) /\ Has(s, SS_CONNECTING)
    /\ link[sock_fd[s]] = "failed"
    /\ ReadError(s)
    /\ told' = told \cup {s}
    /\ Push("MultiplexEvent", s)
    /\ UNCHANGED <<kind, sock_fd, Flag_Values, openFds, holder, fault,
                   refused, reached>>

(* Neither flag: an event that comes before Connect kills the socket. *)
EventTooEarly(s) ==
    /\ Connecting(s) /\ ~Has(s, SS_CONNECTING)
    /\ Flag_Values' = [Flag_Values EXCEPT ![s] = SetFlag(@, SS_DEAD)]
    /\ UNCHANGED <<kind, sock_fd, openFds, link, holder, calls, fault,
                   refused, reached, told>>

MultiplexEvent(s) == EventEstablished(s) \/ EventFailed(s) \/ EventTooEarly(s)

(* Faulty variant: the error is read and nobody is told. *)
MultiplexErrorSilent(s) ==
    /\ Ready(s) /\ kind[s] \in {"connection", "client"}
    /\ ReadError(s)
    /\ UNCHANGED <<kind, sock_fd, Flag_Values, openFds, holder, calls, fault, refused, reached, told>>

(* MultiplexError of ConnectionSocket and of ClientSocket. *)
MultiplexError(s) ==
    /\ Ready(s) /\ kind[s] \in {"connection", "client"}
    /\ ReadError(s)
    /\ told' = told \cup {c \in {s} : kind[c] = "connection"}
    /\ Push("callback", NoSock)
    /\ UNCHANGED <<kind, sock_fd, Flag_Values, openFds, holder, fault,
                   refused, reached>>

(* OnConnect, OnError or OnAccept returns.  If MultiplexEvent had called   *)
(* OnError it marks its socket as dead.                                    *)
CallbackReturns ==
    /\ Running /\ calls # <<>>
    /\ calls' = Tail(calls)
    /\ LET marks == Head(calls).in = "MultiplexEvent"
       IN  /\ fault' = IF marks /\ Head(calls).sock = NoSock THEN "dangling" ELSE fault
           /\ Flag_Values' = [s \in Socks |->
                IF marks /\ s = Head(calls).sock THEN SetFlag(Flag_Values[s], SS_DEAD)
                ELSE Flag_Values[s]]
    /\ UNCHANGED <<kind, sock_fd, openFds, link, holder, refused, reached, told>>

-----------------------------------------------------------------------------
(* ListeningSocket::MultiplexRead: OnAccept(fd, addr) makes a ClientSocket *)
(* of the descriptor, whose own OnAccept is called next; or it returns     *)
(* nullptr, and the descriptor has no owner when the exception is thrown.  *)
Accept(s, c) ==
    /\ EngineCalls /\ holder = s
    /\ \E fd \in LowestFree :
         /\ Construct(c, "client", fd, {SS_ACCEPTING, SS_ACCEPTED})
         /\ Opened(fd)
         /\ link' = [link EXCEPT ![fd] = "up"]
    /\ Push("callback", NoSock)
    /\ UNCHANGED <<holder, fault, refused, reached, told>>

AcceptNull(s) ==
    /\ EngineCalls /\ holder = s
    /\ \E fd \in LowestFree : Opened(fd) /\ refused' = refused \cup {fd}
    /\ UNCHANGED <<kind, sock_fd, Flag_Values, link, holder, calls, fault,
                   reached, told>>

(* ClientSocket::MultiplexEvent. *)
ClientEvent(s) ==
    /\ Ready(s) /\ kind[s] = "client"
    /\ fault' = IF Throws(SS_ACCEPTED) THEN "out_of_range" ELSE fault
    /\ Flag_Values' = [Flag_Values EXCEPT ![s] =
         IF fault' # "none" \/ Has(s, SS_ACCEPTED) THEN @
         ELSE IF Has(s, SS_ACCEPTING) THEN RemoveFlag(SetFlag(@, SS_ACCEPTED), SS_ACCEPTING)
         ELSE SetFlag(@, SS_DEAD)]
    /\ UNCHANGED <<kind, sock_fd, openFds, link, holder, calls, refused, reached, told>>

-----------------------------------------------------------------------------
(* The kernel and the rest of the world. *)
KernelAnswers(fd) ==
    /\ fault = "none" /\ link[fd] = "pending"
    /\ \E answer \in {"up", "failed"} :
         /\ link' = [link EXCEPT ![fd] = answer]
         /\ reached' = reached \cup {s \in Socks : sock_fd[s] = fd /\ answer = "up"}
    /\ UNCHANGED <<kind, sock_fd, Flag_Values, openFds, holder, calls, fault, refused, told>>

PeerResets(fd) ==
    /\ fault = "none" /\ link[fd] = "up"
    /\ link' = [link EXCEPT ![fd] = "failed"]
    /\ UNCHANGED <<kind, sock_fd, Flag_Values, openFds, holder, calls, fault, refused, reached, told>>

OtherProcess ==
    /\ fault = "none" /\ holder \in {"none", "other"}
    /\ holder' = IF holder = "none" THEN "other" ELSE "none"
    /\ UNCHANGED <<kind, sock_fd, Flag_Values, openFds, link, calls, fault,
                   refused, reached, told>>

SocketNext ==
    \/ \E s \in Socks :
          \/ NewConnection(s) \/ Destroy(s)
          \/ NewListener(s) \/ BindAndListen(s) \/ ListenFails(s)
          \/ ConnectNow(s) \/ ConnectInProgress(s) \/ ConnectFails(s)
          \/ EventEstablished(s) \/ EventFailed(s) \/ EventTooEarly(s)
          \/ MultiplexError(s) \/ ClientEvent(s) \/ AcceptNull(s)
          \/ \E c \in Socks : Accept(s, c)
    \/ CallbackReturns
    \/ \E fd \in Fds : KernelAnswers(fd) \/ PeerResets(fd)
    \/ OtherProcess

SocketSpec == SocketInit /\ [][SocketNext]_SocketVars

(* A constructor goes on trying; the kernel answers a connection attempt;  *)
(* the engine reports a descriptor that stays ready; callbacks return, at  *)
(* whatever depth, however often they use the sockets before that.         *)
SocketFairness ==
    /\ WF_SocketVars(\E s \in Socks : BindAndListen(s) \/ ListenFails(s))
    /\ \A fd \in Fds : WF_SocketVars(KernelAnswers(fd))
    /\ \A s \in Socks : SF_SocketVars(MultiplexEvent(s))
    /\ \A d \in 1 .. MaxCallbacks : SF_SocketVars(Len(calls) = d /\ CallbackReturns)

-----------------------------------------------------------------------------
(* Reading SO_ERROR forgets it, so an error that MultiplexError has read   *)
(* makes the next MultiplexEvent take the attempt for a success.  What     *)
(* holds: a socket that says it is connected was, unless OnError said      *)
(* otherwise before.  (Socket.cpp:164, :184)                               *)
ConnectHonest ==
    \A s \in Socks :
       kind[s] = "connection" /\ Has(s, SS_CONNECTED) => s \in reached \cup told

(* However constructors, destructors and callbacks nest, and whichever     *)
(* of them throws, each open descriptor belongs to exactly one socket, or  *)
(* is one that OnAccept refused.  (Socket.cpp:99-121, :297, :317)          *)
DescriptorsOwned ==
    /\ openFds = refused \cup ({sock_fd[s] : s \in Socks} \ {NoFd})
    /\ \A s \in Socks : sock_fd[s] \notin refused
    /\ \A s, c \in Socks : s # c /\ sock_fd[s] = sock_fd[c] => sock_fd[s] = NoFd

Attempting(s) ==
    /\ fault = "none" /\ kind[s] = "connection"
    /\ Has(s, SS_CONNECTING) /\ ~Has(s, SS_CONNECTED) /\ ~Has(s, SS_DEAD)

(* Every connection attempt comes to something: the socket is connected,   *)
(* dead or gone, or OnError is called, however often callbacks connect     *)
(* again, provided that no constructor keeps the thread for ever.          *)
(* (Socket.cpp:156-182)                                                    *)
AttemptResolved ==
    <>[](\A s \in Socks : ~Binding(s)) =>
       \A s \in Socks : Attempting(s) ~> ~Attempting(s) \/ s \in told

(* The endless retry of the listener's constructor ends once other         *)
(* programs leave the address alone, unless a listener of this program     *)
(* has it, which cannot go away meanwhile, or socket() had failed.         *)
(* (Socket.cpp:240, :292)                                                  *)
BindEnds ==
    LET Trying == \E s \in Socks :
                     Binding(s) /\ holder \notin Socks \ {s} /\ sock_fd[s] # NoFd
    IN  <>[](holder # "other") => []<>~Trying

(* Utilities.h:170, "Check if this item has a flag, @return true or        *)
(* false": HasFlag answers when an event asks for a flag of a socket.      *)
HasFlagAnswers == fault # "out_of_range"

=============================================================================
