--------------------------- MODULE PhyDiscipline ---------------------------
(***************************************************************************)
(* The discipline that the PHY functions of PhyAccess keep, each by        *)
(* itself: what is left of a function at each of its steps, on every way   *)
(* out of an error, needs of the PHY only what the steps before provide,   *)
(* and needs it under the lock.  Functions are finite and know nothing of  *)
(* the threads that call them, so what is assumed of them here is          *)
(* evaluated, not sampled.  That it is enough, for any number of threads   *)
(* and errors, is proved in PhyProofs.                                     *)
(***************************************************************************)
EXTENDS PhyAccess

(* What may be left of a function. *)

Rest(s) == Strip(Tail(s))
Cut(s, held) == Strip(AfterError(Tail(s), Head(s).depth, held))
Skipped(s) == Strip(SubSeq(s, Len(SetPage(778)) + 2, Len(s)))

Starts(s, do) == s # <<>> /\ Head(s).do = do
Locally(s, kind) == Starts(s, "local") /\ Head(s).kind = kind

\* An acquire whose failure ends the function.
Gives(s) == Starts(s, "acquire") /\ Head(s).kind \notin {"reset", "reacquire"}

Suffixes(c) == {Strip(SubSeq(Program[c], i, Len(Program[c]))) : i \in 1..(Len(Program[c]) + 1)}

Remains(c) ==
  Suffixes(c) \cup {Cut(s, TRUE) : s \in {r \in Suffixes(c) : Starts(r, "mdic")}}
              \cup {Cut(s, FALSE) : s \in {r \in Suffixes(c) : Gives(r)}}
-----------------------------------------------------------------------------
(* What it needs. *)

\* No step of s before the i-th has one of these kinds.
NoneBefore(s, i, kinds) == \A j \in 1..(i - 1) : s[j].kind \notin kinds

\* It gives back a lock that it does not take first.
Held(s) ==
  \E i \in DOMAIN s :
    /\ s[i].do = "release" \/ <<s[i].do, s[i].kind>> = <<"local", "reset">>
    /\ \A j \in 1..(i - 1) : s[j].do # "acquire"

\* The address hw->phy.addr has to have, the page each address has to be on, the ports
\* whose address the thread itself must have written last.
Addrs(s) ==
  {s[i].addr : i \in {j \in DOMAIN s : s[j].do = "mdic" /\ NoneBefore(s, j, {"aim", "select"})}}

Pages(s) ==
  {<<s[i].addr, s[i].page>> :
     i \in {j \in DOMAIN s : s[j].do = "mdic" /\ s[j].page # AnyPage /\ NoneBefore(s, j, {"select"})}}

Latches(s) ==
  {s[i].arg : i \in {j \in DOMAIN s : s[j].kind = "data" /\ NoneBefore(s, j, {"port"})}}

\* The wakeup page must be open; it will be closed with what was saved.
Opened(s) == \E i \in DOMAIN s : s[i].page = 800 /\ NoneBefore(s, i, {"open"})
Closing(s) == \E i \in DOMAIN s : s[i].kind \in {"open", "close", "arm"} /\ NoneBefore(s, i, {"save"})

NeedsNothing(s) == Pages(s) = {} /\ Latches(s) = {} /\ ~Opened(s) /\ ~Closing(s)
-----------------------------------------------------------------------------
(* The discipline. *)

\* Every step leads to what may be left.
Closed(c) ==
  /\ Strip(Program[c]) \in Remains(c)
  /\ \A s \in Remains(c) :
       /\ s # <<>> => Rest(s) \in Remains(c)
       /\ Starts(s, "mdic") => Cut(s, TRUE) \in Remains(c)
       /\ Gives(s) => Cut(s, FALSE) \in Remains(c)
       /\ Starts(s, "mdic") /\ Head(s).kind = "check" => Skipped(s) \in Remains(c)

\* What kinds of steps there are, and the arguments they take.
Proper(s) ==
  s # <<>> =>
    /\ Head(s).do = "mdic" =>
         Head(s).kind \in {"io", "select", "port", "data", "save", "open", "close", "check"}
    /\ Head(s).do = "csr" => Head(s).kind \in {"port", "data"} /\ Head(s).arg = "kmrn"
    /\ Head(s).do \in {"acquire", "release"} => Head(s).kind \in {"", "reset", "reacquire"}
    /\ Head(s).kind = "aim" => Head(s).arg \in {1, 2}
    /\ Head(s).kind = "select" =>
         Head(s).arg.page \in 0..801 /\ Head(s).arg.as \subseteq {1, 2} /\ Head(s).arg.back \in {1, 2}
    /\ Head(s).kind = "port" => Head(s).arg \in Ports

\* Accesses, and the changes of 769.17, are made under the lock, which is taken once and
\* given back once, whatever fails; outside it nothing is needed but the address.
Locked(s) ==
  /\ ~Held(s) => NeedsNothing(s)
  /\ Starts(s, "mdic") \/ Starts(s, "csr") \/ Starts(s, "release") => Held(s)
  /\ Locally(s, "arm") \/ Locally(s, "reset") => Held(s)
  /\ Starts(s, "acquire") \/ Locally(s, "want") \/ Locally(s, "gate") => ~Held(s)
  /\ Starts(s, "acquire") => Held(Rest(s))
  /\ Starts(s, "acquire") /\ Head(s).kind = "reset" => Locally(Rest(s), "reset")
  /\ Starts(s, "release") \/ Locally(s, "reset") => NeedsNothing(s) /\ ~Held(Rest(s))
  /\ Locally(s, "reset") => Addrs(s) = {}
  /\ Starts(s, "mdic") \/ Starts(s, "csr") \/ Locally(s, "arm") => Held(Rest(s))
  /\ Locally(s, "aim") => (Held(Rest(s)) <=> Held(s))
  /\ Locally(s, "want") \/ Locally(s, "gate") => ~Held(Rest(s))
  /\ Starts(s, "mdic") => Held(Cut(s, TRUE))
  /\ Gives(s) => ~Held(Cut(s, FALSE))
  /\ Starts(s, "mdic") /\ Head(s).kind = "check" => Held(Skipped(s))

\* phy.addr is set, or was known before.
AimsFirst(s) ==
  /\ Starts(s, "mdic") => Head(s).addr \in Addrs(s)
  /\ Locally(s, "aim") => Addrs(Rest(s)) \subseteq {Head(s).arg}
  /\ Starts(s, "mdic") /\ Head(s).kind = "select" =>
       Addrs(Rest(s)) \cup Addrs(Cut(s, TRUE)) \subseteq {Head(s).arg.back}
  /\ Starts(s, "mdic") /\ Head(s).kind # "select" =>
       Addrs(Rest(s)) \cup Addrs(Cut(s, TRUE)) \subseteq Addrs(s)
  /\ Starts(s, "mdic") /\ Head(s).kind = "check" => Addrs(Skipped(s)) \subseteq Addrs(s)
  /\ s # <<>> /\ Head(s).do # "mdic" /\ ~Locally(s, "aim") => Addrs(Rest(s)) \subseteq Addrs(s)
  /\ Gives(s) => Addrs(Cut(s, FALSE)) \subseteq Addrs(s)

\* So is the page, unless an error may have kept it from being selected.
SelectsFirst(s) ==
  /\ Starts(s, "mdic") /\ Head(s).page # AnyPage => <<Head(s).addr, Head(s).page>> \in Pages(s)
  /\ Starts(s, "mdic") /\ Head(s).kind = "select" =>
       Pages(Rest(s)) \subseteq Head(s).arg.as \X {Head(s).arg.page} /\ Pages(Cut(s, TRUE)) = {}
  /\ Starts(s, "mdic") /\ Head(s).kind # "select" =>
       Pages(Rest(s)) \cup Pages(Cut(s, TRUE)) \subseteq Pages(s)
  /\ Starts(s, "mdic") /\ Head(s).kind = "check" =>
       Pages(Skipped(s)) \subseteq Pages(s) \cup {<<1, Head(s).arg>>}
  /\ s # <<>> /\ Head(s).do # "mdic" => Pages(Rest(s)) \subseteq Pages(s)

\* And a port's address.
LatchesFirst(s) ==
  /\ s # <<>> /\ Head(s).kind = "data" => Head(s).arg \in Latches(s)
  /\ s # <<>> /\ Head(s).kind = "port" => Latches(Rest(s)) \subseteq Latches(s) \cup {Head(s).arg}
  /\ s # <<>> /\ Head(s).kind # "port" => Latches(Rest(s)) \subseteq Latches(s)
  /\ Starts(s, "mdic") => Latches(Cut(s, TRUE)) \subseteq Latches(s)
  /\ Starts(s, "mdic") /\ Head(s).kind = "check" => Latches(Skipped(s)) \subseteq Latches(s)

\* The wakeup page is used while it is open,
OpensFirst(s) ==
  /\ s # <<>> /\ Head(s).page = 800 => Opened(s)
  /\ Starts(s, "mdic") /\ Head(s).kind \in {"open", "close"} => ~Opened(Cut(s, TRUE))
  /\ Starts(s, "mdic") /\ Head(s).kind = "close" => ~Opened(Rest(s))
  /\ s # <<>> /\ Opened(Rest(s)) => Opened(s) \/ Head(s).kind = "open"
  /\ Starts(s, "mdic") /\ Opened(Cut(s, TRUE)) => Opened(s)
  /\ Starts(s, "mdic") /\ Head(s).kind = "check" /\ Opened(Skipped(s)) => Opened(s)

\* and closed, unless an error keeps it from being: that is what broken is about.
ClosesAfter(s) ==
  /\ s # <<>> /\ Head(s).kind \in {"open", "close", "arm"} => Closing(s)
  /\ s # <<>> /\ Head(s).kind \notin {"save", "close"} => (Closing(Rest(s)) <=> Closing(s))
  /\ s # <<>> /\ Head(s).kind = "save" => ~Closing(s)
  /\ s # <<>> /\ Head(s).kind = "close" => ~Closing(Rest(s))
  /\ Starts(s, "mdic") =>
       /\ Closing(Cut(s, TRUE)) => Closing(s)
       /\ Closing(s) /\ ~Closing(Cut(s, TRUE)) =>
            Closes(AfterError(Tail(s), Head(s).depth, TRUE)) < Closes(s)
  /\ Gives(s) => ~Closing(Cut(s, FALSE))
  /\ Starts(s, "mdic") /\ Head(s).kind = "check" => (Closing(Skipped(s)) <=> Closing(s))

ASSUME SetupAssumption == \A s \in Setups : \A t \in Threads : s.calls[t] \subseteq DOMAIN Program

ASSUME ProgramsClosed == \A c \in DOMAIN Program : Closed(c) /\ ~Held(Strip(Program[c]))

ASSUME ProgramsDisciplined ==
  \A c \in DOMAIN Program : \A s \in Remains(c) :
    /\ Proper(s) /\ Locked(s) /\ AimsFirst(s)
    /\ SelectsFirst(s) /\ LatchesFirst(s) /\ OpensFirst(s) /\ ClosesAfter(s)
-----------------------------------------------------------------------------
(* Functions that threads may call at once. *)

\* phy.addr is 1 throughout; it is set before it is used; it is set or used outside the
\* lock; it is neither set nor used.
One(c) ==
  \A s \in Remains(c) :
    /\ Addrs(s) \subseteq {1}
    /\ Locally(s, "aim") => Head(s).arg = 1
    /\ Starts(s, "mdic") /\ Head(s).kind = "select" => Head(s).arg.back = 1

SelfAimed(c) == Addrs(Strip(Program[c])) = {}
Loose(c) == \E s \in Remains(c) : ~Held(s) /\ (Addrs(s) # {} \/ Locally(s, "aim"))
Quiet(c) == \A s \in Remains(c) : Addrs(s) = {} /\ ~Starts(s, "mdic") /\ ~Locally(s, "aim")

\* It says which resource of SW_FW_SYNC it takes; two take the same.
Asks(c) == Locally(Strip(Program[c]), "want")
Wanted(c) == {Head(s).arg : s \in {r \in Remains(c) : Locally(r, "want")}}
OneMask(c, d) == \E m \in Wanted(c) : Wanted(c) \cup Wanted(d) = {m}

\* One uses the Kumeran interface and no more, the other neither that nor a port.
Apart(c, d) ==
  /\ Quiet(c)
  /\ \A s \in Remains(c) : Pages(s) = {} /\ ~Opened(s) /\ ~Closing(s)
  /\ \A s \in Remains(d) :
       /\ Latches(s) = {} /\ ~Opened(s) /\ ~Closing(s)
       /\ ~Starts(s, "csr") /\ (s # <<>> => Head(s).kind # "port")

\* Threads do not disturb each other: phy.addr never changes, or whoever touches it outside
\* the lock is alone with it; where the lock has parts, they take the same or need others.
Orderly(locks, of) ==
  LET others(t) == UNION {of[u] : u \in Threads \ {t}}
  IN  /\ \/ \A t \in Threads : \A c \in of[t] : One(c)
         \/ \A t \in Threads : \A c \in of[t] :
              SelfAimed(c) /\ (Loose(c) => \A d \in others(t) : Quiet(d))
      /\ locks = "80003" =>
           \A t \in Threads : \A c \in of[t] :
             Asks(c) /\ \A d \in others(t) : OneMask(c, d) \/ Apart(c, d) \/ Apart(d, c)
=============================================================================
