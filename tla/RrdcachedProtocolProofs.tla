----------------------- MODULE RrdcachedProtocolProofs -----------------------
(***************************************************************************)
(* Proofs about the protocol between client and daemon, for any number of  *)
(* threads, connections, commands and losses, and for sockets and buffers  *)
(* of any size: commands arrive whole, those of a call are handled in      *)
(* their order, and every call gets the answers to its own commands.       *)
(***************************************************************************)
EXTENDS RrdcachedProtocol, SequenceTheorems, FiniteSetTheorems, WellFoundedInduction,
        TLAPS

-----------------------------------------------------------------------------
(* Types.                                                                  *)

Ids == 1 .. Len(commands)
UnitType == {u \in [id : Ids, part : Nat] : u.part \in 1 .. Size[Kind(u.id)]}
InfoType == [n : Int, id : Ids]
RespType == [id : Ids, status : Int, lines : Seq(InfoType)]
LineType == {l \in [resp : RespType, part : Nat] : l.part <= Len(l.resp.lines)}
ConnType ==
    [server : {"unused", "open", "closed"}, closed : BOOLEAN, lost : BOOLEAN,
     to : Seq(UnitType), from : Seq(LineType), rbuf : Seq(UnitType),
     batch_start : BOOLEAN, batch_cmd : Nat, wbuf : Seq(InfoType), out : Seq(LineType)]
AnswerType == [status : Int, lines : Seq(InfoType)]

ClientTypes ==
    /\ lock \in Threads \union {NoThread} /\ sd \in {0} \union Conns
    /\ pc \in [Threads -> {"idle", "connect", "request", "write", "read", "done", "failed"}]
    /\ call \in [Threads -> Seq(Ids)]
    /\ unsent \in [Threads -> [cmd : Nat \ {0}, part : Nat \ {0}]]
    /\ answer \in [Threads -> AnswerType]
    /\ answers \in [Threads -> Seq(AnswerType)]
HistoryTypes ==
    /\ commands \in Seq([kind : Kinds, stamp : Nat]) /\ Len(commands) <= MaxCommands
    /\ outcome \in Seq({"none", "ok", "error", "garbled"}) /\ Len(outcome) = Len(commands)
    /\ losses \in Nat
DaemonTypes ==
    /\ running \in BOOLEAN /\ last_update_stamp \in Nat
    /\ conn \in [Conns -> ConnType]
Types == ClientTypes /\ HistoryTypes /\ DaemonTypes

(* What ties the lock to the threads and the client to its connection.     *)
Locked ==
    /\ \A t \in Threads : pc[t] \in {"write", "read"} <=> lock = t
    /\ lock # NoThread => sd # 0
    /\ sd # 0 => conn[sd].server # "unused" /\ ~ conn[sd].closed
    /\ \A c \in Conns : conn[c].server = "unused" => conn[c] = Unused
ConnBounded(k) ==
    /\ Len(k.rbuf) <= RBUF_SIZE /\ Len(k.to) <= MaxToDaemon /\ Len(k.from) <= MaxToClient
    /\ k.server # "open" =>
          k.to = <<>> /\ k.rbuf = <<>> /\ k.out = <<>> /\ k.wbuf = <<>>
Bounded == \A c \in Conns : ConnBounded(conn[c])

(* The commands of a batch are counted at most once each.                  *)
HandledIds == {id \in Ids : outcome[id] # "none"}
CountBounded == \A c \in Conns : conn[c].batch_cmd <= Cardinality(HandledIds)

(* The commands of a call have successive numbers, and they are its own.   *)
CallShape ==
    /\ \A t \in Threads : pc[t] # "idle" => Len(call[t]) > 0
    /\ \A t \in Threads : \A i \in DOMAIN call[t] :
          /\ call[t][i] = call[t][1] + i - 1
          /\ Kind(call[t][i]) = "batch" =>
                \E j \in DOMAIN call[t] : i < j /\ Kind(call[t][j]) = "dot"
    /\ \A t, u \in Threads : t # u =>
          \A i \in DOMAIN call[t], j \in DOMAIN call[u] : call[t][i] # call[u][j]

-----------------------------------------------------------------------------
(* The way to the daemon.                                                  *)

\* What the daemon has read and what it has not, as one stream.
Stream(c) == conn[c].rbuf \o conn[c].to
Broken(c) == conn[c].lost \/ conn[c].server = "closed"

\* Every unit comes after those of its command, every command after a whole one.
Whole(s) ==
    \A i \in 1 .. Len(s) :
        /\ s[i].part <= i
        /\ \A k \in 1 .. s[i].part : s[i - s[i].part + k] = [id |-> s[i].id, part |-> k]
        /\ s[i].part = 1 /\ i > 1 => IsEol(s[i - 1])
\* No command comes twice.
Once(s) == \A i, j \in 1 .. Len(s) : i < j /\ IsEol(s[i]) => s[j].id # s[i].id

Has(c, id) == \E i \in 1 .. Len(Stream(c)) : Stream(c)[i].id = id

Streams ==
    /\ \A c \in Conns : /\ Whole(Stream(c)) /\ Once(Stream(c))
                        /\ \A id \in Ids : Has(c, id) => outcome[id] = "none"
    /\ \A c, d \in Conns : c # d => \A id \in Ids : ~ (Has(c, id) /\ Has(d, id))

\* Where the commands of a call can be.
NotYetSent ==
    \A t \in Threads : pc[t] \in {"connect", "request"} =>
        \A i \in DOMAIN call[t] :
            outcome[call[t][i]] = "none" /\ \A c \in Conns : ~ Has(c, call[t][i])
SentHere ==
    \A t \in Threads : pc[t] \in {"write", "read"} =>
        \A i \in DOMAIN call[t], c \in Conns : c # sd => ~ Has(c, call[t][i])

\* The unit that is written next continues the stream.
Continues ==
    \A t \in Threads : pc[t] = "write" =>
        LET s == Stream(sd)
            u == unsent[t]
        IN  /\ u.cmd \in DOMAIN call[t] /\ u.part \in 1 .. Size[Kind(call[t][u.cmd])]
            /\ \A i \in DOMAIN call[t] : u.cmd <= i => outcome[call[t][i]] = "none"
            /\ \A i \in DOMAIN call[t] : u.cmd < i \/ (u.cmd = i /\ u.part = 1) => ~ Has(sd, call[t][i])
            /\ ~ Broken(sd) =>
                 IF u.part = 1 THEN s # <<>> => IsEol(s[Len(s)])
                 ELSE s # <<>> /\ s[Len(s)] = [id |-> call[t][u.cmd], part |-> u.part - 1]

Unfinished ==
    \A t \in Threads : pc[t] = "write" =>
        \A i \in 1 .. Len(Stream(sd)) :
            Stream(sd)[i].id = call[t][unsent[t].cmd] => Stream(sd)[i].part < unsent[t].part

\* When nobody writes, all commands are there to their end.
EndsWhole ==
    sd # 0 /\ (lock # NoThread => pc[lock] = "read") /\ ~ Broken(sd) /\ Stream(sd) # <<>> =>
        IsEol(Stream(sd)[Len(Stream(sd))])

StreamInv == Types /\ Locked /\ Bounded /\ CountBounded /\ CallShape
             /\ Streams /\ NotYetSent /\ SentHere /\ Continues /\ Unfinished /\ EndsWhole
             /\ CommandsArriveWhole

\* Every nonempty set of natural numbers has a least element.
LEMMA LeastNumber ==
    ASSUME NEW N, N \subseteq Nat, N # {}
    PROVE  \E n \in N : \A m \in N : n <= m
<1>1. PICK n \in N : \A m \in N : ~(<<m, n>> \in OpToRel(<, Nat))
  BY WFMin, NatLessThanWellFounded
<1>2. \A m \in N : ~(m < n) /\ m \in Nat
  BY <1>1, Zenon DEF OpToRel
<1> QED BY <1>2

-----------------------------------------------------------------------------
(* The types are kept.                                                     *)

LEMMA NoCommandsTypes ==
    /\ Unused \in ConnType /\ NoAnswer \in AnswerType
    /\ NothingSent \in [cmd : Nat \ {0}, part : Nat \ {0}]
  BY DEF Unused, ConnType, NoAnswer, NothingSent, AnswerType

LEMMA InitTypes == Init => Types
<1> SUFFICES ASSUME Init PROVE Types
  OBVIOUS
<1>1. ClientTypes
  BY NoCommandsTypes DEF Init, ClientTypes, Ids
<1>2. HistoryTypes
  BY SizesAssumption DEF Init, HistoryTypes
<1>3. DaemonTypes
  BY NoCommandsTypes DEF Init, DaemonTypes
<1> QED BY <1>1, <1>2, <1>3 DEF Types

\* A connection is changed, and no command is new.
LEMMA SameTypes ==
    ASSUME commands' = commands
    PROVE  /\ ConnType' = ConnType /\ AnswerType' = AnswerType /\ Ids' = Ids
           /\ LineType' = LineType /\ UnitType' = UnitType /\ InfoType' = InfoType
  BY DEF ConnType, LineType, RespType, InfoType, UnitType, AnswerType, Ids, Kind

\* More commands: what had a type still has it.
LEMMA MoreCommands ==
    ASSUME HistoryTypes, NEW cmds \in Seq([kind : Kinds, stamp : Nat]),
           commands' = commands \o cmds
    PROVE  /\ \A id \in Ids : id \in Ids' /\ Kind(id)' = Kind(id) /\ Stamp(id)' = Stamp(id)
           /\ Len(commands') = Len(commands) + Len(cmds)
           /\ \A k \in 1 .. Len(cmds) : /\ Len(commands) + k \in Ids'
                                        /\ commands'[Len(commands) + k] = cmds[k]
<1>1. /\ Len(commands') = Len(commands) + Len(cmds)
      /\ \A i \in 1 .. Len(commands) + Len(cmds) :
            commands'[i] = IF i <= Len(commands) THEN commands[i] ELSE cmds[i - Len(commands)]
  BY ConcatProperties DEF HistoryTypes
<1>2. Len(commands) \in Nat /\ Len(cmds) \in Nat
  BY DEF HistoryTypes
<1>3. \A id \in Ids : id \in Ids' /\ commands'[id] = commands[id]
  BY <1>1, <1>2 DEF Ids
<1>4. \A k \in 1 .. Len(cmds) : Len(commands) + k \in Ids' /\ commands'[Len(commands) + k] = cmds[k]
  BY <1>1, <1>2 DEF Ids
<1> QED BY <1>1, <1>3, <1>4, Zenon DEF Kind, Stamp

LEMMA MoreTypes ==
    ASSUME HistoryTypes, NEW cmds \in Seq([kind : Kinds, stamp : Nat]),
           commands' = commands \o cmds
    PROVE  /\ InfoType \subseteq InfoType' /\ AnswerType \subseteq AnswerType'
           /\ UnitType \subseteq UnitType' /\ LineType \subseteq LineType'
           /\ ConnType \subseteq ConnType'
<1>1. \A id \in Ids : id \in Ids' /\ Kind(id)' = Kind(id)
  BY MoreCommands, Zenon
<1>2. InfoType \subseteq InfoType'
  BY <1>1 DEF InfoType
<1>3. Seq(InfoType) \subseteq Seq(InfoType')
  BY <1>2, SeqMonotonic
<1>4. AnswerType \subseteq AnswerType'
  BY <1>3 DEF AnswerType
<1>5. UnitType \subseteq UnitType'
  BY <1>1 DEF UnitType
<1>6. RespType \subseteq RespType'
  BY <1>1, <1>3 DEF RespType
<1>7. LineType \subseteq LineType'
  BY <1>6 DEF LineType
<1>8. Seq(UnitType) \subseteq Seq(UnitType') /\ Seq(LineType) \subseteq Seq(LineType')
  BY <1>5, <1>7, SeqMonotonic
<1>9. ConnType \subseteq ConnType'
  BY <1>3, <1>8 DEF ConnType
<1> QED BY <1>2, <1>4, <1>5, <1>7, <1>9

LEMMA BeginTypes ==
    ASSUME Types, NEW t \in Threads, NEW cmds \in Seq([kind : Kinds, stamp : Nat]),
           Begin(t, cmds)
    PROVE  Types'
<1> DEFINE ids == [k \in 1 .. Len(cmds) |-> Len(commands) + k]
           none == [k \in 1 .. Len(cmds) |-> "none"]
<1>0. ClientTypes /\ HistoryTypes /\ DaemonTypes /\ Len(cmds) \in Nat
  BY DEF Types
<1>1. /\ \A id \in Ids : id \in Ids'
      /\ Len(commands') = Len(commands) + Len(cmds)
      /\ \A k \in 1 .. Len(cmds) : Len(commands) + k \in Ids'
  BY <1>0, MoreCommands, Zenon DEF Begin
<1>2. HistoryTypes'
  <2>1. none \in Seq({"none", "ok", "error", "garbled"}) /\ Len(none) = Len(cmds)
    BY <1>0
  <2>2. outcome' \in Seq({"none", "ok", "error", "garbled"}) /\ Len(outcome') = Len(outcome) + Len(none)
    <3> HIDE DEF none
    <3>1. outcome' = outcome \o none
      BY DEF Begin, none
    <3> QED BY <1>0, <2>1, <3>1, ConcatProperties DEF HistoryTypes
  <2>3. commands' \in Seq([kind : Kinds, stamp : Nat])
    BY <1>0, ConcatProperties DEF HistoryTypes, Begin
  <2> HIDE DEF none
  <2> QED BY <1>0, <1>1, <2>1, <2>2, <2>3 DEF Begin, HistoryTypes
<1>3. ClientTypes'
  <2>1. ids \in Seq(Ids')
    BY <1>0, <1>1
  <2>2. \A s \in Seq(Ids) : s \in Seq(Ids')
    BY <1>1, SeqMonotonic
  <2>3. call' \in [Threads -> Seq(Ids')]
    <3> HIDE DEF ids
    <3>1. call' = [call EXCEPT ![t] = ids]
      BY DEF Begin, ids
    <3> QED BY <1>0, <2>1, <2>2, <3>1 DEF ClientTypes
  <2>4. AnswerType \subseteq AnswerType'
    BY <1>0, MoreTypes, Zenon DEF Begin
  <2>5. \A s \in Seq(AnswerType) : s \in Seq(AnswerType')
    BY <2>4, SeqMonotonic
  <2>6. answers' \in [Threads -> Seq(AnswerType')] /\ answer' \in [Threads -> AnswerType']
    BY <1>0, <2>4, <2>5 DEF Begin, ClientTypes
  <2> QED BY <1>0, <2>3, <2>6 DEF Begin, ClientTypes
<1>4. DaemonTypes'
  BY <1>0, MoreTypes, Zenon DEF Begin, DaemonTypes
<1> QED BY <1>2, <1>3, <1>4 DEF Types

\* A call is a call of Calls, also when it is repeated: so it has commands.
LEMMA NewCallCommands ==
    ASSUME Types, NEW t \in Threads, NEW shape \in Calls[t]
    PROVE  [k \in 1 .. Len(shape) |-> [kind |-> shape[k], stamp |-> Len(commands) + k]]
             \in Seq([kind : Kinds, stamp : Nat])
<1>1. shape \in Seq(Kinds) /\ Len(commands) \in Nat
  BY SizesAssumption DEF Types, HistoryTypes
<1> QED BY <1>1

LEMMA RetryCommands ==
    ASSUME Types, NEW t \in Threads
    PROVE  [k \in 1 .. Len(call[t]) |-> commands[call[t][k]]] \in Seq([kind : Kinds, stamp : Nat])
<1>1. call[t] \in Seq(Ids) /\ commands \in Seq([kind : Kinds, stamp : Nat])
  BY DEF Types, ClientTypes, HistoryTypes
<1>2. \A k \in 1 .. Len(call[t]) : call[t][k] \in 1 .. Len(commands)
  BY <1>1, ElementOfSeq DEF Ids
<1>3. \A k \in 1 .. Len(call[t]) : commands[call[t][k]] \in [kind : Kinds, stamp : Nat]
  BY <1>1, <1>2, ElementOfSeq, Zenon
<1>4. Len(call[t]) \in Nat
  BY <1>1
<1> QED BY <1>3, <1>4

-----------------------------------------------------------------------------
(* Streams of units.                                                       *)

LEMMA SizePositive ==
    ASSUME Types, NEW id \in Ids
    PROVE  Kind(id) \in Kinds /\ Size[Kind(id)] \in Nat \ {0}
<1>1. commands[id] \in [kind : Kinds, stamp : Nat]
  BY ElementOfSeq, Zenon DEF Types, HistoryTypes, Ids
<1> QED BY <1>1, SizesAssumption DEF Kind

LEMMA UnitIs ==
    ASSUME Types, NEW s \in Seq(UnitType), NEW i \in 1 .. Len(s)
    PROVE  /\ s[i] \in [id : Ids, part : Nat] /\ s[i].id \in Ids
           /\ s[i].part \in 1 .. Size[Kind(s[i].id)] /\ Size[Kind(s[i].id)] \in Nat
           /\ s[i] = [id |-> s[i].id, part |-> s[i].part]
<1>1. s[i] \in UnitType
  BY ElementOfSeq
<1> QED BY <1>1, SizePositive DEF UnitType

\* What is cut off at the end does not matter to what comes before it.
LEMMA PrefixWhole ==
    ASSUME Types, NEW s \in Seq(UnitType), NEW n \in 0 .. Len(s), NEW r \in Seq(UnitType),
           Len(r) = n, \A i \in 1 .. n : r[i] = s[i]
    PROVE  /\ Whole(s) => Whole(r)
           /\ Once(s) => Once(r)
<1>0. Len(s) \in Nat
  OBVIOUS
<1>1. ASSUME Whole(s) PROVE Whole(r)
  <2> SUFFICES ASSUME NEW i \in 1 .. n
               PROVE  /\ r[i].part <= i
                      /\ \A k \in 1 .. r[i].part : r[i - r[i].part + k] = [id |-> r[i].id, part |-> k]
                      /\ r[i].part = 1 /\ i > 1 => IsEol(r[i - 1])
    BY DEF Whole
  <2>0. r[i] = s[i] /\ i \in 1 .. Len(s)
    BY <1>0
  <2>1. r[i] = s[i] /\ i \in 1 .. Len(s) /\ s[i].part \in Nat
    BY <2>0, UnitIs, Zenon
  <2>2. /\ s[i].part <= i
        /\ \A k \in 1 .. s[i].part : s[i - s[i].part + k] = [id |-> s[i].id, part |-> k]
        /\ s[i].part = 1 /\ i > 1 => IsEol(s[i - 1])
    BY <1>1, <2>1 DEF Whole
  <2>3. \A k \in 1 .. s[i].part : i - s[i].part + k \in 1 .. n
    BY <2>1, <2>2
  <2>4. i > 1 => i - 1 \in 1 .. n
    OBVIOUS
  <2> QED BY <2>1, <2>2, <2>3, <2>4
<1>2. ASSUME Once(s) PROVE Once(r)
  BY <1>0, <1>2 DEF Once
<1> QED BY <1>1, <1>2

\* After a whole command there is a whole stream, without this command.
LEMMA SuffixWhole ==
    ASSUME Types, NEW s \in Seq(UnitType), Whole(s), Once(s), NEW e \in 1 .. Len(s), IsEol(s[e]),
           NEW r \in Seq(UnitType), Len(r) = Len(s) - e, \A i \in 1 .. Len(s) - e : r[i] = s[e + i]
    PROVE  Whole(r) /\ Once(r) /\ \A i \in 1 .. Len(r) : r[i].id # s[e].id
<1>0. Len(s) \in Nat
  OBVIOUS
<1>1. ASSUME NEW i \in 1 .. Len(r)
      PROVE  /\ r[i].part <= i
             /\ \A k \in 1 .. r[i].part : r[i - r[i].part + k] = [id |-> r[i].id, part |-> k]
             /\ r[i].part = 1 /\ i > 1 => IsEol(r[i - 1])
  <2> DEFINE p == r[i].part
  <2>1. r[i] = s[e + i] /\ e + i \in 1 .. Len(s)
    BY <1>0
  <2>2. p \in 1 .. Size[Kind(r[i].id)] /\ Size[Kind(r[i].id)] \in Nat
    BY <2>1, UnitIs, Zenon
  <2>3. /\ p <= e + i
        /\ \A k \in 1 .. p : s[(e + i) - p + k] = [id |-> r[i].id, part |-> k]
        /\ p = 1 /\ e + i > 1 => IsEol(s[e + i - 1])
    <3>1. \A j \in 1 .. Len(s) :
             /\ s[j].part <= j
             /\ \A k \in 1 .. s[j].part : s[j - s[j].part + k] = [id |-> s[j].id, part |-> k]
             /\ s[j].part = 1 /\ j > 1 => IsEol(s[j - 1])
      BY DEF Whole
    <3> DEFINE j == e + i
    <3>2. j \in 1 .. Len(s) /\ s[j] = r[i]
      BY <2>1
    <3>3. /\ p <= j
          /\ \A k \in 1 .. p : s[j - p + k] = [id |-> r[i].id, part |-> k]
          /\ p = 1 /\ j > 1 => IsEol(s[j - 1])
      <4> HIDE DEF j
      <4> QED BY <3>1, <3>2
    <3> HIDE DEF p
    <3> QED BY <3>3
  <2>4. p <= i
    <3> SUFFICES ASSUME p > i PROVE FALSE
      BY <2>2
    <3> DEFINE n == Size[Kind(r[i].id)]
    <3>1. p - i \in 1 .. p /\ p - i < n /\ (e + i) - p + (p - i) = e
      <4>1. i \in Nat \ {0} /\ e \in Nat /\ p \in Nat /\ n \in Nat /\ p <= n
        BY <1>0, <2>2
      <4> HIDE DEF p, n
      <4> QED BY <4>1
    <3>2. s[e] = [id |-> r[i].id, part |-> p - i]
      BY <2>3, <3>1
    <3> QED BY <3>1, <3>2 DEF IsEol
  <2>5. ASSUME NEW k \in 1 .. p PROVE r[i - p + k] = [id |-> r[i].id, part |-> k]
    <3>1. i - p + k \in 1 .. Len(s) - e /\ e + (i - p + k) = (e + i) - p + k
      <4>1. /\ i \in Nat /\ e \in Nat /\ p \in Nat /\ k \in Nat /\ Len(s) \in Nat
            /\ 1 <= k /\ k <= p /\ p <= i /\ e + i <= Len(s)
        BY <1>0, <2>2, <2>4
      <4> HIDE DEF p
      <4> QED BY <4>1
    <3> QED BY <2>3, <3>1, Zenon
  <2>6. p = 1 /\ i > 1 => IsEol(r[i - 1])
    BY <1>0, <2>3, SMTT(30)
  <2> QED BY <2>4, <2>5, <2>6
<1>2. Whole(r)
  BY <1>1 DEF Whole
<1>3. Once(r)
  BY <1>0, SMTT(60) DEF Once
<1>4. \A i \in 1 .. Len(r) : r[i].id # s[e].id
  BY <1>0 DEF Once
<1> QED BY <1>2, <1>3, <1>4

\* A unit that continues a stream keeps it whole.
LEMMA AppendWhole ==
    ASSUME Types, NEW s \in Seq(UnitType), Whole(s), Once(s), NEW u \in UnitType,
           u.part = 1 => (s # <<>> => IsEol(s[Len(s)])) /\ \A i \in 1 .. Len(s) : s[i].id # u.id,
           u.part # 1 => s # <<>> /\ s[Len(s)] = [id |-> u.id, part |-> u.part - 1],
           NEW r \in Seq(UnitType), Len(r) = Len(s) + 1, \A i \in 1 .. Len(s) : r[i] = s[i],
           r[Len(s) + 1] = u
    PROVE  Whole(r) /\ Once(r)
<1>0. Len(s) \in Nat /\ (s # <<>> => Len(s) > 0) /\ (s = <<>> => Len(s) = 0)
  BY EmptySeq
<1>1. u.id \in Ids /\ u.part \in 1 .. Size[Kind(u.id)] /\ Size[Kind(u.id)] \in Nat
  BY SizePositive DEF UnitType
<1>2. ASSUME NEW i \in 1 .. Len(r)
      PROVE  /\ r[i].part <= i
             /\ \A k \in 1 .. r[i].part : r[i - r[i].part + k] = [id |-> r[i].id, part |-> k]
             /\ r[i].part = 1 /\ i > 1 => IsEol(r[i - 1])
  <2>1. CASE i \in 1 .. Len(s)
    <3>1. r[i] = s[i] /\ s[i].part \in Nat
      BY <2>1, UnitIs, Zenon
    <3>2. /\ s[i].part <= i
          /\ \A k \in 1 .. s[i].part : s[i - s[i].part + k] = [id |-> s[i].id, part |-> k]
          /\ s[i].part = 1 /\ i > 1 => IsEol(s[i - 1])
      BY <2>1 DEF Whole
    <3>3. \A k \in 1 .. s[i].part : i - s[i].part + k \in 1 .. Len(s)
      BY <1>0, <2>1, <3>1, <3>2
    <3>4. i > 1 => i - 1 \in 1 .. Len(s)
      BY <1>0, <2>1
    <3>5. ASSUME i > 1 PROVE r[i - 1] = s[i - 1]
      <4> DEFINE j == i - 1
      <4>1. j \in 1 .. Len(s)
        BY <3>4, <3>5
      <4> HIDE DEF j
      <4>2. r[j] = s[j]
        BY <4>1
      <4> QED BY <4>2 DEF j
    <3>6. ASSUME NEW k \in 1 .. s[i].part
          PROVE  r[i - s[i].part + k] = s[i - s[i].part + k]
      <4> DEFINE j == i - s[i].part + k
      <4>1. j \in 1 .. Len(s)
        BY <3>3
      <4> HIDE DEF j
      <4>2. r[j] = s[j]
        BY <4>1
      <4> QED BY <4>2 DEF j
    <3>7. \A k \in 1 .. r[i].part : r[i - r[i].part + k] = [id |-> r[i].id, part |-> k]
      BY <3>1, <3>2, <3>6
    <3>8. r[i].part = 1 /\ i > 1 => IsEol(r[i - 1])
      BY <3>1, <3>2, <3>5
    <3> QED BY <3>1, <3>2, <3>7, <3>8
  <2>2. CASE i = Len(s) + 1 /\ u.part = 1
    <3>1. r[i] = u /\ u = [id |-> u.id, part |-> 1]
      BY <2>2 DEF UnitType
    <3>2. i > 1 => s # <<>> /\ r[i - 1] = s[Len(s)]
      BY <1>0, <2>2
    <3>3. \A k \in 1 .. 1 : k = 1 /\ i - 1 + k = i
      BY <1>0, <2>2
    <3> QED BY <1>0, <2>2, <3>1, <3>2, <3>3
  <2>3. CASE i = Len(s) + 1 /\ u.part # 1
    <3> DEFINE n == Len(s)
               p == u.part - 1
    <3>1. n \in 1 .. Len(s) /\ r[i] = u /\ p \in Nat \ {0} /\ u = [id |-> u.id, part |-> p + 1]
      BY <1>0, <1>1, <2>3 DEF UnitType
    <3>2. s[n].id = u.id /\ s[n].part = p
      BY <2>3
    <3>3. p <= n /\ \A k \in 1 .. p : s[n - p + k] = [id |-> u.id, part |-> k]
      BY <3>1, <3>2 DEF Whole
    <3>4. u.part <= i
      BY <1>0, <2>3, <3>1, <3>3
    <3>5. ASSUME NEW k \in 1 .. u.part PROVE r[i - u.part + k] = [id |-> u.id, part |-> k]
      <4>1. CASE k = u.part
        <5>1. i - u.part + k = i
          BY <1>0, <1>1, <2>3, <4>1
        <5> QED BY <3>1, <4>1, <5>1
      <4>2. CASE k # u.part
        <5>1. k \in 1 .. p /\ i - u.part + k = n - p + k /\ n - p + k \in 1 .. n
          BY <1>0, <1>1, <2>3, <3>1, <3>3, <4>2, SMTT(30)
        <5> QED BY <3>3, <5>1
      <4> QED BY <4>1, <4>2
    <3> QED BY <2>3, <3>1, <3>4, <3>5
  <2> QED BY <1>0, <2>1, <2>2, <2>3
<1>3. Whole(r)
  BY <1>2 DEF Whole
<1>4. ASSUME NEW i \in 1 .. Len(r), NEW j \in 1 .. Len(r), i < j, IsEol(r[i])
      PROVE  r[j].id # r[i].id
  <2>1. i \in 1 .. Len(s) /\ r[i] = s[i]
    BY <1>0, <1>4
  <2>2. CASE j \in 1 .. Len(s)
    BY <1>4, <2>1, <2>2 DEF Once
  <2>3. CASE j = Len(s) + 1 /\ u.part = 1
    BY <2>1, <2>3
  <2>4. CASE j = Len(s) + 1 /\ u.part # 1
    <3>1. Len(s) \in 1 .. Len(s) /\ s[Len(s)].id = u.id /\ s[Len(s)].part = u.part - 1
      BY <1>0, <2>4
    <3>2. i # Len(s)
      BY <1>1, <1>4, <2>1, <3>1 DEF IsEol
    <3>3. s[Len(s)].id # s[i].id
      BY <1>0, <1>4, <2>1, <3>1, <3>2 DEF Once
    <3> QED BY <2>1, <2>4, <3>1, <3>3
  <2> QED BY <1>0, <2>2, <2>3, <2>4
<1>5. Once(r)
  BY <1>4 DEF Once
<1> QED BY <1>3, <1>5

\* The first command of a stream is whole.
LEMMA FirstCommand ==
    ASSUME Types, NEW s \in Seq(UnitType), Whole(s), NEW e \in 1 .. Len(s), IsEol(s[e]),
           \A j \in 1 .. e - 1 : ~ IsEol(s[j])
    PROVE  /\ SubSeq(s, 1, e) = Units(s[e].id)
           /\ s[1] = [id |-> s[e].id, part |-> 1]
<1>0. Len(s) \in Nat /\ e \in Nat
  OBVIOUS
<1> DEFINE id == s[e].id
           n == Size[Kind(id)]
<1>1. id \in Ids /\ n \in Nat \ {0} /\ s[e].part = n
  <2>1. id \in Ids /\ s[e].part = n
    BY UnitIs, Zenon DEF IsEol
  <2> QED BY <2>1, SizePositive
<1>2. n <= e /\ \A k \in 1 .. n : s[e - n + k] = [id |-> id, part |-> k]
  BY <1>1 DEF Whole
<1>3. e = n
  <2> SUFFICES ASSUME e # n PROVE FALSE
    OBVIOUS
  <2> DEFINE f == e - n + 1
  <2>1. f \in 1 .. Len(s) /\ f > 1 /\ f - 1 \in 1 .. e - 1 /\ 1 \in 1 .. n
    BY <1>0, <1>1, <1>2
  <2>2. s[f].part = 1
    <3>1. s[e - n + 1] = [id |-> id, part |-> 1]
      BY <1>2, <2>1
    <3> QED BY <3>1
  <2>3. IsEol(s[f - 1])
    BY <2>1, <2>2 DEF Whole
  <2> QED BY <2>1, <2>3
<1>4. \A k \in 1 .. e : s[k] = [id |-> id, part |-> k]
  <2>1. \A k \in 1 .. n : e - n + k = k
    BY <1>0, <1>3
  <2> HIDE DEF n, id
  <2> QED BY <1>2, <1>3, <2>1
<1>5. /\ SubSeq(s, 1, e) \in Seq(UnitType) /\ Len(SubSeq(s, 1, e)) = e
      /\ \A k \in 1 .. e : SubSeq(s, 1, e)[k] = s[k]
  <2>1. \A i \in 1 .. e : s[i] \in UnitType
    BY <1>0, ElementOfSeq
  <2>2. /\ SubSeq(s, 1, e) \in Seq(UnitType)
        /\ Len(SubSeq(s, 1, e)) = IF 1 <= e THEN e - 1 + 1 ELSE 0
        /\ \A i \in 1 .. e - 1 + 1 : SubSeq(s, 1, e)[i] = s[1 + i - 1]
    BY <1>0, <2>1, SubSeqProperties
  <2> QED BY <1>0, <2>2
<1>6. Units(id) = [k \in 1 .. e |-> [id |-> id, part |-> k]]
  BY <1>3 DEF Units
<1>7. SubSeq(s, 1, e) = [k \in 1 .. e |-> SubSeq(s, 1, e)[k]]
  BY <1>5
<1>8. SubSeq(s, 1, e) = Units(id)
  <2>1. \A k \in 1 .. e : SubSeq(s, 1, e)[k] = [id |-> id, part |-> k]
    BY <1>4, <1>5
  <2> QED BY <1>6, <1>7, <2>1, Zenon
<1> QED BY <1>4, <1>8

-----------------------------------------------------------------------------
(* Steps that bring nothing new into a stream.                             *)

LEMMA ConnIs ==
    ASSUME NEW k \in ConnType
    PROVE  /\ k.rbuf \in Seq(UnitType) /\ k.to \in Seq(UnitType) /\ k.rbuf \o k.to \in Seq(UnitType)
           /\ Len(k.rbuf) \in Nat /\ Len(k.to) \in Nat /\ Len(k.rbuf \o k.to) \in Nat
           /\ k.from \in Seq(LineType) /\ k.out \in Seq(LineType) /\ k.wbuf \in Seq(InfoType)
           /\ Len(k.from) \in Nat /\ Len(k.out) \in Nat /\ Len(k.wbuf) \in Nat
           /\ k.server \in {"unused", "open", "closed"} /\ k.closed \in BOOLEAN /\ k.lost \in BOOLEAN
           /\ k.batch_start \in BOOLEAN /\ k.batch_cmd \in Nat
<1>1. /\ k.rbuf \in Seq(UnitType) /\ k.to \in Seq(UnitType)
      /\ k.from \in Seq(LineType) /\ k.out \in Seq(LineType) /\ k.wbuf \in Seq(InfoType)
      /\ k.server \in {"unused", "open", "closed"} /\ k.closed \in BOOLEAN /\ k.lost \in BOOLEAN
      /\ k.batch_start \in BOOLEAN /\ k.batch_cmd \in Nat
  BY DEF ConnType
<1>2. k.rbuf \o k.to \in Seq(UnitType)
  BY <1>1, ConcatProperties
<1> QED BY <1>1, <1>2, LenProperties, Zenon

LEMMA StreamTypes ==
    ASSUME Types, NEW c \in Conns
    PROVE  /\ conn[c] \in ConnType /\ Stream(c) \in Seq(UnitType)
           /\ conn[c].rbuf \in Seq(UnitType) /\ conn[c].to \in Seq(UnitType)
           /\ conn[c].batch_cmd \in Nat /\ Len(Stream(c)) \in Nat
           /\ Len(Stream(c)) = Len(conn[c].rbuf) + Len(conn[c].to)
           /\ \A i \in 1 .. Len(Stream(c)) :
                 Stream(c)[i] = IF i <= Len(conn[c].rbuf) THEN conn[c].rbuf[i]
                                ELSE conn[c].to[i - Len(conn[c].rbuf)]
<1>1. conn[c] \in ConnType
  BY DEF Types, DaemonTypes
<1>2. /\ conn[c].rbuf \in Seq(UnitType) /\ conn[c].to \in Seq(UnitType)
      /\ conn[c].batch_cmd \in Nat /\ Len(conn[c].rbuf \o conn[c].to) \in Nat
  BY <1>1, ConnIs, Zenon
<1> QED BY <1>1, <1>2, ConcatProperties, ZenonT(40) DEF Stream

LEMMA StreamTypesNext ==
    ASSUME Types', commands' = commands, NEW c \in Conns
    PROVE  /\ conn'[c] \in ConnType /\ Stream(c)' \in Seq(UnitType)
           /\ conn'[c].rbuf \in Seq(UnitType) /\ conn'[c].to \in Seq(UnitType)
           /\ Len(Stream(c)') = Len(conn'[c].rbuf) + Len(conn'[c].to)
           /\ \A i \in 1 .. Len(Stream(c)') :
                 Stream(c)'[i] = IF i <= Len(conn'[c].rbuf) THEN conn'[c].rbuf[i]
                                 ELSE conn'[c].to[i - Len(conn'[c].rbuf)]
<1>1. conn'[c] \in ConnType
  BY SameTypes DEF Types, DaemonTypes, Conns
<1>2. conn'[c].rbuf \in Seq(UnitType) /\ conn'[c].to \in Seq(UnitType)
  BY <1>1 DEF ConnType
<1> QED BY <1>1, <1>2, ConcatProperties, ZenonT(40) DEF Stream

LEMMA CallTypes ==
    ASSUME Types, NEW t \in Threads
    PROVE  /\ call[t] \in Seq(Ids) /\ DOMAIN call[t] = 1 .. Len(call[t]) /\ Len(call[t]) \in Nat
           /\ \A i \in DOMAIN call[t] : call[t][i] \in Ids
<1>1. call[t] \in Seq(Ids)
  BY DEF Types, ClientTypes
<1> QED BY <1>1

\* That commands are whole does not depend on the state of the threads.
LEMMA WholeAgain ==
    ASSUME commands' = commands, NEW c \in Conns
    PROVE  /\ Whole(Stream(c)') => Whole(Stream(c))'
           /\ Once(Stream(c)') => Once(Stream(c))'
<1>1. \A u : IsEol(u)' <=> IsEol(u)
  BY DEF IsEol, Kind
<1>2. Whole(Stream(c)') => Whole(Stream(c))'
  BY <1>1 DEF Whole, IsEol, Kind
<1>3. Once(Stream(c)') => Once(Stream(c))'
  BY <1>1 DEF Once, IsEol, Kind
<1> QED BY <1>2, <1>3

Shrinks(c) ==
    /\ Len(Stream(c)') <= Len(Stream(c))
    /\ \A i \in 1 .. Len(Stream(c)') : Stream(c)'[i] = Stream(c)[i]
    /\ ~ Broken(c)' => ~ Broken(c) /\ Stream(c)' = Stream(c)
    /\ conn'[c].batch_cmd <= conn[c].batch_cmd

LEMMA ShrinkingStreams ==
    ASSUME StreamInv, Types', UNCHANGED <<call, commands, outcome, unsent>>,
           \A t \in Threads : \/ pc'[t] = pc[t]
                              \/ pc[t] # "idle" /\ pc'[t] \in {"done", "failed"}
                              \/ pc[t] = "connect" /\ pc'[t] = "request"
                              \/ pc[t] = "write" /\ pc'[t] = "read" /\ Broken(sd),
           sd' = sd \/ \A t \in Threads : pc'[t] \notin {"write", "read"},
           \A c \in Conns : Shrinks(c),
           lock' = lock \/ (lock' = NoThread /\ pc[lock] = "read")
    PROVE  CountBounded' /\ CallShape' /\ Streams' /\ NotYetSent' /\ SentHere' /\ Continues' /\ Unfinished'
           /\ CommandsArriveWhole' /\ (sd' = sd \/ sd' = 0 => EndsWhole')
<1>0. /\ Types /\ CountBounded /\ CallShape /\ Streams /\ NotYetSent /\ SentHere /\ Continues
      /\ Unfinished /\ CommandsArriveWhole /\ Locked /\ EndsWhole
  BY DEF StreamInv
<1>1. \A c \in Conns, id \in Ids : Has(c, id)' => Has(c, id)
  <2> SUFFICES ASSUME NEW c \in Conns, NEW id \in Ids, NEW i \in 1 .. Len(Stream(c)'),
                      Stream(c)'[i].id = id
               PROVE  Has(c, id)
    BY DEF Has
  <2>1. Len(Stream(c)) \in Nat /\ Len(Stream(c)') \in Nat
    <3>1. Stream(c)' \in Seq(UnitType)
      BY StreamTypesNext, Zenon
    <3> QED BY <1>0, <3>1, StreamTypes
  <2> QED BY <2>1 DEF Has, Shrinks
<1>2. /\ Ids' = Ids /\ \A id \in Ids : Kind(id)' = Kind(id)
  BY DEF Ids, Kind
<1>3. CountBounded'
  <2>1. HandledIds' = HandledIds
    BY <1>2 DEF HandledIds
  <2>2. ASSUME NEW c \in Conns PROVE conn'[c].batch_cmd <= Cardinality(HandledIds)
    <3>1. conn[c].batch_cmd \in Nat /\ conn'[c].batch_cmd \in Nat
      BY <1>0 DEF Types, DaemonTypes, ConnType
    <3>2. Cardinality(HandledIds) \in Nat
      <4>1. IsFiniteSet(Ids) /\ HandledIds \subseteq Ids
        BY <1>0, FS_Interval DEF Ids, HandledIds, Types, HistoryTypes
      <4> QED BY <4>1, FS_Subset, FS_CardinalityType
    <3> QED BY <1>0, <3>1, <3>2 DEF CountBounded, Shrinks
  <2> QED BY <2>1, <2>2 DEF CountBounded
<1>4. CallShape'
  <2>1. \A t \in Threads : pc'[t] # "idle" => pc[t] # "idle"
    OBVIOUS
  <2>2. \A t \in Threads : \A i \in DOMAIN call[t] : Kind(call[t][i])' = Kind(call[t][i])
    BY DEF Kind
  <2> QED BY <1>0, <2>1, <2>2 DEF CallShape, Kind
<1>5. Streams'
  <2>1. ASSUME NEW c \in Conns PROVE Whole(Stream(c))' /\ Once(Stream(c))'
    <3>1. Stream(c)' \in Seq(UnitType)
      BY StreamTypesNext, Zenon
    <3>2. Stream(c) \in Seq(UnitType) /\ Whole(Stream(c)) /\ Once(Stream(c))
      BY <1>0, StreamTypes, Zenon DEF Streams
    <3>3. Len(Stream(c)') \in 0 .. Len(Stream(c))
      BY <3>1, <3>2 DEF Shrinks
    <3>4. \A i \in 1 .. Len(Stream(c)') : Stream(c)'[i] = Stream(c)[i]
      BY DEF Shrinks
    <3>5. Whole(Stream(c)') /\ Once(Stream(c)')
      BY <1>0, <3>1, <3>2, <3>3, <3>4, PrefixWhole
    <3> QED BY <3>5, WholeAgain
  <2> QED BY <1>0, <1>1, <1>2, <2>1 DEF Streams
<1>6. NotYetSent'
  <2> SUFFICES ASSUME NEW t \in Threads, pc'[t] \in {"connect", "request"},
                      NEW i \in DOMAIN call[t]
               PROVE  outcome[call[t][i]] = "none" /\ \A c \in Conns : ~ Has(c, call[t][i])'
    BY DEF NotYetSent
  <2>1. call[t][i] \in Ids
    BY <1>0, CallTypes
  <2> QED BY <1>0, <1>1, <2>1 DEF NotYetSent
<1>7. SentHere'
  <2> SUFFICES ASSUME NEW t \in Threads, pc'[t] \in {"write", "read"},
                      NEW i \in DOMAIN call[t], NEW c \in Conns, c # sd'
               PROVE  ~ Has(c, call[t][i])'
    BY DEF SentHere
  <2>1. call[t][i] \in Ids
    BY <1>0, CallTypes
  <2> QED BY <1>0, <1>1, <2>1 DEF SentHere
<1>8. Continues'
  <2> SUFFICES ASSUME NEW t \in Threads, pc'[t] = "write"
               PROVE  (LET s == Stream(sd)
                           u == unsent[t]
                       IN  /\ u.cmd \in DOMAIN call[t] /\ u.part \in 1 .. Size[Kind(call[t][u.cmd])]
                           /\ \A i \in DOMAIN call[t] : u.cmd <= i => outcome[call[t][i]] = "none"
                           /\ \A i \in DOMAIN call[t] :
                                 u.cmd < i \/ (u.cmd = i /\ u.part = 1) => ~ Has(sd, call[t][i])
                           /\ ~ Broken(sd) =>
                                 IF u.part = 1 THEN s # <<>> => IsEol(s[Len(s)])
                                 ELSE s # <<>> /\ s[Len(s)] = [id |-> call[t][u.cmd], part |-> u.part - 1])'
    BY DEF Continues
  <2>1. pc[t] = "write" /\ sd' = sd /\ sd \in Conns
    BY <1>0, ThreadsAssumption, Zenon DEF Locked, Types, ClientTypes
  <2>2. \A i \in DOMAIN call[t] : call[t][i] \in Ids
    BY <1>0, CallTypes
  <2>3. \A i \in DOMAIN call[t] : Has(sd, call[t][i])' => Has(sd, call[t][i])
    BY <1>1, <2>1, <2>2, Zenon DEF Has, Stream
  <2>4. Broken(sd)' \/ (~ Broken(sd) /\ Stream(sd)' = Stream(sd))
    BY <2>1, Zenon DEF Shrinks, Broken, Stream
  <2>5. \A u : IsEol(u)' <=> IsEol(u)
    BY DEF IsEol, Kind
  <2> DEFINE u == unsent[t]
             s == Stream(sd)
  <2>6. /\ u.cmd \in DOMAIN call[t] /\ u.part \in 1 .. Size[Kind(call[t][u.cmd])]
        /\ \A i \in DOMAIN call[t] : u.cmd <= i => outcome[call[t][i]] = "none"
        /\ \A i \in DOMAIN call[t] : u.cmd < i \/ (u.cmd = i /\ u.part = 1) => ~ Has(sd, call[t][i])
        /\ ~ Broken(sd) =>
              IF u.part = 1 THEN s # <<>> => IsEol(s[Len(s)])
              ELSE s # <<>> /\ s[Len(s)] = [id |-> call[t][u.cmd], part |-> u.part - 1]
    BY <1>0, <2>1 DEF Continues
  <2>7. (u.cmd \in DOMAIN call[t] /\ u.part \in 1 .. Size[Kind(call[t][u.cmd])])'
    BY <2>6 DEF Kind
  <2>8. (\A i \in DOMAIN call[t] : u.cmd < i \/ (u.cmd = i /\ u.part = 1) => ~ Has(sd, call[t][i]))'
    BY <2>3, <2>6
  <2>9. (~ Broken(sd) =>
              IF u.part = 1 THEN s # <<>> => IsEol(s[Len(s)])
              ELSE s # <<>> /\ s[Len(s)] = [id |-> call[t][u.cmd], part |-> u.part - 1])'
    BY <2>4, <2>5, <2>6 DEF IsEol, Kind
  <2> QED BY <2>6, <2>7, <2>8, <2>9
<1>9. CommandsArriveWhole'
  BY <1>0 DEF CommandsArriveWhole
<1>10. sd' = sd \/ sd' = 0 => EndsWhole'
  <2> SUFFICES ASSUME sd' = sd, sd' # 0, lock' # NoThread => pc'[lock'] = "read", ~ Broken(sd)',
                      Stream(sd)' # <<>>
               PROVE  IsEol(Stream(sd)[Len(Stream(sd))])'
    BY DEF EndsWhole
  <2>1. sd \in Conns
    BY <1>0 DEF Types, ClientTypes
  <2>2. Stream(sd)' = Stream(sd) /\ ~ Broken(sd)
    BY <2>1, Zenon DEF Shrinks, Broken, Stream
  <2>3. lock # NoThread => pc[lock] = "read"
    BY <1>0, <2>2, Zenon DEF Types, ClientTypes
  <2>4. IsEol(Stream(sd)[Len(Stream(sd))])
    BY <1>0, <2>2, <2>3 DEF EndsWhole
  <2> QED BY <2>2, <2>4 DEF IsEol, Kind
<1>11. Unfinished'
  <2> SUFFICES ASSUME NEW t \in Threads, pc'[t] = "write", NEW i \in 1 .. Len(Stream(sd)'),
                      Stream(sd)'[i].id = call[t][unsent[t].cmd]
               PROVE  Stream(sd)'[i].part < unsent[t].part
    BY DEF Unfinished
  <2>1. pc[t] = "write" /\ sd' = sd /\ sd \in Conns
    BY <1>0, ThreadsAssumption, Zenon DEF Locked, Types, ClientTypes
  <2>2. PICK d \in Conns : d = sd
    BY <2>1
  <2>3. Stream(sd)' = Stream(d)' /\ Stream(sd) = Stream(d)
    BY <2>1, <2>2 DEF Stream
  <2>4. Len(Stream(d)) \in Nat /\ Len(Stream(d)') \in Nat
    BY <1>0, StreamTypes, StreamTypesNext, LenProperties
  <2>5. i \in 1 .. Len(Stream(sd)) /\ Stream(sd)'[i] = Stream(sd)[i]
    BY <2>3, <2>4 DEF Shrinks
  <2> QED BY <1>0, <2>1, <2>5 DEF Unfinished
<1> QED BY <1>3, <1>4, <1>5, <1>6, <1>7, <1>8, <1>9, <1>10, <1>11

-----------------------------------------------------------------------------
(* One connection changes.                                                 *)

LEMMA OneConn ==
    ASSUME Types, commands' = commands, NEW c \in Conns, NEW k \in ConnType,
           conn' = [conn EXCEPT ![c] = k]
    PROVE  /\ conn' \in [Conns -> ConnType'] /\ conn'[c] = k
           /\ \A d \in Conns \ {c} : conn'[d] = conn[d]
           /\ Stream(c)' = k.rbuf \o k.to
           /\ Bounded /\ ConnBounded(k) => Bounded'
<1>1. conn \in [Conns -> ConnType]
  BY DEF Types, DaemonTypes
<1>2. conn' \in [Conns -> ConnType']
  BY <1>1, SameTypes
<1>3. conn'[c] = k /\ \A d \in Conns \ {c} : conn'[d] = conn[d]
  BY <1>1
<1>4. Bounded /\ ConnBounded(k) => Bounded'
  BY <1>3 DEF Bounded, ConnBounded, Conns
<1> QED BY <1>2, <1>3, <1>4, Zenon DEF Stream

\* The stream of the connection is a prefix of what it was.
ShrinksTo(c, k) ==
    /\ Len(k.rbuf \o k.to) <= Len(Stream(c))
    /\ \A i \in 1 .. Len(k.rbuf \o k.to) : (k.rbuf \o k.to)[i] = Stream(c)[i]
    /\ ~ (k.lost \/ k.server = "closed") => ~ Broken(c) /\ k.rbuf \o k.to = Stream(c)
    /\ k.batch_cmd <= conn[c].batch_cmd

LEMMA OneConnShrinks ==
    ASSUME Types, commands' = commands, NEW c \in Conns, NEW k \in ConnType,
           conn' = [conn EXCEPT ![c] = k], ShrinksTo(c, k)
    PROVE  \A d \in Conns : Shrinks(d)
<1>1. Shrinks(c)
  BY OneConn, Zenon DEF Shrinks, ShrinksTo, Broken
<1>2. ASSUME NEW d \in Conns \ {c} PROVE Shrinks(d)
  <2>1. conn'[d] = conn[d]
    BY OneConn
  <2>2. Stream(d)' = Stream(d) /\ (Broken(d)' <=> Broken(d))
    BY <2>1, Zenon DEF Stream, Broken
  <2>3. Len(Stream(d)) \in Nat /\ conn[d].batch_cmd \in Nat
    BY StreamTypes, Zenon
  <2> QED BY <2>1, <2>2, <2>3 DEF Shrinks
<1> QED BY <1>1, <1>2

LEMMA SameStream ==
    ASSUME Types, NEW c \in Conns, NEW k \in ConnType,
           k.rbuf = conn[c].rbuf, k.to = conn[c].to, k.batch_cmd <= conn[c].batch_cmd,
           ~ (k.lost \/ k.server = "closed") => ~ Broken(c)
    PROVE  ShrinksTo(c, k)
<1>1. k.rbuf \o k.to = Stream(c) /\ Len(Stream(c)) \in Nat
  BY StreamTypes, Zenon DEF Stream
<1>2. k.batch_cmd <= conn[c].batch_cmd
  OBVIOUS
<1> QED BY <1>1, <1>2 DEF ShrinksTo

LEMMA EmptyStream ==
    ASSUME Types, NEW c \in Conns, NEW k \in ConnType,
           k.rbuf = <<>>, k.to = <<>>, k.batch_cmd <= conn[c].batch_cmd,
           k.lost \/ k.server = "closed"
    PROVE  ShrinksTo(c, k)
<1>1. k.rbuf \o k.to = <<>> /\ Len(k.rbuf \o k.to) = 0 /\ Len(Stream(c)) \in Nat
  BY StreamTypes, ConcatEmptySeq, EmptySeq
<1> QED BY <1>1 DEF ShrinksTo

\* A step of the daemon that handles no command.
LEMMA DaemonStep ==
    ASSUME StreamInv, UNCHANGED <<clientVars, commands, outcome>>, NEW c \in Conns,
           NEW k \in ConnType, conn' = [conn EXCEPT ![c] = k], ConnBounded(k), ShrinksTo(c, k),
           k.server # "unused", k.closed = conn[c].closed,
           losses' \in Nat, running' \in BOOLEAN, UNCHANGED last_update_stamp
    PROVE  StreamInv' /\ \A d \in Conns : Shrinks(d)
<1>0. Types /\ Locked /\ Bounded
  BY DEF StreamInv
<1>1. Types'
  <2>1. DaemonTypes'
    BY <1>0, OneConn, Zenon DEF Types, DaemonTypes
  <2>2. HistoryTypes'
    BY <1>0 DEF Types, HistoryTypes
  <2>3. ClientTypes'
    BY <1>0, SameTypes DEF Types, ClientTypes, clientVars
  <2> QED BY <2>1, <2>2, <2>3 DEF Types
<1>2. Locked'
  <2>1. conn'[c] = k /\ \A d \in Conns \ {c} : conn'[d] = conn[d]
    BY <1>0, OneConn, Zenon
  <2>2. sd # 0 => conn'[sd].server # "unused" /\ ~ conn'[sd].closed
    BY <1>0, <2>1 DEF Locked, Types, ClientTypes
  <2>3. \A d \in Conns : conn'[d].server = "unused" => conn'[d] = Unused
    BY <1>0, <2>1 DEF Locked
  <2> QED BY <1>0, <2>2, <2>3 DEF Locked, clientVars, Conns, Unused
<1>3. Bounded'
  BY <1>0, OneConn, Zenon
<1>4. \A d \in Conns : Shrinks(d)
  BY <1>0, OneConnShrinks, Zenon
<1>5. CountBounded' /\ CallShape' /\ Streams' /\ NotYetSent' /\ SentHere' /\ Continues' /\ Unfinished'
      /\ CommandsArriveWhole' /\ EndsWhole'
  BY <1>1, <1>4, ShrinkingStreams DEF clientVars
<1> QED BY <1>1, <1>2, <1>3, <1>4, <1>5 DEF StreamInv

\* Reading moves units from one part of the stream to the other.
LEMMA ServerReadFacts ==
    ASSUME StreamInv, NEW c \in Conns, NEW n \in 1 .. RBUF_SIZE, ServerRead(c, n)
    PROVE  \E k \in ConnType :
              LET o == conn[c] IN
              /\ conn' = [conn EXCEPT ![c] = k] /\ k.rbuf \o k.to = Stream(c)
              /\ Len(k.rbuf) = Len(o.rbuf) + n /\ Len(k.to) <= Len(o.to)
              /\ k.from = o.from /\ k.out = o.out /\ k.server = o.server /\ k.closed = o.closed
              /\ k.lost = o.lost /\ k.batch_start = o.batch_start /\ k.batch_cmd = o.batch_cmd
              /\ k.wbuf = o.wbuf
<1> DEFINE o == conn[c]
           k == [o EXCEPT !.rbuf = ReadInto(@, SubSeq(o.to, 1, n)),
                          !.to = SubSeq(@, n + 1, Len(@))]
<1>0. Types /\ Bounded /\ RBUF_SIZE \in Nat
  BY SizesAssumption DEF StreamInv
<1>1. o \in ConnType /\ o.rbuf \in Seq(UnitType) /\ o.to \in Seq(UnitType) /\ o.server = "open"
  BY <1>0, StreamTypes, Zenon DEF ServerRead, Ready
<1>2. /\ SubSeq(o.to, 1, n) \in Seq(UnitType) /\ Len(SubSeq(o.to, 1, n)) = n
      /\ SubSeq(o.to, n + 1, Len(o.to)) \in Seq(UnitType)
      /\ Len(SubSeq(o.to, n + 1, Len(o.to))) <= Len(o.to)
  <2>1. Len(o.to) \in Nat /\ n \in Nat \ {0} /\ n <= Len(o.to)
    BY <1>0, <1>1 DEF ServerRead
  <2>2. \A i \in 1 .. Len(o.to) : o.to[i] \in UnitType
    BY <1>1, ElementOfSeq
  <2> QED BY <2>1, <2>2, SubSeqProperties
<1>3. /\ o.rbuf \o SubSeq(o.to, 1, n) \in Seq(UnitType)
      /\ Len(o.rbuf \o SubSeq(o.to, 1, n)) = Len(o.rbuf) + n
  BY <1>1, <1>2, ConcatProperties
<1>4. k \in ConnType
  BY <1>1, <1>2, <1>3, Zenon DEF ConnType, ReadInto
<1>5. conn' = [conn EXCEPT ![c] = k]
  BY <1>0, Zenon DEF ServerRead, Types, DaemonTypes
<1>6. k.rbuf \o k.to = Stream(c)
  <2>1. SubSeq(o.to, 1, n) \o SubSeq(o.to, n + 1, Len(o.to)) = SubSeq(o.to, 1, Len(o.to))
    <3>1. Len(o.to) \in Nat /\ n \in 1 - 1 .. Len(o.to) /\ 1 \in 1 .. Len(o.to) + 1
          /\ Len(o.to) \in n .. Len(o.to)
      BY <1>0, <1>1 DEF ServerRead
    <3> QED BY <1>1, <3>1, ConcatAdjacentSubSeq
  <2>2. k.rbuf \o k.to = (o.rbuf \o SubSeq(o.to, 1, n)) \o SubSeq(o.to, n + 1, Len(o.to))
    BY <1>1, Zenon DEF ReadInto, ConnType
  <2>3. k.rbuf \o k.to = o.rbuf \o (SubSeq(o.to, 1, n) \o SubSeq(o.to, n + 1, Len(o.to)))
    <3> DEFINE a == SubSeq(o.to, 1, n)
               b == SubSeq(o.to, n + 1, Len(o.to))
    <3>1. a \in Seq(UnitType) /\ b \in Seq(UnitType) /\ o.rbuf \in Seq(UnitType)
          /\ k.rbuf \o k.to = (o.rbuf \o a) \o b
      BY <1>1, <1>2, <2>2, Zenon
    <3> HIDE DEF a, b, k, o
    <3>2. \A x, y, z \in Seq(UnitType) : (x \o y) \o z = x \o (y \o z)
      BY ConcatAssociative, SMTT(30)
    <3>3. k.rbuf \o k.to = o.rbuf \o (a \o b)
      BY <3>1, <3>2, Zenon
    <3> QED BY <3>3 DEF a, b
  <2> QED BY <1>1, <2>1, <2>3, SubSeqFull, Zenon DEF Stream
<1>7. /\ Len(k.rbuf) = Len(o.rbuf) + n /\ Len(k.to) <= Len(o.to)
      /\ k.from = o.from /\ k.out = o.out /\ k.server = o.server /\ k.closed = o.closed
      /\ k.lost = o.lost /\ k.batch_start = o.batch_start /\ k.batch_cmd = o.batch_cmd
      /\ k.wbuf = o.wbuf
  BY <1>1, <1>2, <1>3 DEF ReadInto, ConnType
<1> HIDE DEF k
<1> QED BY <1>4, <1>5, <1>6, <1>7, Zenon

LEMMA ServerReadStep ==
    ASSUME StreamInv, NEW c \in Conns, NEW n \in 1 .. RBUF_SIZE, ServerRead(c, n)
    PROVE  StreamInv' /\ \A d \in Conns : Shrinks(d)
<1> DEFINE o == conn[c]
<1>0. Types /\ Bounded /\ RBUF_SIZE \in Nat /\ MaxToDaemon \in Nat
  BY SizesAssumption DEF StreamInv
<1>1. o \in ConnType /\ Len(o.rbuf) \in Nat /\ Len(o.to) \in Nat /\ o.server = "open"
      /\ o.batch_cmd \in Nat /\ n <= RBUF_SIZE - Len(o.rbuf)
  BY <1>0, StreamTypes, ConnIs, Zenon DEF ServerRead, Ready
<1>2. PICK k \in ConnType :
         /\ conn' = [conn EXCEPT ![c] = k] /\ k.rbuf \o k.to = Stream(c)
         /\ Len(k.rbuf) = Len(o.rbuf) + n /\ Len(k.to) <= Len(o.to)
         /\ k.from = o.from /\ k.server = o.server /\ k.closed = o.closed
         /\ k.lost = o.lost /\ k.batch_cmd = o.batch_cmd
  BY ServerReadFacts, Zenon
<1>3. ConnBounded(k)
  <2>1. ConnBounded(o) /\ Len(k.to) \in Nat /\ n \in Nat
    BY <1>0, ConnIs DEF Bounded
  <2> QED BY <1>0, <1>1, <1>2, <2>1, SMTT(30) DEF ConnBounded
<1>4. ShrinksTo(c, k)
  <2>1. Len(Stream(c)) \in Nat
    BY <1>0, StreamTypes
  <2> QED BY <1>1, <1>2, <2>1 DEF ShrinksTo, Broken
<1> QED BY <1>0, <1>1, <1>2, <1>3, <1>4, DaemonStep, Zenon
        DEF ServerRead, daemonOnly, StreamInv, Types, HistoryTypes, DaemonTypes

LEMMA ClosedConn ==
    ASSUME NEW k \in ConnType, NEW from \in Seq(LineType)
    PROVE  /\ Closed(k) \in ConnType /\ [Closed(k) EXCEPT !.from = from] \in ConnType
           /\ Closed(k).server = "closed" /\ Closed(k).closed = k.closed /\ Closed(k).lost = k.lost
           /\ Closed(k).to = <<>> /\ Closed(k).rbuf = <<>> /\ Closed(k).out = <<>>
           /\ Closed(k).wbuf = <<>> /\ Closed(k).batch_cmd = 0 /\ Closed(k).from = k.from
           /\ Closed(k).batch_start = FALSE
<1>1. k.closed \in BOOLEAN /\ k.lost \in BOOLEAN /\ k.from \in Seq(LineType)
  BY ConnIs, Zenon
<1>2. Unused \in ConnType /\ <<>> \in Seq(LineType)
  BY NoCommandsTypes, EmptySeq
<1>3. Closed(k) \in ConnType
  BY <1>1, <1>2, Zenon DEF Closed, ConnType
<1>4. [Closed(k) EXCEPT !.from = from] \in ConnType
  BY <1>3, Zenon DEF ConnType
<1>5. /\ Closed(k).server = "closed" /\ Closed(k).closed = k.closed /\ Closed(k).lost = k.lost
      /\ Closed(k).from = k.from
  BY <1>2 DEF Closed, ConnType
<1>6. /\ Closed(k).to = Unused.to /\ Closed(k).rbuf = Unused.rbuf /\ Closed(k).out = Unused.out
      /\ Closed(k).wbuf = Unused.wbuf /\ Closed(k).batch_cmd = Unused.batch_cmd
      /\ Closed(k).batch_start = Unused.batch_start
  BY <1>2 DEF Closed, ConnType
<1>7. /\ Unused.to = <<>> /\ Unused.rbuf = <<>> /\ Unused.out = <<>> /\ Unused.wbuf = <<>>
      /\ Unused.batch_cmd = 0 /\ Unused.batch_start = FALSE
  BY DEF Unused
<1> QED BY <1>3, <1>4, <1>5, <1>6, <1>7

LEMMA CloseStep ==
    ASSUME StreamInv, UNCHANGED <<clientVars, running, commands, outcome, losses>>,
           UNCHANGED last_update_stamp, NEW c \in Conns, NEW from \in Seq(LineType),
           Len(from) <= MaxToClient,
           conn' = [conn EXCEPT ![c] = [Closed(conn[c]) EXCEPT !.from = from]]
    PROVE  StreamInv' /\ \A d \in Conns : Shrinks(d)
<1> DEFINE k == [Closed(conn[c]) EXCEPT !.from = from]
<1>0. Types /\ Bounded
  BY DEF StreamInv
<1>1. conn[c] \in ConnType /\ Closed(conn[c]) \in ConnType /\ k \in ConnType
  BY <1>0, StreamTypes, ClosedConn, Zenon
<1>2. /\ k.server = "closed" /\ k.closed = conn[c].closed /\ k.batch_cmd = 0 /\ k.from = from
      /\ k.to = <<>> /\ k.rbuf = <<>> /\ k.out = <<>> /\ k.wbuf = <<>>
  BY <1>1, ClosedConn, Zenon DEF ConnType
<1>3. ConnBounded(k)
  <2>1. Len(k.to) = 0 /\ Len(k.rbuf) = 0
    BY <1>2, EmptySeq
  <2> HIDE DEF k
  <2> QED BY <1>2, <2>1, SizesAssumption DEF ConnBounded
<1>4. ShrinksTo(c, k)
  <2>1. conn[c].batch_cmd \in Nat
    BY <1>1, ConnIs, Zenon
  <2> HIDE DEF k
  <2> QED BY <1>0, <1>1, <1>2, <2>1, EmptyStream
<1>5. conn' = [conn EXCEPT ![c] = k]
  OBVIOUS
<1> HIDE DEF k
<1> QED BY <1>1, <1>2, <1>3, <1>4, <1>5, DaemonStep, Zenon DEF StreamInv, Types, HistoryTypes, DaemonTypes

LEMMA ServerCloseStep ==
    ASSUME StreamInv, NEW c \in Conns, ServerClose(c)
    PROVE  StreamInv' /\ \A d \in Conns : Shrinks(d)
<1> DEFINE k == conn[c]
<1>1. k \in ConnType /\ k.from \in Seq(LineType) /\ Closed(k) \in ConnType
  BY StreamTypes, ConnIs, ClosedConn, Zenon DEF StreamInv
<1>2. Len(k.from) <= MaxToClient
  BY DEF StreamInv, Bounded, ConnBounded
<1>3. Closed(k) = [Closed(k) EXCEPT !.from = k.from]
  BY <1>1, ClosedConn, Zenon DEF ConnType
<1>4. <<>> \in Seq(LineType) /\ Len(<<>>) <= MaxToClient
  BY EmptySeq, SizesAssumption
<1>5. UNCHANGED <<clientVars, running, commands, outcome, losses, last_update_stamp>>
  BY DEF ServerClose, daemonOnly
<1>6. CASE conn' = [conn EXCEPT ![c] = Closed(k)]
  <2>1. conn' = [conn EXCEPT ![c] = [Closed(conn[c]) EXCEPT !.from = k.from]]
    BY <1>3, <1>6, Zenon
  <2> QED BY <1>1, <1>2, <1>5, <2>1, CloseStep, Zenon
<1>7. CASE conn' = [conn EXCEPT ![c] = [Closed(k) EXCEPT !.from = <<>>]]
  BY <1>4, <1>5, <1>7, CloseStep, Zenon
<1> QED BY <1>6, <1>7 DEF ServerClose

LEMMA ServerWriteStep ==
    ASSUME StreamInv, NEW c \in Conns, ServerWrite(c)
    PROVE  StreamInv' /\ \A d \in Conns : Shrinks(d)
<1> DEFINE o == conn[c]
           k == [o EXCEPT !.from = Append(@, Head(o.out)), !.out = Tail(@)]
<1>0. Types /\ Bounded
  BY DEF StreamInv
<1>1. o \in ConnType /\ o.out \in Seq(LineType) /\ o.from \in Seq(LineType) /\ o.out # <<>>
      /\ Len(o.from) \in Nat /\ o.server = "open" /\ Len(o.from) < MaxToClient
  BY <1>0, StreamTypes, ConnIs, Zenon DEF ServerWrite
<1>2. /\ Append(o.from, Head(o.out)) \in Seq(LineType) /\ Tail(o.out) \in Seq(LineType)
      /\ Len(Append(o.from, Head(o.out))) = Len(o.from) + 1
  <2>1. Head(o.out) \in LineType /\ Tail(o.out) \in Seq(LineType)
    BY <1>1, HeadTailProperties
  <2> QED BY <1>1, <2>1, AppendProperties
<1>3. k \in ConnType
  BY <1>1, <1>2, Zenon DEF ConnType
<1>4. conn' = [conn EXCEPT ![c] = k]
  BY <1>0, Zenon DEF ServerWrite, Types, DaemonTypes
<1>5. /\ k.rbuf = o.rbuf /\ k.to = o.to /\ k.server = "open" /\ k.closed = o.closed
      /\ k.lost = o.lost /\ k.batch_cmd = o.batch_cmd /\ o.batch_cmd \in Nat
      /\ Len(k.from) = Len(o.from) + 1
  BY <1>1, <1>2 DEF ConnType
<1>6. ConnBounded(k)
  <2>1. ConnBounded(o)
    BY <1>0 DEF Bounded
  <2> HIDE DEF k
  <2> QED BY <1>1, <1>5, <2>1, SizesAssumption DEF ConnBounded
<1>7. ShrinksTo(c, k)
  <2> HIDE DEF k
  <2> QED BY <1>0, <1>1, <1>3, <1>5, SameStream DEF Broken
<1> HIDE DEF k
<1> QED BY <1>0, <1>3, <1>4, <1>5, <1>6, <1>7, DaemonStep, Zenon
        DEF ServerWrite, daemonOnly, StreamInv, Types, HistoryTypes, DaemonTypes

LEMMA ServerWriteFailsStep ==
    ASSUME StreamInv, NEW c \in Conns, ServerWriteFails(c)
    PROVE  StreamInv' /\ \A d \in Conns : Shrinks(d)
<1> DEFINE o == conn[c]
           k == [o EXCEPT !.out = <<>>]
<1>0. Types /\ Bounded
  BY DEF StreamInv
<1>1. o \in ConnType /\ o.from \in Seq(LineType) /\ Closed(o) \in ConnType /\ o.server = "open"
  BY <1>0, StreamTypes, ConnIs, ClosedConn, Zenon DEF ServerWriteFails
<1>2. UNCHANGED <<clientVars, running, commands, outcome, losses, last_update_stamp>>
  BY DEF ServerWriteFails, daemonOnly
<1>3. CASE conn' = [conn EXCEPT ![c] = k]
  <2>1. k \in ConnType
    BY <1>1, EmptySeq, Zenon DEF ConnType
  <2>2. /\ k.rbuf = o.rbuf /\ k.to = o.to /\ k.server = "open" /\ k.closed = o.closed
        /\ k.lost = o.lost /\ k.batch_cmd = o.batch_cmd /\ o.batch_cmd \in Nat
        /\ k.from = o.from
    BY <1>1 DEF ConnType
  <2> HIDE DEF k
  <2>3. ConnBounded(k)
    <3>1. ConnBounded(o)
      BY <1>0 DEF Bounded
    <3> QED BY <1>1, <2>2, <3>1 DEF ConnBounded
  <2>4. ShrinksTo(c, k)
    BY <1>0, <1>1, <2>1, <2>2, SameStream DEF Broken
  <2> QED BY <1>0, <1>2, <1>3, <2>1, <2>2, <2>3, <2>4, DaemonStep, Zenon
          DEF StreamInv, Types, HistoryTypes, DaemonTypes
<1>4. CASE conn' = [conn EXCEPT ![c] = Closed(o)]
  <2>1. Closed(o) = [Closed(o) EXCEPT !.from = o.from]
    BY <1>1, ClosedConn, Zenon DEF ConnType
  <2>2. Len(o.from) <= MaxToClient
    BY <1>0 DEF Bounded, ConnBounded
  <2> QED BY <1>1, <1>2, <1>4, <2>1, <2>2, CloseStep, Zenon
<1> QED BY <1>3, <1>4, Zenon DEF ServerWriteFails

LEMMA PrefixOf ==
    ASSUME NEW S, NEW s \in Seq(S), NEW n \in 0 .. Len(s)
    PROVE  /\ SubSeq(s, 1, n) \in Seq(S) /\ Len(SubSeq(s, 1, n)) = n
           /\ \A i \in 1 .. n : SubSeq(s, 1, n)[i] = s[i]
<1>1. \A i \in 1 .. n : s[i] \in S
  BY ElementOfSeq
<1> QED BY <1>1, SubSeqProperties

LEMMA ConcatPrefix ==
    ASSUME NEW S, NEW r \in Seq(S), NEW s \in Seq(S), NEW n \in 0 .. Len(s)
    PROVE  /\ Len(r \o SubSeq(s, 1, n)) <= Len(r \o s)
           /\ \A i \in 1 .. Len(r \o SubSeq(s, 1, n)) : (r \o SubSeq(s, 1, n))[i] = (r \o s)[i]
<1> DEFINE p == SubSeq(s, 1, n)
<1>1. p \in Seq(S) /\ Len(p) = n /\ \A i \in 1 .. n : p[i] = s[i]
  BY PrefixOf
<1> HIDE DEF p
<1>2. /\ Len(r \o p) = Len(r) + n
      /\ \A i \in 1 .. Len(r) + n : (r \o p)[i] = IF i <= Len(r) THEN r[i] ELSE p[i - Len(r)]
  BY <1>1, ConcatProperties, Zenon
<1>3. /\ Len(r \o s) = Len(r) + Len(s)
      /\ \A i \in 1 .. Len(r) + Len(s) : (r \o s)[i] = IF i <= Len(r) THEN r[i] ELSE s[i - Len(r)]
  BY ConcatProperties
<1>4. Len(r) \in Nat /\ Len(s) \in Nat /\ n \in Nat /\ n <= Len(s)
  OBVIOUS
<1>5. ASSUME NEW i \in 1 .. Len(r) + n PROVE (r \o p)[i] = (r \o s)[i]
  <2>1. i \in 1 .. Len(r) + Len(s)
    BY <1>4
  <2>2. i > Len(r) => p[i - Len(r)] = s[i - Len(r)]
    BY <1>1, <1>4
  <2> QED BY <1>2, <1>3, <1>4, <2>1, <2>2
<1>6. Len(r \o p) <= Len(r \o s) /\ \A i \in 1 .. Len(r \o p) : (r \o p)[i] = (r \o s)[i]
  BY <1>2, <1>3, <1>4, <1>5
<1> QED BY <1>6 DEF p

LEMMA LoseStep ==
    ASSUME StreamInv, NEW c \in Conns, Lose(c)
    PROVE  StreamInv' /\ \A d \in Conns : Shrinks(d)
<1> DEFINE o == conn[c]
<1>0. Types /\ Bounded
  BY DEF StreamInv
<1>1. /\ o \in ConnType /\ o.to \in Seq(UnitType) /\ o.from \in Seq(LineType) /\ o.server = "open"
      /\ o.rbuf \in Seq(UnitType) /\ Len(o.rbuf) \in Nat /\ Len(o.to) \in Nat /\ Len(o.from) \in Nat
  BY <1>0, StreamTypes, ConnIs, Zenon DEF Lose
<1>2. PICK i \in 0 .. Len(o.to), j \in 0 .. Len(o.from) :
         conn' = [conn EXCEPT ![c].lost = TRUE, ![c].to = SubSeq(@, 1, i), ![c].from = SubSeq(@, 1, j)]
  BY DEF Lose
<1> DEFINE k == [o EXCEPT !.lost = TRUE, !.to = SubSeq(@, 1, i), !.from = SubSeq(@, 1, j)]
<1>3. conn' = [conn EXCEPT ![c] = k]
  BY <1>0, <1>2, Zenon DEF Types, DaemonTypes
<1>4. /\ SubSeq(o.to, 1, i) \in Seq(UnitType) /\ Len(SubSeq(o.to, 1, i)) = i
      /\ \A l \in 1 .. i : SubSeq(o.to, 1, i)[l] = o.to[l]
      /\ SubSeq(o.from, 1, j) \in Seq(LineType) /\ Len(SubSeq(o.from, 1, j)) = j
  BY <1>1, PrefixOf
<1>5. k \in ConnType
  BY <1>1, <1>4, Zenon DEF ConnType
<1>6. /\ k.rbuf = o.rbuf /\ k.to = SubSeq(o.to, 1, i) /\ k.server = "open" /\ k.closed = o.closed
      /\ k.lost = TRUE /\ k.batch_cmd = o.batch_cmd /\ o.batch_cmd \in Nat
      /\ k.from = SubSeq(o.from, 1, j)
  BY <1>1 DEF ConnType
<1> HIDE DEF k
<1>7. ConnBounded(k)
  <2>1. ConnBounded(o)
    BY <1>0 DEF Bounded
  <2> QED BY <1>1, <1>4, <1>6, <2>1, SizesAssumption DEF ConnBounded
<1>8. ShrinksTo(c, k)
  <2>1. k.rbuf \o k.to = o.rbuf \o SubSeq(o.to, 1, i) /\ Stream(c) = o.rbuf \o o.to
    BY <1>6 DEF Stream
  <2>2. /\ Len(k.rbuf \o k.to) <= Len(Stream(c))
        /\ \A l \in 1 .. Len(k.rbuf \o k.to) : (k.rbuf \o k.to)[l] = Stream(c)[l]
    <3>1. \A r, s \in Seq(UnitType) : \A n \in 0 .. Len(s) :
             /\ Len(r \o SubSeq(s, 1, n)) <= Len(r \o s)
             /\ \A l \in 1 .. Len(r \o SubSeq(s, 1, n)) : (r \o SubSeq(s, 1, n))[l] = (r \o s)[l]
      BY ConcatPrefix
    <3>2. i \in 0 .. Len(o.to)
      OBVIOUS
    <3> DEFINE p == o.rbuf \o SubSeq(o.to, 1, i)
    <3>3. Len(p) <= Len(o.rbuf \o o.to) /\ \A l \in 1 .. Len(p) : p[l] = (o.rbuf \o o.to)[l]
      BY <1>1, <3>1, <3>2, Zenon
    <3>4. p = k.rbuf \o k.to /\ o.rbuf \o o.to = Stream(c)
      BY <2>1
    <3> HIDE DEF o, p
    <3> QED BY <3>3, <3>4, Zenon
  <2>3. k.lost
    BY <1>6
  <2>4. k.batch_cmd <= conn[c].batch_cmd
    BY <1>6
  <2> QED BY <2>2, <2>3, <2>4, Zenon DEF ShrinksTo
<1>9. /\ losses' \in Nat /\ running' \in BOOLEAN
      /\ UNCHANGED <<clientVars, commands, outcome, last_update_stamp>>
  BY <1>0 DEF Lose, Types, HistoryTypes, DaemonTypes
<1> QED BY <1>0, <1>3, <1>5, <1>6, <1>7, <1>8, <1>9, DaemonStep, Zenon

LEMMA StopStep ==
    ASSUME StreamInv, Forget \/ Stop
    PROVE  StreamInv' /\ \A d \in Conns : Shrinks(d)
<1>1. /\ UNCHANGED <<clientVars, conn, commands, outcome, losses>>
      /\ running' \in BOOLEAN /\ last_update_stamp' \in Nat
  <2>1. running \in BOOLEAN /\ last_update_stamp \in Nat
    BY DEF StreamInv, Types, DaemonTypes
  <2>2. CASE Forget
    BY <2>1, <2>2, Zenon DEF Forget
  <2>3. CASE Stop
    BY <2>1, <2>3, Zenon DEF Stop
  <2> QED BY <2>2, <2>3
<1>2. Types'
  BY <1>1, SameTypes, Zenon DEF StreamInv, Types, ClientTypes, HistoryTypes, DaemonTypes, clientVars
<1>3. Bounded' /\ Locked'
  BY <1>1 DEF StreamInv, Bounded, Locked, clientVars
<1>4. \A c \in Conns : Shrinks(c)
  <2> SUFFICES ASSUME NEW c \in Conns PROVE Shrinks(c)
    OBVIOUS
  <2>1. Stream(c)' = Stream(c) /\ (Broken(c)' <=> Broken(c)) /\ conn'[c] = conn[c]
    BY <1>1 DEF Stream, Broken
  <2>2. Len(Stream(c)) \in Nat /\ conn[c].batch_cmd \in Nat
    BY StreamTypes, Zenon DEF StreamInv
  <2> QED BY <2>1, <2>2 DEF Shrinks
<1>5. CountBounded' /\ CallShape' /\ Streams' /\ NotYetSent' /\ SentHere' /\ Continues' /\ Unfinished'
      /\ CommandsArriveWhole' /\ EndsWhole'
  BY <1>1, <1>2, <1>4, ShrinkingStreams DEF clientVars
<1> QED BY <1>2, <1>3, <1>4, <1>5 DEF StreamInv

-----------------------------------------------------------------------------
(* The client connects, closes, reads.                                     *)

LEMMA Holder ==
    ASSUME Types, Locked, NEW t \in Threads, pc[t] \in {"write", "read"}
    PROVE  /\ lock = t /\ sd \in Conns /\ sd # 0 /\ conn[sd] \in ConnType
           /\ conn[sd].server # "unused" /\ conn[sd].closed = FALSE
           /\ \A u \in Threads \ {t} : pc[u] \notin {"write", "read"}
<1>1. lock = t /\ sd \in Conns /\ sd # 0
  BY ThreadsAssumption DEF Types, ClientTypes, Locked
<1>2. conn[sd] \in ConnType /\ conn[sd].closed \in BOOLEAN
  BY <1>1, StreamTypes, ConnIs, Zenon
<1> QED BY <1>1, <1>2 DEF Locked

LEMMA CloseBySelf ==
    ASSUME Types, Bounded, sd \in Conns, close_connection, commands' = commands
    PROVE  /\ conn' \in [Conns -> ConnType'] /\ Bounded' /\ \A d \in Conns : Shrinks(d)
           /\ conn'[sd].server = conn[sd].server /\ \A d \in Conns \ {sd} : conn'[d] = conn[d]
<1> DEFINE o == conn[sd]
           k == [o EXCEPT !.closed = TRUE, !.from = <<>>]
<1>1. o \in ConnType
  BY StreamTypes, Zenon
<1>2. k \in ConnType
  BY <1>1, EmptySeq, Zenon DEF ConnType
<1>3. conn' = [conn EXCEPT ![sd] = k]
  BY Zenon DEF close_connection, Types, DaemonTypes
<1>4. /\ k.rbuf = o.rbuf /\ k.to = o.to /\ k.server = o.server /\ k.lost = o.lost
      /\ k.batch_cmd = o.batch_cmd /\ o.batch_cmd \in Nat /\ k.from = <<>> /\ k.out = o.out
      /\ k.wbuf = o.wbuf
  BY <1>1 DEF ConnType
<1>5. ConnBounded(k)
  <2>1. ConnBounded(o) /\ Len(k.from) = 0
    BY <1>4, EmptySeq DEF Bounded
  <2> HIDE DEF k
  <2> QED BY <1>4, <2>1, SizesAssumption DEF ConnBounded
<1>6. ShrinksTo(sd, k)
  <2>1. k.batch_cmd <= conn[sd].batch_cmd /\ (~ (k.lost \/ k.server = "closed") => ~ Broken(sd))
    BY <1>4 DEF Broken
  <2> HIDE DEF k
  <2> QED BY <1>2, <1>4, <2>1, SameStream
<1> HIDE DEF k
<1>7. conn' \in [Conns -> ConnType'] /\ conn'[sd] = k /\ Bounded' /\ \A d \in Conns \ {sd} : conn'[d] = conn[d]
  BY <1>2, <1>3, <1>5, OneConn, Zenon
<1>8. \A d \in Conns : Shrinks(d)
  BY <1>2, <1>3, <1>6, OneConnShrinks, Zenon
<1> QED BY <1>4, <1>7, <1>8

LEMMA SameShrinks ==
    ASSUME Types, conn' = conn
    PROVE  \A c \in Conns : Shrinks(c)
<1> SUFFICES ASSUME NEW c \in Conns PROVE Shrinks(c)
  OBVIOUS
<1>1. Stream(c)' = Stream(c) /\ (Broken(c)' <=> Broken(c)) /\ conn'[c] = conn[c]
  BY DEF Stream, Broken
<1>2. Len(Stream(c)) \in Nat /\ conn[c].batch_cmd \in Nat
  BY StreamTypes, Zenon
<1> QED BY <1>1, <1>2 DEF Shrinks

LEMMA FailStep ==
    ASSUME StreamInv, NEW t \in Threads, pc[t] = "read", Die(t),
           UNCHANGED <<call, unsent, running, last_update_stamp, commands, outcome, losses>>
    PROVE  StreamInv' /\ \A d \in Conns : Shrinks(d)
<1>0. Types /\ Locked /\ Bounded /\ commands' = commands
  BY DEF StreamInv
<1>1. lock = t /\ sd \in Conns /\ \A u \in Threads \ {t} : pc[u] \notin {"write", "read"}
  BY <1>0, Holder, Zenon
<1>2. close_connection /\ sd' = 0 /\ pc' = [pc EXCEPT ![t] = "failed"] /\ lock' = NoThread
      /\ UNCHANGED <<answer, answers>>
  BY DEF Die, Goto, close_connection
<1>3. /\ conn' \in [Conns -> ConnType'] /\ Bounded' /\ \A d \in Conns : Shrinks(d)
      /\ conn'[sd].server = conn[sd].server /\ \A d \in Conns \ {sd} : conn'[d] = conn[d]
      /\ conn[sd].server # "unused"
  BY <1>0, <1>1, <1>2, CloseBySelf, Holder, Zenon
<1>4. Types'
  BY <1>0, <1>2, <1>3, SameTypes DEF Types, ClientTypes, HistoryTypes, DaemonTypes, Ids
<1>5. pc \in [Threads -> {"idle", "connect", "request", "write", "read", "done", "failed"}]
  BY <1>0 DEF Types, ClientTypes
<1>6. \A u \in Threads : pc'[u] \notin {"write", "read"}
  BY <1>1, <1>2, <1>5
<1>7. Locked'
  BY <1>0, <1>2, <1>3, <1>6, ThreadsAssumption DEF Locked, Conns, Unused
<1>8. \A u \in Threads : pc'[u] = pc[u] \/ (pc[u] # "idle" /\ pc'[u] \in {"done", "failed"})
  BY <1>2, <1>5
<1>9. CountBounded' /\ CallShape' /\ Streams' /\ NotYetSent' /\ SentHere' /\ Continues' /\ Unfinished'
      /\ CommandsArriveWhole' /\ EndsWhole'
  BY <1>1, <1>2, <1>3, <1>4, <1>6, <1>8, ShrinkingStreams
<1> QED BY <1>3, <1>4, <1>7, <1>9 DEF StreamInv

LEMMA ReadEofStep ==
    ASSUME StreamInv, NEW t \in Threads, ReadEof(t)
    PROVE  StreamInv' /\ \A d \in Conns : Shrinks(d)
  BY FailStep DEF ReadEof

LEMMA LineIs ==
    ASSUME NEW line \in LineType
    PROVE  /\ Text(line) \in [n : Int, id : Ids] /\ line.resp \in RespType /\ line.part \in Nat
           /\ line.part <= Len(line.resp.lines) /\ line.resp.lines \in Seq(InfoType)
           /\ line.resp.status \in Int /\ line.resp.id \in Ids /\ Len(line.resp.lines) \in Nat
<1>1. line.resp \in RespType /\ line.part \in Nat /\ line.part <= Len(line.resp.lines)
  BY DEF LineType
<1>2. /\ line.resp.lines \in Seq(InfoType) /\ line.resp.status \in Int /\ line.resp.id \in Ids
      /\ Len(line.resp.lines) \in Nat
  BY <1>1 DEF RespType
<1>3. line.part # 0 => line.resp.lines[line.part] \in InfoType
  BY <1>1, <1>2, ElementOfSeq
<1>4. Text(line) \in [n : Int, id : Ids]
  BY <1>1, <1>2, <1>3 DEF Text, InfoType
<1> QED BY <1>1, <1>2, <1>4

\* The response as far as it has been read, with one more line.
Now(t) ==
    LET line == Text(Head(conn[sd].from)) IN
    IF answer[t].status = 0 THEN [status |-> line.n, lines |-> <<>>]
    ELSE [answer[t] EXCEPT !.lines = Append(@, line)]

LEMMA NowType ==
    ASSUME Types, sd \in Conns, NEW t \in Threads, conn[sd].from # <<>>
    PROVE  /\ Head(conn[sd].from) \in LineType /\ Now(t) \in AnswerType
           /\ Len(Now(t).lines) \in Nat /\ Now(t).status \in Int
<1>1. conn[sd].from \in Seq(LineType)
  BY StreamTypes, ConnIs, Zenon
<1>2. Head(conn[sd].from) \in LineType
  BY <1>1, HeadTailProperties
<1>3. Text(Head(conn[sd].from)) \in InfoType /\ Text(Head(conn[sd].from)).n \in Int
  BY <1>2, LineIs DEF InfoType
<1>4. answer[t] \in AnswerType /\ answer[t].lines \in Seq(InfoType)
  BY DEF Types, ClientTypes, AnswerType
<1>5. <<>> \in Seq(InfoType) /\ Append(answer[t].lines, Text(Head(conn[sd].from))) \in Seq(InfoType)
  BY <1>3, <1>4, EmptySeq, AppendProperties
<1>6. Now(t) \in AnswerType
  BY <1>3, <1>4, <1>5, Zenon DEF Now, AnswerType
<1>7. Now(t).lines \in Seq(InfoType) /\ Now(t).status \in Int
  BY <1>6 DEF AnswerType
<1> QED BY <1>2, <1>6, <1>7

LEMMA LineStep ==
    ASSUME StreamInv, NEW t \in Threads, ReadLine(t),
           ~ (answer[t].status = 0 /\ Text(Head(conn[sd].from)).n = NoNumber)
    PROVE  /\ conn' = [conn EXCEPT ![sd] = [conn[sd] EXCEPT !.from = Tail(@)]]
           /\ IF Len(Now(t).lines) >= Now(t).status THEN Return(t, Append(answers[t], Now(t)))
              ELSE answer' = [answer EXCEPT ![t] = Now(t)] /\ UNCHANGED <<pc, lock, answers>>
           /\ sd' = sd
           /\ UNCHANGED <<call, unsent, running, last_update_stamp, commands, outcome, losses>>
<1>1. conn \in [Conns -> ConnType]
  BY DEF StreamInv, Types, DaemonTypes
<1>2. conn' = [conn EXCEPT ![sd].from = Tail(@)]
  BY DEF ReadLine
<1>3. conn' = [conn EXCEPT ![sd] = [conn[sd] EXCEPT !.from = Tail(@)]]
  BY <1>1, <1>2
<1> QED BY <1>3 DEF ReadLine, Now

LEMMA ReadLineStep ==
    ASSUME StreamInv, NEW t \in Threads, ReadLine(t)
    PROVE  StreamInv' /\ \A d \in Conns : Shrinks(d)
<1>0. Types /\ Locked /\ Bounded /\ commands' = commands /\ pc[t] = "read" /\ conn[sd].from # <<>>
      /\ UNCHANGED <<call, unsent, running, last_update_stamp, commands, outcome, losses>>
  BY DEF StreamInv, ReadLine
<1>1. /\ lock = t /\ sd \in Conns /\ \A u \in Threads \ {t} : pc[u] \notin {"write", "read"}
      /\ conn[sd] \in ConnType /\ conn[sd].server # "unused" /\ conn[sd].closed = FALSE /\ sd # 0
  BY <1>0, Holder, Zenon
<1>2. CASE answer[t].status = 0 /\ Text(Head(conn[sd].from)).n = NoNumber
  BY <1>0, <1>2, FailStep DEF ReadLine
<1>3. CASE ~ (answer[t].status = 0 /\ Text(Head(conn[sd].from)).n = NoNumber)
  <2> DEFINE o == conn[sd]
             k == [o EXCEPT !.from = Tail(@)]
  <2>1. /\ conn' = [conn EXCEPT ![sd] = k] /\ sd' = sd
        /\ IF Len(Now(t).lines) >= Now(t).status THEN Return(t, Append(answers[t], Now(t)))
           ELSE answer' = [answer EXCEPT ![t] = Now(t)] /\ UNCHANGED <<pc, lock, answers>>
    BY <1>3, LineStep
  <2>2. o.from \in Seq(LineType) /\ Tail(o.from) \in Seq(LineType) /\ Len(Tail(o.from)) = Len(o.from) - 1
    BY <1>0, <1>1, ConnIs, HeadTailProperties, Zenon
  <2>3. k \in ConnType
    BY <1>1, <2>2, Zenon DEF ConnType
  <2>4. /\ k.rbuf = o.rbuf /\ k.to = o.to /\ k.server = o.server /\ k.lost = o.lost
        /\ k.batch_cmd = o.batch_cmd /\ o.batch_cmd \in Nat /\ k.from = Tail(o.from) /\ k.out = o.out
        /\ k.wbuf = o.wbuf /\ k.closed = o.closed
    BY <1>1 DEF ConnType
  <2> HIDE DEF k
  <2>5. ConnBounded(k)
    <3>1. ConnBounded(o) /\ Len(o.from) \in Nat /\ Len(k.from) = Len(o.from) - 1
      BY <1>0, <1>1, <2>2, <2>4 DEF Bounded
    <3> QED BY <2>4, <3>1, SizesAssumption DEF ConnBounded
  <2>6. ShrinksTo(sd, k)
    <3>1. k.batch_cmd <= conn[sd].batch_cmd /\ (~ (k.lost \/ k.server = "closed") => ~ Broken(sd))
      BY <2>4 DEF Broken
    <3> QED BY <1>0, <1>1, <2>3, <2>4, <3>1, SameStream
  <2>7. /\ conn' \in [Conns -> ConnType'] /\ conn'[sd] = k /\ Bounded' /\ \A d \in Conns : Shrinks(d)
    BY <1>0, <1>1, <2>1, <2>3, <2>5, <2>6, OneConn, OneConnShrinks, Zenon
  <2>8. Now(t) \in AnswerType /\ Append(answers[t], Now(t)) \in Seq(AnswerType)
    <3>1. Now(t) \in AnswerType /\ answers[t] \in Seq(AnswerType)
      BY <1>0, <1>1, NowType DEF Types, ClientTypes
    <3> QED BY <3>1, AppendProperties
  <2>9. /\ answer' \in [Threads -> AnswerType] /\ answers' \in [Threads -> Seq(AnswerType)]
        /\ \/ pc' = pc /\ lock' = lock
           \/ pc' = [pc EXCEPT ![t] = "done"] /\ lock' = NoThread
    <3>1. CASE Len(Now(t).lines) >= Now(t).status
      BY <1>0, <2>1, <2>8, <3>1, NoCommandsTypes, ZenonT(40) DEF Return, Goto, Types, ClientTypes
    <3>2. CASE ~ (Len(Now(t).lines) >= Now(t).status)
      BY <1>0, <2>1, <2>8, <3>2, Zenon DEF Types, ClientTypes
    <3> QED BY <3>1, <3>2
  <2>10. pc \in [Threads -> {"idle", "connect", "request", "write", "read", "done", "failed"}]
    BY <1>0 DEF Types, ClientTypes
  <2>11. Types'
    <3>1. ClientTypes'
      BY <1>0, <2>1, <2>9, SameTypes, Zenon DEF Types, ClientTypes
    <3>2. HistoryTypes' /\ DaemonTypes'
      BY <1>0, <2>7 DEF Types, HistoryTypes, DaemonTypes
    <3> QED BY <3>1, <3>2 DEF Types
  <2>12. Locked'
    <3>1. \A d \in Conns : conn'[d].server = "unused" => conn'[d] = Unused
      <4>1. \A d \in Conns \ {sd} : conn'[d] = conn[d]
        BY <1>0, <1>1, <2>1, <2>3, OneConn
      <4> QED BY <1>0, <1>1, <2>4, <2>7, <4>1 DEF Locked
    <3>2. sd' # 0 => conn'[sd'].server # "unused" /\ ~ conn'[sd'].closed
      BY <1>1, <2>1, <2>4, <2>7
    <3>3. /\ \A u \in Threads : pc'[u] \in {"write", "read"} <=> lock' = u
          /\ lock' # NoThread => sd' # 0
      BY <1>0, <1>1, <2>1, <2>9, <2>10, ThreadsAssumption DEF Locked
    <3> QED BY <3>1, <3>2, <3>3 DEF Locked, Conns, Unused
  <2>13. \A u \in Threads : pc'[u] = pc[u] \/ (pc[u] # "idle" /\ pc'[u] \in {"done", "failed"})
    BY <1>0, <2>9, <2>10
  <2>14. CountBounded' /\ CallShape' /\ Streams' /\ NotYetSent' /\ SentHere' /\ Continues' /\ Unfinished'
         /\ CommandsArriveWhole' /\ EndsWhole'
    BY <1>0, <1>1, <2>1, <2>7, <2>9, <2>11, <2>13, ShrinkingStreams
  <2> QED BY <2>7, <2>11, <2>12, <2>14 DEF StreamInv
<1> QED BY <1>2, <1>3

LEMMA DisconnectStep ==
    ASSUME StreamInv, NEW t \in Threads, Disconnect(t)
    PROVE  StreamInv' /\ \A d \in Conns : Shrinks(d)
<1>0. /\ Types /\ Locked /\ Bounded /\ close_connection /\ sd # 0 /\ lock = NoThread /\ sd' = 0
      /\ UNCHANGED <<lock, pc, call, unsent, answer, answers, running, last_update_stamp,
                     commands, outcome, losses>>
  BY DEF StreamInv, Disconnect, close_connection
<1>1. sd \in Conns
  BY <1>0 DEF Types, ClientTypes
<1>2. /\ conn' \in [Conns -> ConnType'] /\ Bounded' /\ \A d \in Conns : Shrinks(d)
      /\ conn'[sd].server = conn[sd].server /\ \A d \in Conns \ {sd} : conn'[d] = conn[d]
      /\ conn[sd].server # "unused"
  BY <1>0, <1>1, CloseBySelf DEF Locked
<1>3. Types'
  BY <1>0, <1>2, SameTypes DEF Types, ClientTypes, HistoryTypes, DaemonTypes, Ids
<1>4. Locked' /\ \A u \in Threads : pc'[u] \notin {"write", "read"}
  BY <1>0, <1>2, ThreadsAssumption DEF Locked, Conns, Unused
<1>5. CountBounded' /\ CallShape' /\ Streams' /\ NotYetSent' /\ SentHere' /\ Continues' /\ Unfinished'
      /\ CommandsArriveWhole' /\ EndsWhole'
  BY <1>0, <1>2, <1>3, <1>4, ShrinkingStreams
<1> QED BY <1>2, <1>3, <1>4, <1>5 DEF StreamInv

\* A new connection has not been used before.
LEMMA ConnectFacts ==
    ASSUME StreamInv, NEW t \in Threads, Connect(t)
    PROVE  \/ UNCHANGED <<sd, conn>>
           \/ sd = 0 /\ \E c \in Conns : /\ sd' = c /\ conn[c] = Unused
                                        /\ conn' = [conn EXCEPT ![c].server = "open"]
<1> DEFINE unused == {c \in Conns : conn[c].server = "unused"}
           c0 == CHOOSE c \in unused : \A d \in unused : c <= d
<1>1. \/ UNCHANGED <<sd, conn>>
      \/ sd = 0 /\ unused # {} /\ sd' = c0 /\ conn' = [conn EXCEPT ![c0].server = "open"]
  BY DEF Connect
<1>2. ASSUME unused # {} PROVE c0 \in unused
  <2>1. unused \subseteq 1 .. MaxConns /\ MaxConns \in Nat
    BY SizesAssumption DEF Conns
  <2>2. \E c \in unused : \A d \in unused : c <= d
    <3> HIDE DEF unused
    <3>1. unused \in SUBSET Nat /\ unused # {}
      BY <1>2, <2>1
    <3> QED BY <3>1, LeastNumber, Zenon
  <2> QED BY <2>2
<1>3. \A c \in unused : c \in Conns /\ conn[c] = Unused
  BY DEF StreamInv, Locked
<1> HIDE DEF unused, c0
<1> QED BY <1>1, <1>2, <1>3

LEMMA ConnectStep ==
    ASSUME StreamInv, NEW t \in Threads, Connect(t)
    PROVE  StreamInv' /\ \A d \in Conns : Shrinks(d)
<1>0. /\ Types /\ Locked /\ Bounded /\ pc[t] = "connect" /\ lock = NoThread
      /\ UNCHANGED <<lock, call, unsent, answer, answers, running, last_update_stamp,
                     commands, outcome, losses>>
  BY DEF StreamInv, Connect
<1>1. pc \in [Threads -> {"idle", "connect", "request", "write", "read", "done", "failed"}]
  BY <1>0 DEF Types, ClientTypes
<1>2. \A u \in Threads : pc[u] \notin {"write", "read"}
  BY <1>0, ThreadsAssumption DEF Locked
<1>3. pc' = [pc EXCEPT ![t] = "request"] \/ pc' = [pc EXCEPT ![t] = "failed"]
  BY DEF Connect, Goto
<1>4. /\ pc' \in [Threads -> {"idle", "connect", "request", "write", "read", "done", "failed"}]
      /\ \A u \in Threads : pc'[u] \notin {"write", "read"}
      /\ \A u \in Threads : \/ pc'[u] = pc[u] \/ (pc[u] # "idle" /\ pc'[u] \in {"done", "failed"})
                            \/ pc[u] = "connect" /\ pc'[u] = "request"
  BY <1>0, <1>1, <1>2, <1>3
<1>5. /\ conn' \in [Conns -> ConnType'] /\ Bounded' /\ \A d \in Conns : Shrinks(d)
      /\ sd' \in {0} \union Conns
      /\ sd' # 0 => conn'[sd'].server # "unused" /\ ~ conn'[sd'].closed
      /\ \A d \in Conns : conn'[d].server = "unused" => conn'[d] = Unused
      /\ sd' # sd => conn'[sd'].rbuf \o conn'[sd'].to = <<>>
  <2>1. CASE UNCHANGED <<sd, conn>>
    <3>1. \A d \in Conns : Shrinks(d)
      BY <1>0, <2>1, SameShrinks
    <3>2. conn' \in [Conns -> ConnType'] /\ Bounded'
      BY <1>0, <2>1, SameTypes DEF Types, DaemonTypes, Bounded, ConnBounded
    <3>3. \A d \in Conns : conn'[d].server = "unused" => conn'[d] = Unused
      BY <1>0, <2>1 DEF Locked
    <3> QED BY <1>0, <2>1, <3>1, <3>2, <3>3 DEF Types, ClientTypes, Locked
  <2>2. ASSUME NEW c0 \in Conns, sd = 0, sd' = c0, conn[c0] = Unused,
               conn' = [conn EXCEPT ![c0].server = "open"]
        PROVE  /\ conn' \in [Conns -> ConnType'] /\ Bounded' /\ \A d \in Conns : Shrinks(d)
               /\ sd' \in {0} \union Conns
               /\ sd' # 0 => conn'[sd'].server # "unused" /\ ~ conn'[sd'].closed
               /\ \A d \in Conns : conn'[d].server = "unused" => conn'[d] = Unused
               /\ sd' # sd => conn'[sd'].rbuf \o conn'[sd'].to = <<>>
    <3>1. c0 \in Conns /\ conn[c0].server = "unused" /\ conn[c0] \in ConnType
      <4>1. conn[c0].server = "unused"
        BY <2>2 DEF Unused
      <4> QED BY <1>0, <4>1, StreamTypes, Zenon
    <3> DEFINE o == conn[c0]
               k == [o EXCEPT !.server = "open"]
    <3>3. k \in ConnType
      BY <3>1, Zenon DEF ConnType
    <3>4. conn' = [conn EXCEPT ![c0] = k]
      BY <1>0, <2>2 DEF Types, DaemonTypes
    <3>5. /\ k.rbuf = o.rbuf /\ k.to = o.to /\ k.server = "open" /\ k.lost = o.lost
          /\ k.batch_cmd = o.batch_cmd /\ o.batch_cmd \in Nat /\ k.from = o.from
          /\ k.closed = o.closed
      BY <3>1 DEF ConnType
    <3> HIDE DEF k
    <3>6. ConnBounded(k)
      <4>1. ConnBounded(o)
        BY <1>0, <3>1 DEF Bounded
      <4> QED BY <3>5, <4>1 DEF ConnBounded
    <3>7. ShrinksTo(c0, k)
      <4>1. k.batch_cmd <= conn[c0].batch_cmd /\ (~ (k.lost \/ k.server = "closed") => ~ Broken(c0))
        BY <3>1, <3>5 DEF Broken
      <4> QED BY <1>0, <3>1, <3>3, <3>5, <4>1, SameStream
    <3>8. conn' \in [Conns -> ConnType'] /\ conn'[c0] = k /\ Bounded' /\ \A d \in Conns : Shrinks(d)
      BY <1>0, <3>1, <3>3, <3>4, <3>6, <3>7, OneConn, OneConnShrinks, Zenon
    <3>9. conn'[c0].server = "open" /\ conn'[c0].closed = FALSE
      <4>1. conn[c0] = Unused
        BY <2>2
      <4>2. o.closed = FALSE
        BY <4>1 DEF Unused
      <4> QED BY <3>5, <3>8, <4>2
    <3>10. \A d \in Conns : conn'[d].server = "unused" => conn'[d] = Unused
      <4>1. \A d \in Conns \ {c0} : conn'[d] = conn[d]
        BY <1>0, <3>1, <3>3, <3>4, OneConn
      <4> QED BY <1>0, <3>9, <4>1 DEF Locked
    <3>11. conn'[c0].rbuf \o conn'[c0].to = <<>>
      <4>1. conn[c0] = Unused
        BY <2>2
      <4>2. o.rbuf = <<>> /\ o.to = <<>>
        BY <4>1 DEF Unused
      <4> QED BY <3>5, <3>8, <4>2, ConcatEmptySeq, EmptySeq
    <3> QED BY <2>2, <3>1, <3>8, <3>9, <3>10, <3>11
  <2> QED BY <2>1, <2>2, ConnectFacts
<1>6. Types'
  BY <1>0, <1>4, <1>5, SameTypes DEF Types, ClientTypes, HistoryTypes, DaemonTypes, Ids
<1>7. Locked'
  BY <1>0, <1>4, <1>5, ThreadsAssumption DEF Locked, Conns, Unused
<1>8. CountBounded' /\ CallShape' /\ Streams' /\ NotYetSent' /\ SentHere' /\ Continues' /\ Unfinished'
      /\ CommandsArriveWhole' /\ (sd' = sd => EndsWhole')
  BY <1>0, <1>4, <1>5, <1>6, ShrinkingStreams
<1>9. EndsWhole'
  <2>1. CASE sd' = sd
    BY <1>8, <2>1
  <2>2. CASE sd' # sd
    <3>1. (Stream(sd) = <<>>)'
      BY <1>5, <2>2 DEF Stream
    <3> QED BY <3>1 DEF EndsWhole
  <2> QED BY <2>1, <2>2
<1> QED BY <1>5, <1>6, <1>7, <1>8, <1>9 DEF StreamInv

-----------------------------------------------------------------------------
(* A call begins, and its commands are written.                            *)

LEMMA HandledFinite ==
    ASSUME HistoryTypes
    PROVE  /\ IsFiniteSet(HandledIds) /\ Cardinality(HandledIds) \in Nat
           /\ Cardinality(HandledIds) <= Len(commands)
<1>1. IsFiniteSet(Ids) /\ Cardinality(Ids) = Len(commands) /\ HandledIds \subseteq Ids
  <2> DEFINE n == Len(commands)
  <2>1. n \in Nat
    BY DEF HistoryTypes
  <2>2. IsFiniteSet(1 .. n) /\ Cardinality(1 .. n) = n
    <3> HIDE DEF n
    <3>1. IsFiniteSet(1 .. n) /\ Cardinality(1 .. n) = IF 1 > n THEN 0 ELSE n - 1 + 1
      BY <2>1, FS_Interval
    <3> QED BY <2>1, <3>1
  <2> QED BY <2>2 DEF Ids, HandledIds
<1> QED BY <1>1, FS_Subset, FS_CardinalityType

LEMMA BeginStep ==
    ASSUME StreamInv, NEW t \in Threads, NEW cmds \in Seq([kind : Kinds, stamp : Nat]),
           pc[t] \in {"idle", "done", "failed"}, Begin(t, cmds), Len(cmds) > 0,
           \A i \in 1 .. Len(cmds) : cmds[i].kind = "batch" =>
              \E j \in 1 .. Len(cmds) : i < j /\ cmds[j].kind = "dot"
    PROVE  StreamInv'
<1> DEFINE n == Len(commands)
           ids == [k \in 1 .. Len(cmds) |-> n + k]
           none == [k \in 1 .. Len(cmds) |-> "none"]
<1>0. /\ Types /\ Locked /\ Bounded /\ CountBounded /\ CallShape /\ Streams /\ NotYetSent
      /\ SentHere /\ Continues /\ Unfinished /\ CommandsArriveWhole /\ EndsWhole
      /\ UNCHANGED <<lock, sd, unsent, answer, running, last_update_stamp, conn, losses>>
  BY DEF StreamInv, Begin
<1>1. Types'
  BY <1>0, BeginTypes, Zenon
<1>2. /\ n \in Nat /\ Len(cmds) \in Nat \ {0} /\ Len(commands') = n + Len(cmds)
      /\ Ids = 1 .. n /\ Ids' = 1 .. n + Len(cmds)
      /\ \A id \in Ids : id \in Ids' /\ commands'[id].kind = commands[id].kind
      /\ \A k \in 1 .. Len(cmds) : n + k \in Ids' /\ commands'[n + k] = cmds[k]
  <2>1. n \in Nat /\ Len(cmds) \in Nat \ {0}
    BY <1>0 DEF Types, HistoryTypes
  <2>2. /\ Len(commands') = n + Len(cmds)
        /\ \A id \in Ids : id \in Ids' /\ Kind(id)' = Kind(id)
        /\ \A k \in 1 .. Len(cmds) : n + k \in Ids' /\ commands'[n + k] = cmds[k]
    BY <1>0, MoreCommands, Zenon DEF Types, Begin
  <2> QED BY <2>1, <2>2 DEF Ids, Kind
<1>3. /\ Len(outcome) = n /\ \A id \in 1 .. n : outcome'[id] = outcome[id]
      /\ \A k \in 1 .. Len(cmds) : outcome'[n + k] = "none"
      /\ DOMAIN outcome' = 1 .. n + Len(cmds) /\ DOMAIN outcome = 1 .. n
  <2> DEFINE O == {"none", "ok", "error", "garbled"}
  <2>1. outcome \in Seq(O) /\ Len(outcome) = n
    BY <1>0 DEF Types, HistoryTypes
  <2>2. none \in Seq(O) /\ Len(none) = Len(cmds) /\ \A k \in 1 .. Len(cmds) : none[k] = "none"
    BY <1>2
  <2>3. outcome' = outcome \o none
    BY DEF Begin
  <2> HIDE DEF none, n, O
  <2>4. /\ outcome \o none \in Seq(O) /\ Len(outcome \o none) = Len(outcome) + Len(none)
        /\ \A i \in 1 .. Len(outcome) + Len(none) :
              (outcome \o none)[i] = IF i <= Len(outcome) THEN outcome[i] ELSE none[i - Len(outcome)]
    BY <2>1, <2>2, ConcatProperties, Zenon
  <2>5. /\ Len(outcome') = n + Len(cmds) /\ outcome' \in Seq(O)
        /\ \A i \in 1 .. n + Len(cmds) : outcome'[i] = IF i <= n THEN outcome[i] ELSE none[i - n]
    BY <2>1, <2>2, <2>3, <2>4
  <2>6. \A id \in 1 .. n : outcome'[id] = outcome[id]
    BY <1>2, <2>5
  <2>7. ASSUME NEW k \in 1 .. Len(cmds) PROVE outcome'[n + k] = "none"
    <3>1. n + k \in 1 .. n + Len(cmds) /\ ~ (n + k <= n) /\ (n + k) - n = k
      BY <1>2
    <3> QED BY <2>2, <2>5, <3>1
  <2>8. DOMAIN outcome' = 1 .. n + Len(cmds) /\ DOMAIN outcome = 1 .. n
    BY <2>1, <2>5, LenProperties
  <2> QED BY <2>1, <2>6, <2>7, <2>8
<1>4. /\ call' = [call EXCEPT ![t] = ids] /\ pc' = [pc EXCEPT ![t] = "connect"]
      /\ call'[t] = ids /\ DOMAIN ids = 1 .. Len(cmds) /\ Len(ids) = Len(cmds)
      /\ \A u \in Threads \ {t} : call'[u] = call[u] /\ pc'[u] = pc[u]
      /\ pc'[t] = "connect"
  BY <1>0, <1>2 DEF Begin, Types, ClientTypes
<1> HIDE DEF ids, none, n
<1>5. \A k \in 1 .. Len(cmds) : ids[k] = n + k
  BY DEF ids, n
<1>6. Locked' /\ Bounded'
  <2>1. \A u \in Threads : pc'[u] \in {"write", "read"} <=> lock' = u
    BY <1>0, <1>4 DEF Locked
  <2> QED BY <1>0, <2>1 DEF Locked, Bounded, ConnBounded, Conns, Unused
<1>7. CountBounded'
  <2>1. \A id \in Ids' : id \notin Ids => outcome'[id] = "none"
    <3> SUFFICES ASSUME NEW id \in Ids', id \notin Ids PROVE outcome'[id] = "none"
      OBVIOUS
    <3>1. id - n \in 1 .. Len(cmds) /\ id = n + (id - n)
      BY <1>2
    <3> QED BY <1>3, <3>1
  <2>2. HandledIds' = HandledIds
    BY <1>2, <1>3, <2>1 DEF HandledIds
  <2> QED BY <1>0, <2>2 DEF CountBounded
<1>8. \A u \in Threads : /\ call[u] \in Seq(Ids) /\ DOMAIN call[u] = 1 .. Len(call[u])
                         /\ \A i \in DOMAIN call[u] : call[u][i] \in 1 .. n
  BY <1>0, <1>2, CallTypes
<1>9. CallShape'
  <2>1. \A u \in Threads : pc'[u] # "idle" => Len(call'[u]) > 0
    BY <1>0, <1>2, <1>4 DEF CallShape
  <2>2. ASSUME NEW u \in Threads, NEW i \in DOMAIN call'[u]
        PROVE  /\ call'[u][i] = call'[u][1] + i - 1
               /\ Kind(call[u][i])' = "batch" =>
                     \E j \in DOMAIN call'[u] : i < j /\ Kind(call[u][j])' = "dot"
    <3>1. CASE u = t
      <4>1. i \in 1 .. Len(cmds) /\ 1 \in 1 .. Len(cmds)
        BY <1>2, <1>4, <3>1
      <4>2. call'[u][i] = n + i /\ call'[u][1] = n + 1
        BY <1>4, <1>5, <3>1, <4>1
      <4>3. \A j \in 1 .. Len(cmds) : Kind(call[u][j])' = cmds[j].kind
        BY <1>2, <1>4, <1>5, <3>1 DEF Kind
      <4>4. call'[u][i] = call'[u][1] + i - 1
        BY <1>2, <4>1, <4>2
      <4>5. Kind(call[u][i])' = "batch" => \E j \in 1 .. Len(cmds) : i < j /\ Kind(call[u][j])' = "dot"
        BY <4>1, <4>3
      <4> QED BY <1>4, <3>1, <4>4, <4>5
    <3>2. CASE u # t
      <4>1. call'[u] = call[u] /\ i \in DOMAIN call[u]
        BY <1>4, <3>2
      <4>2. \A j \in DOMAIN call[u] : Kind(call[u][j])' = Kind(call[u][j])
        BY <1>2, <1>8, <4>1 DEF Kind
      <4>3. /\ call[u][i] = call[u][1] + i - 1
            /\ Kind(call[u][i]) = "batch" => \E j \in DOMAIN call[u] : i < j /\ Kind(call[u][j]) = "dot"
        BY <1>0, <4>1 DEF CallShape
      <4> QED BY <4>1, <4>2, <4>3 DEF Kind
    <3> QED BY <3>1, <3>2
  <2>3. ASSUME NEW u \in Threads, NEW v \in Threads, u # v,
               NEW i \in DOMAIN call'[u], NEW j \in DOMAIN call'[v]
        PROVE  call'[u][i] # call'[v][j]
    <3>1. CASE u # t /\ v # t
      BY <1>0, <1>4, <2>3, <3>1 DEF CallShape
    <3>2. CASE u = t
      <4>1. call'[u][i] = n + i /\ i \in 1 .. Len(cmds) /\ call'[v][j] \in 1 .. n
        BY <1>4, <1>5, <1>8, <2>3, <3>2
      <4> QED BY <1>2, <4>1
    <3>3. CASE v = t
      <4>1. call'[v][j] = n + j /\ j \in 1 .. Len(cmds) /\ call'[u][i] \in 1 .. n
        BY <1>4, <1>5, <1>8, <2>3, <3>3
      <4> QED BY <1>2, <4>1
    <3> QED BY <3>1, <3>2, <3>3
  <2> QED BY <2>1, <2>2, <2>3 DEF CallShape, Kind
<1>10. \A c \in Conns : /\ Stream(c)' = Stream(c) /\ (Broken(c)' <=> Broken(c))
                        /\ Stream(c) \in Seq(UnitType) /\ Len(Stream(c)) \in Nat
                        /\ \A i \in 1 .. Len(Stream(c)) : Stream(c)[i].id \in Ids
                        /\ \A id : Has(c, id)' = Has(c, id)
  <2> SUFFICES ASSUME NEW c \in Conns
               PROVE  /\ Stream(c)' = Stream(c) /\ (Broken(c)' <=> Broken(c))
                      /\ Stream(c) \in Seq(UnitType) /\ Len(Stream(c)) \in Nat
                      /\ \A i \in 1 .. Len(Stream(c)) : Stream(c)[i].id \in Ids
                      /\ \A id : Has(c, id)' = Has(c, id)
    OBVIOUS
  <2>1. Stream(c)' = Stream(c) /\ (Broken(c)' <=> Broken(c))
    BY <1>0 DEF Stream, Broken
  <2>2. Stream(c) \in Seq(UnitType) /\ Len(Stream(c)) \in Nat
    BY <1>0, StreamTypes, Zenon
  <2>3. \A i \in 1 .. Len(Stream(c)) : Stream(c)[i].id \in Ids
    BY <1>0, <2>2, UnitIs, Zenon
  <2> QED BY <2>1, <2>2, <2>3 DEF Has
<1>11. \A id \in Ids' : id \notin Ids => outcome'[id] = "none" /\ \A c \in Conns : ~ Has(c, id)'
  <2> SUFFICES ASSUME NEW id \in Ids', id \notin Ids
               PROVE  outcome'[id] = "none" /\ \A c \in Conns : ~ Has(c, id)'
    OBVIOUS
  <2>1. outcome'[id] = "none"
    <3>1. id - n \in 1 .. Len(cmds) /\ id = n + (id - n)
      BY <1>2
    <3> QED BY <1>3, <3>1
  <2>2. \A c \in Conns : ~ Has(c, id)
    BY <1>10 DEF Has
  <2> QED BY <1>10, <2>1, <2>2
<1>12. Streams'
  <2>1. ASSUME NEW c \in Conns PROVE Whole(Stream(c))' /\ Once(Stream(c))'
    <3>1. \A i \in 1 .. Len(Stream(c)) : IsEol(Stream(c)[i])' <=> IsEol(Stream(c)[i])
      <4> SUFFICES ASSUME NEW i \in 1 .. Len(Stream(c))
                   PROVE  IsEol(Stream(c)[i])' <=> IsEol(Stream(c)[i])
        OBVIOUS
      <4>1. Kind(Stream(c)[i].id)' = Kind(Stream(c)[i].id)
        BY <1>2, <1>10 DEF Kind
      <4> QED BY <1>10, <4>1 DEF IsEol
    <3>2. Whole(Stream(c)) /\ Once(Stream(c))
      BY <1>0 DEF Streams
    <3>3. \A i \in 1 .. Len(Stream(c)) : i > 1 => i - 1 \in 1 .. Len(Stream(c))
      BY <1>10
    <3>4. \A i \in 1 .. Len(Stream(c)) : i > 1 => (IsEol(Stream(c)[i - 1])' <=> IsEol(Stream(c)[i - 1]))
      BY <3>1, <3>3
    <3>5. Whole(Stream(c))'
      BY <1>10, <3>2, <3>4 DEF Whole
    <3>6. Once(Stream(c))'
      BY <1>10, <3>1, <3>2 DEF Once
    <3> QED BY <3>5, <3>6
  <2>2. ASSUME NEW c \in Conns, NEW id \in Ids', Has(c, id)' PROVE outcome'[id] = "none"
    <3>1. id \in Ids /\ Has(c, id)
      BY <1>10, <1>11, <2>2
    <3> QED BY <1>0, <1>2, <1>3, <3>1 DEF Streams
  <2>3. ASSUME NEW c \in Conns, NEW d \in Conns, c # d, NEW id \in Ids'
        PROVE  ~ (Has(c, id)' /\ Has(d, id)')
    BY <1>0, <1>10, <1>11, <2>3 DEF Streams
  <2> QED BY <2>1, <2>2, <2>3 DEF Streams, Conns
<1>13. NotYetSent'
  <2> SUFFICES ASSUME NEW u \in Threads, pc'[u] \in {"connect", "request"}, NEW i \in DOMAIN call'[u]
               PROVE  outcome'[call'[u][i]] = "none" /\ \A c \in Conns : ~ Has(c, call[u][i])'
    BY DEF NotYetSent, Conns
  <2>1. CASE u = t
    <3>1. i \in 1 .. Len(cmds) /\ call'[u][i] = n + i
      BY <1>4, <1>5, <2>1
    <3>2. n + i \in Ids' /\ n + i \notin Ids
      BY <1>2, <3>1
    <3> QED BY <1>11, <3>1, <3>2
  <2>2. CASE u # t
    BY <1>0, <1>2, <1>3, <1>4, <1>8, <1>10, <2>2 DEF NotYetSent
  <2> QED BY <2>1, <2>2
<1>14. SentHere'
  <2> SUFFICES ASSUME NEW u \in Threads, pc'[u] \in {"write", "read"},
                      NEW i \in DOMAIN call'[u], NEW c \in Conns, c # sd
               PROVE  ~ Has(c, call[u][i])'
    BY <1>0 DEF SentHere, Conns
  <2>1. u # t
    BY <1>4
  <2> QED BY <1>0, <1>4, <1>10, <2>1 DEF SentHere
<1>15. Continues'
  <2> SUFFICES ASSUME NEW u \in Threads, pc'[u] = "write"
               PROVE  (LET s == Stream(sd)
                           p == unsent[u]
                       IN  /\ p.cmd \in DOMAIN call[u] /\ p.part \in 1 .. Size[Kind(call[u][p.cmd])]
                           /\ \A i \in DOMAIN call[u] : p.cmd <= i => outcome[call[u][i]] = "none"
                           /\ \A i \in DOMAIN call[u] :
                                 p.cmd < i \/ (p.cmd = i /\ p.part = 1) => ~ Has(sd, call[u][i])
                           /\ ~ Broken(sd) =>
                                IF p.part = 1 THEN s # <<>> => IsEol(s[Len(s)])
                                ELSE s # <<>> /\ s[Len(s)] = [id |-> call[u][p.cmd], part |-> p.part - 1])'
    BY Zenon DEF Continues
  <2>1. u # t /\ pc[u] = "write" /\ sd \in Conns /\ call'[u] = call[u]
    BY <1>0, <1>4, Holder, Zenon
  <2> DEFINE p == unsent[u]
             s == Stream(sd)
  <2>2. /\ p.cmd \in DOMAIN call[u] /\ p.part \in 1 .. Size[Kind(call[u][p.cmd])]
        /\ \A i \in DOMAIN call[u] : p.cmd <= i => outcome[call[u][i]] = "none"
        /\ \A i \in DOMAIN call[u] : p.cmd < i \/ (p.cmd = i /\ p.part = 1) => ~ Has(sd, call[u][i])
        /\ ~ Broken(sd) =>
              IF p.part = 1 THEN s # <<>> => IsEol(s[Len(s)])
              ELSE s # <<>> /\ s[Len(s)] = [id |-> call[u][p.cmd], part |-> p.part - 1]
    BY <1>0, <2>1, Zenon DEF Continues
  <2>3. /\ s' = s /\ (Broken(sd)' <=> Broken(sd)) /\ \A id : Has(sd, id)' = Has(sd, id)
    BY <1>0, <1>10, <2>1 DEF Stream, Broken, Has
  <2>4. s # <<>> => (IsEol(s[Len(s)])' <=> IsEol(s[Len(s)]))
    <3>1. s # <<>> => Len(s) \in 1 .. Len(s)
      BY <1>10, <2>1, EmptySeq
    <3>2. s # <<>> => Kind(s[Len(s)].id)' = Kind(s[Len(s)].id)
      BY <1>2, <1>10, <2>1, <2>3, <3>1 DEF Kind
    <3> QED BY <2>3, <3>2 DEF IsEol
  <2>5. \A i \in DOMAIN call[u] : outcome'[call[u][i]] = outcome[call[u][i]]
    BY <1>3, <1>8, Zenon
  <2>6. Kind(call[u][p.cmd])' = Kind(call[u][p.cmd])
    BY <1>0, <1>2, <1>8, <2>1, <2>2, Zenon DEF Kind
  <2>7. p' = p
    BY <1>0
  <2>8. (p.cmd \in DOMAIN call[u] /\ p.part \in 1 .. Size[Kind(call[u][p.cmd])])'
    BY <2>1, <2>2, <2>6, <2>7
  <2>9. (\A i \in DOMAIN call[u] : p.cmd <= i => outcome[call[u][i]] = "none")'
    BY <2>1, <2>2, <2>5, <2>7
  <2>10. (\A i \in DOMAIN call[u] : p.cmd < i \/ (p.cmd = i /\ p.part = 1) => ~ Has(sd, call[u][i]))'
    BY <2>1, <2>2, <2>3, <2>7
  <2>11. (~ Broken(sd) => IF p.part = 1 THEN s # <<>> => IsEol(s[Len(s)])
                          ELSE s # <<>> /\ s[Len(s)] = [id |-> call[u][p.cmd], part |-> p.part - 1])'
    BY <2>1, <2>2, <2>3, <2>4, <2>7
  <2> QED BY <2>8, <2>9, <2>10, <2>11
<1>16. CommandsArriveWhole'
  <2> SUFFICES ASSUME NEW id \in 1 .. n + Len(cmds) PROVE outcome'[id] # "garbled"
    BY <1>3 DEF CommandsArriveWhole
  <2>1. CASE id \in 1 .. n
    BY <1>0, <1>3, <2>1 DEF CommandsArriveWhole
  <2>2. CASE id \notin 1 .. n
    BY <1>2, <1>11, <2>2
  <2> QED BY <2>1, <2>2
<1>17. EndsWhole'
  <2> SUFFICES ASSUME sd # 0, lock # NoThread => pc'[lock] = "read", ~ Broken(sd)', Stream(sd)' # <<>>
               PROVE  IsEol(Stream(sd)[Len(Stream(sd))])'
    BY <1>0 DEF EndsWhole
  <2> DEFINE s == Stream(sd)
  <2>1. sd \in Conns
    BY <1>0 DEF Types, ClientTypes
  <2>2. s' = s /\ ~ Broken(sd)
    BY <1>0, <2>1 DEF Stream, Broken
  <2>3. lock # NoThread => pc[lock] = "read"
    BY <1>0, <1>4 DEF Types, ClientTypes
  <2>4. IsEol(s[Len(s)])
    BY <1>0, <2>2, <2>3 DEF EndsWhole
  <2>5. Len(s) \in 1 .. Len(s)
    BY <1>10, <2>1, <2>2, EmptySeq
  <2>6. s[Len(s)].id \in Ids
    BY <1>10, <2>1, <2>5
  <2> HIDE DEF s
  <2>7. Kind(s[Len(s)].id)' = Kind(s[Len(s)].id)
    BY <1>2, <2>2, <2>6 DEF Kind
  <2>8. IsEol(s[Len(s)])'
    BY <2>2, <2>4, <2>7 DEF IsEol
  <2> QED BY <2>8 DEF s
<1>18. Unfinished'
  <2> SUFFICES ASSUME NEW u \in Threads, pc'[u] = "write", NEW i \in 1 .. Len(Stream(sd)'),
                      Stream(sd)'[i].id = call'[u][unsent'[u].cmd]
               PROVE  Stream(sd)'[i].part < unsent'[u].part
    BY DEF Unfinished
  <2>1. u # t /\ pc[u] = "write" /\ call'[u] = call[u] /\ Stream(sd)' = Stream(sd)
    BY <1>0, <1>4 DEF Stream
  <2> QED BY <1>0, <2>1 DEF Unfinished
<1> QED BY <1>1, <1>6, <1>7, <1>9, <1>12, <1>13, <1>14, <1>15, <1>16, <1>17, <1>18 DEF StreamInv

LEMMA NewCallStep ==
    ASSUME StreamInv, NEW t \in Threads, NEW shape \in Calls[t], NewCall(t, shape)
    PROVE  StreamInv'
<1> DEFINE cmds == [k \in 1 .. Len(shape) |-> [kind |-> shape[k], stamp |-> Len(commands) + k]]
<1>1. shape \in Seq(Kinds) /\ Len(shape) > 0 /\ Len(shape) \in Nat
  BY SizesAssumption
<1>2. cmds \in Seq([kind : Kinds, stamp : Nat]) /\ Len(cmds) = Len(shape)
  BY <1>1, NewCallCommands DEF StreamInv
<1>3. \A i \in 1 .. Len(cmds) : cmds[i].kind = shape[i]
  BY <1>1, <1>2
<1>4. \A i \in 1 .. Len(cmds) : cmds[i].kind = "batch" =>
         \E j \in 1 .. Len(cmds) : i < j /\ cmds[j].kind = "dot"
  <2>1. \A i \in 1 .. Len(shape) : shape[i] = "batch" =>
           \E j \in 1 .. Len(shape) : i < j /\ shape[j] = "dot"
    BY <1>1, BatchesEnd
  <2> HIDE DEF cmds
  <2> QED BY <1>2, <1>3, <2>1
<1>5. Begin(t, cmds) /\ pc[t] \in {"idle", "done", "failed"}
  BY DEF NewCall
<1> HIDE DEF cmds
<1> QED BY <1>1, <1>2, <1>4, <1>5, BeginStep, Zenon

LEMMA RetryStep ==
    ASSUME StreamInv, NEW t \in Threads, Retry(t)
    PROVE  StreamInv'
<1> DEFINE cmds == [k \in 1 .. Len(call[t]) |-> commands[call[t][k]]]
<1>1. /\ cmds \in Seq([kind : Kinds, stamp : Nat]) /\ Len(call[t]) \in Nat
      /\ DOMAIN call[t] = 1 .. Len(call[t]) /\ CallShape
  BY RetryCommands, CallTypes DEF StreamInv
<1>2. Len(cmds) = Len(call[t]) /\ Len(call[t]) > 0
  BY <1>1 DEF Retry, CallShape
<1>3. \A i \in 1 .. Len(cmds) : cmds[i].kind = Kind(call[t][i])
  BY <1>1, <1>2 DEF Kind
<1>4. \A i \in 1 .. Len(cmds) : cmds[i].kind = "batch" =>
         \E j \in 1 .. Len(cmds) : i < j /\ cmds[j].kind = "dot"
  <2>1. \A i \in 1 .. Len(call[t]) : Kind(call[t][i]) = "batch" =>
           \E j \in 1 .. Len(call[t]) : i < j /\ Kind(call[t][j]) = "dot"
    BY <1>1, Zenon DEF CallShape
  <2> HIDE DEF cmds
  <2> QED BY <1>2, <1>3, <2>1
<1>5. Begin(t, cmds) /\ pc[t] = "failed"
  BY DEF Retry
<1> HIDE DEF cmds
<1> QED BY <1>1, <1>2, <1>4, <1>5, BeginStep, Zenon

LEMMA RequestStep ==
    ASSUME StreamInv, NEW t \in Threads, Request(t)
    PROVE  StreamInv'
<1>0. /\ Types /\ Locked /\ Bounded /\ CountBounded /\ CallShape /\ Streams /\ NotYetSent
      /\ SentHere /\ Continues /\ Unfinished /\ CommandsArriveWhole /\ EndsWhole
      /\ pc[t] = "request" /\ lock = NoThread
      /\ UNCHANGED <<sd, call, answers, running, last_update_stamp, conn,
                     commands, outcome, losses>>
  BY DEF StreamInv, Request
<1>1. /\ pc \in [Threads -> {"idle", "connect", "request", "write", "read", "done", "failed"}]
      /\ unsent \in [Threads -> [cmd : Nat \ {0}, part : Nat \ {0}]]
      /\ answer \in [Threads -> AnswerType]
      /\ \A u \in Threads : pc[u] \notin {"write", "read"}
  BY <1>0, ThreadsAssumption DEF Types, ClientTypes, Locked
<1>2. \A c \in Conns : Shrinks(c)
  BY <1>0, SameShrinks
<1>3. HistoryTypes' /\ DaemonTypes' /\ Bounded'
  BY <1>0, SameTypes DEF Types, HistoryTypes, DaemonTypes, Bounded, ConnBounded
<1>4. CASE sd = 0 /\ Goto(t, "failed") /\ UNCHANGED <<lock, unsent, answer>>
  <2>1. Types'
    BY <1>0, <1>3, <1>4, SameTypes DEF Types, ClientTypes, Goto
  <2>2. /\ Locked'
        /\ \A u \in Threads : pc'[u] = pc[u] \/ (pc[u] # "idle" /\ pc'[u] \in {"done", "failed"})
    BY <1>0, <1>1, <1>4, ThreadsAssumption DEF Locked, Goto, Conns, Unused
  <2>3. CountBounded' /\ CallShape' /\ Streams' /\ NotYetSent' /\ SentHere' /\ Continues' /\ Unfinished'
        /\ CommandsArriveWhole' /\ EndsWhole'
    BY <1>0, <1>2, <1>4, <2>1, <2>2, ShrinkingStreams
  <2> QED BY <1>3, <2>1, <2>2, <2>3 DEF StreamInv
<1>5. CASE /\ sd # 0 /\ Goto(t, "write") /\ lock' = t
           /\ unsent' = [unsent EXCEPT ![t] = NothingSent]
           /\ answer' = [answer EXCEPT ![t] = NoAnswer]
  <2>1. Types'
    <3>1. ClientTypes'
      BY <1>0, <1>1, <1>5, SameTypes, NoCommandsTypes DEF Types, ClientTypes, Goto
    <3> QED BY <1>3, <3>1 DEF Types
  <2>2. /\ pc'[t] = "write" /\ \A u \in Threads \ {t} : pc'[u] = pc[u] /\ pc'[u] \notin {"write", "read"}
        /\ unsent'[t] = NothingSent
    BY <1>1, <1>5 DEF Goto
  <2>3. Locked'
    BY <1>0, <1>5, <2>2, ThreadsAssumption DEF Locked, Conns, Unused
  <2>4. /\ \A c \in Conns : Stream(c)' = Stream(c) /\ (Broken(c)' <=> Broken(c))
        /\ \A c \in Conns : \A id : Has(c, id)' <=> Has(c, id)
        /\ \A u : IsEol(u)' <=> IsEol(u)
        /\ Ids' = Ids
    BY <1>0 DEF Stream, Broken, Has, IsEol, Kind, Ids
  <2>5. CountBounded'
    BY <1>0, <2>4 DEF CountBounded, HandledIds
  <2>6. CallShape'
    BY <1>0, <2>2 DEF CallShape, Kind
  <2>7. Streams'
    <3>1. \A c \in Conns : Whole(Stream(c)') /\ Once(Stream(c)')
      BY <1>0, <2>4 DEF Streams
    <3>2. \A c \in Conns : Whole(Stream(c))' /\ Once(Stream(c))'
      BY <1>0, <3>1, WholeAgain
    <3> QED BY <1>0, <2>4, <3>2 DEF Streams
  <2>8. NotYetSent'
    BY <1>0, <2>2, <2>4 DEF NotYetSent
  <2>9. \A i \in DOMAIN call[t] : outcome[call[t][i]] = "none" /\ \A c \in Conns : ~ Has(c, call[t][i])
    BY <1>0 DEF NotYetSent
  <2>10. SentHere'
    BY <1>0, <2>2, <2>4, <2>9 DEF SentHere
  <2>11. Continues'
    <3>1. sd \in Conns
      BY <1>0, <1>5 DEF Types, ClientTypes
    <3>2. NothingSent.cmd = 1 /\ NothingSent.part = 1
      BY DEF NothingSent
    <3>3. 1 \in DOMAIN call[t] /\ call[t][1] \in Ids
      BY <1>0, CallTypes DEF CallShape
    <3>4. 1 \in 1 .. Size[Kind(call[t][1])]
      BY <1>0, <3>3, SizePositive
    <3>5. ~ Broken(sd) => (Stream(sd) # <<>> => IsEol(Stream(sd)[Len(Stream(sd))]))
      BY <1>0, <1>5 DEF EndsWhole
    <3>6. /\ (Stream(sd) = Stream(sd)') /\ (Broken(sd)' <=> Broken(sd))
          /\ (\A i \in DOMAIN call[t] : ~ Has(sd, call[t][i]))'
      BY <1>0, <2>9, <3>1, Zenon DEF Stream, Broken, Has
    <3>7. (\A i \in DOMAIN call[t] : outcome[call[t][i]] = "none")'
      BY <1>0, <2>9
    <3> SUFFICES (LET s == Stream(sd)
                      u == unsent[t]
                  IN  /\ u.cmd \in DOMAIN call[t] /\ u.part \in 1 .. Size[Kind(call[t][u.cmd])]
                      /\ \A i \in DOMAIN call[t] : u.cmd <= i => outcome[call[t][i]] = "none"
                      /\ \A i \in DOMAIN call[t] :
                            u.cmd < i \/ (u.cmd = i /\ u.part = 1) => ~ Has(sd, call[t][i])
                      /\ ~ Broken(sd) =>
                           IF u.part = 1 THEN s # <<>> => IsEol(s[Len(s)])
                           ELSE s # <<>> /\ s[Len(s)] = [id |-> call[t][u.cmd], part |-> u.part - 1])'
      BY <2>2 DEF Continues
    <3>8. (1 \in DOMAIN call[t] /\ 1 \in 1 .. Size[Kind(call[t][1])])'
      BY <1>0, <3>3, <3>4 DEF Kind
    <3>9. (~ Broken(sd) => (Stream(sd) # <<>> => IsEol(Stream(sd)[Len(Stream(sd))])))'
      BY <3>5, <3>6, <2>4 DEF IsEol
    <3> QED BY <2>2, <3>2, <3>6, <3>7, <3>8, <3>9
  <2>12. EndsWhole'
    BY <1>5, <2>2, ThreadsAssumption DEF EndsWhole
  <2>13. CommandsArriveWhole'
    BY <1>0 DEF CommandsArriveWhole
  <2>14. Unfinished'
    <3>1. 1 \in DOMAIN call[t] /\ NothingSent.cmd = 1 /\ sd \in Conns
      <4>1. 1 \in DOMAIN call[t]
        BY <1>0, CallTypes DEF CallShape
      <4>2. NothingSent.cmd = 1
        BY DEF NothingSent
      <4> QED BY <1>0, <1>5, <4>1, <4>2 DEF Types, ClientTypes
    <3>2. ~ Has(sd, call[t][1])
      BY <2>9, <3>1
    <3>3. Stream(sd)' = Stream(sd)
      BY <1>0 DEF Stream
    <3> QED BY <1>0, <2>2, <3>1, <3>2, <3>3 DEF Unfinished, Has
  <2> QED BY <1>3, <2>1, <2>3, <2>5, <2>6, <2>7, <2>8, <2>10, <2>11, <2>12, <2>13, <2>14
          DEF StreamInv
<1> QED BY <1>4, <1>5 DEF Request

\* What one unit more does to the stream.
LEMMA WriteFacts ==
    ASSUME StreamInv, NEW t \in Threads, Write(t), ~ Broken(sd)
    PROVE  /\ lock = t /\ sd \in Conns /\ conn[sd] \in ConnType /\ Len(conn[sd].to) < MaxToDaemon
           /\ NextUnit(t) \in UnitType /\ NextUnit(t).id = call[t][unsent[t].cmd]
           /\ NextUnit(t).part = unsent[t].part
           /\ conn' = [conn EXCEPT ![sd] = [conn[sd] EXCEPT !.to = Append(@, NextUnit(t))]]
           /\ [conn[sd] EXCEPT !.to = Append(@, NextUnit(t))] \in ConnType
           /\ Stream(sd)' \in Seq(UnitType) /\ Len(Stream(sd)') = Len(Stream(sd)) + 1
           /\ \A i \in 1 .. Len(Stream(sd)) : Stream(sd)'[i] = Stream(sd)[i]
           /\ Stream(sd)'[Len(Stream(sd)) + 1] = NextUnit(t)
           /\ \A d \in Conns \ {sd} : conn'[d] = conn[d]
           /\ Advance(t)
           /\ UNCHANGED <<lock, sd, call, answer, answers, running, last_update_stamp,
                          commands, outcome, losses>>
<1> DEFINE o == conn[sd]
           u == NextUnit(t)
           k == [o EXCEPT !.to = Append(@, u)]
<1>0. Types /\ Locked /\ Continues /\ pc[t] = "write"
  BY DEF StreamInv, Write
<1>1. lock = t /\ sd \in Conns /\ o \in ConnType
  BY <1>0, Holder, Zenon
<1>2. /\ Len(o.to) < MaxToDaemon /\ conn' = [conn EXCEPT ![sd].to = Append(@, u)] /\ Advance(t)
      /\ UNCHANGED <<lock, sd, call, answer, answers, running, last_update_stamp,
                     commands, outcome, losses>>
  BY DEF Write, Broken
<1>3. conn' = [conn EXCEPT ![sd] = k]
  BY <1>0, <1>2 DEF Types, DaemonTypes
<1>4. u \in UnitType /\ u.id = call[t][unsent[t].cmd] /\ u.part = unsent[t].part
  <2>1. unsent[t].cmd \in DOMAIN call[t] /\ unsent[t].part \in 1 .. Size[Kind(call[t][unsent[t].cmd])]
    BY <1>0, Zenon DEF Continues
  <2>2. call[t][unsent[t].cmd] \in Ids
    BY <1>0, <2>1, CallTypes
  <2>3. unsent[t].part \in Nat
    BY <1>0 DEF Types, ClientTypes
  <2> QED BY <2>1, <2>2, <2>3 DEF NextUnit, UnitType
<1>5. /\ o.to \in Seq(UnitType) /\ o.rbuf \in Seq(UnitType)
      /\ Len(o.to) \in Nat /\ Len(o.rbuf) \in Nat
  BY <1>1, ConnIs, Zenon
<1> HIDE DEF u
<1>6. /\ Append(o.to, u) \in Seq(UnitType) /\ Len(Append(o.to, u)) = Len(o.to) + 1
      /\ \A i \in 1 .. Len(o.to) : Append(o.to, u)[i] = o.to[i]
      /\ Append(o.to, u)[Len(o.to) + 1] = u
  BY <1>4, <1>5, AppendProperties
<1>7. k \in ConnType /\ k.rbuf = o.rbuf /\ k.to = Append(o.to, u)
  BY <1>1, <1>6, Zenon DEF ConnType
<1> HIDE DEF k
<1>8. Stream(sd)' = o.rbuf \o Append(o.to, u) /\ \A d \in Conns \ {sd} : conn'[d] = conn[d]
  BY <1>0, <1>1, <1>2, <1>3, <1>7, OneConn, Zenon DEF Stream
<1>9. /\ Stream(sd)' \in Seq(UnitType) /\ Len(Stream(sd)') = Len(Stream(sd)) + 1
      /\ \A i \in 1 .. Len(Stream(sd)) : Stream(sd)'[i] = Stream(sd)[i]
      /\ Stream(sd)'[Len(Stream(sd)) + 1] = u
  <2> DEFINE r == o.rbuf
             a == Append(o.to, u)
             b == o.to
             m == Len(r)
             n == Len(b)
  <2>1. /\ r \o a \in Seq(UnitType) /\ Len(r \o a) = Len(r) + Len(a)
        /\ \A i \in 1 .. Len(r) + Len(a) : (r \o a)[i] = IF i <= Len(r) THEN r[i] ELSE a[i - Len(r)]
    BY <1>5, <1>6, ConcatProperties, ZenonT(40)
  <2>2. /\ Len(r \o b) = Len(r) + Len(b)
        /\ \A i \in 1 .. Len(r) + Len(b) : (r \o b)[i] = IF i <= Len(r) THEN r[i] ELSE b[i - Len(r)]
    BY <1>5, ConcatProperties, Zenon
  <2>3. /\ m \in Nat /\ n \in Nat /\ Len(a) = n + 1 /\ \A i \in 1 .. n : a[i] = b[i]
        /\ a[n + 1] = u /\ m = Len(r) /\ n = Len(b)
    BY <1>5, <1>6
  <2> HIDE DEF r, a, b, m, n
  <2>4. ASSUME NEW i \in 1 .. m + n PROVE (r \o a)[i] = (r \o b)[i]
    <3>1. i \in 1 .. m + (n + 1)
      BY <2>3
    <3>2. i > m => i - m \in 1 .. n
      BY <2>3
    <3> QED BY <2>1, <2>2, <2>3, <3>1, <3>2, SMTT(30)
  <2>5. (r \o a)[m + n + 1] = u
    <3>1. m + n + 1 \in 1 .. m + (n + 1) /\ ~ (m + n + 1 <= m) /\ m + n + 1 - m = n + 1
      BY <2>3
    <3> QED BY <2>1, <2>3, <3>1
  <2>6. Len(r \o a) = Len(r \o b) + 1 /\ Len(r \o b) = m + n
    BY <2>1, <2>2, <2>3
  <2>7. Stream(sd)' = r \o a /\ Stream(sd) = r \o b
    BY <1>8 DEF r, a, b, Stream
  <2> QED BY <2>1, <2>4, <2>5, <2>6, <2>7
<1> QED BY <1>1, <1>2, <1>3, <1>4, <1>7, <1>8, <1>9, Zenon DEF u, k

LEMMA WriteStep ==
    ASSUME StreamInv, NEW t \in Threads, Write(t)
    PROVE  StreamInv'
<1>0. /\ Types /\ Locked /\ Bounded /\ CountBounded /\ CallShape /\ Streams /\ NotYetSent
      /\ SentHere /\ Continues /\ Unfinished /\ CommandsArriveWhole /\ EndsWhole /\ pc[t] = "write"
      /\ UNCHANGED <<lock, sd, call, answer, answers, running, last_update_stamp,
                     commands, outcome, losses>>
  BY DEF StreamInv, Write
<1>1. /\ pc \in [Threads -> {"idle", "connect", "request", "write", "read", "done", "failed"}]
      /\ unsent \in [Threads -> [cmd : Nat \ {0}, part : Nat \ {0}]]
      /\ lock = t /\ sd \in Conns /\ \A u \in Threads \ {t} : pc[u] \notin {"write", "read"}
  BY <1>0, Holder, Zenon DEF Types, ClientTypes
<1>2. CASE Broken(sd)
  <2>1. pc' = [pc EXCEPT ![t] = "read"] /\ UNCHANGED <<unsent, conn>>
    BY <1>2 DEF Write, Goto, Broken
  <2>2. Types'
    BY <1>0, <1>1, <2>1, SameTypes DEF Types, ClientTypes, HistoryTypes, DaemonTypes
  <2>3. Locked' /\ Bounded'
    BY <1>0, <1>1, <2>1 DEF Locked, Bounded, ConnBounded, Conns, Unused
  <2>4. \A c \in Conns : Shrinks(c)
    BY <1>0, <2>1, SameShrinks
  <2>5. \A u \in Threads : pc'[u] = pc[u] \/ (pc[u] = "write" /\ pc'[u] = "read" /\ Broken(sd))
    BY <1>0, <1>1, <1>2, <2>1
  <2>6. CountBounded' /\ CallShape' /\ Streams' /\ NotYetSent' /\ SentHere' /\ Continues' /\ Unfinished'
        /\ CommandsArriveWhole' /\ EndsWhole'
    BY <1>0, <2>1, <2>2, <2>4, <2>5, ShrinkingStreams
  <2> QED BY <2>2, <2>3, <2>6 DEF StreamInv
<1>3. CASE ~ Broken(sd)
  <2> DEFINE u == NextUnit(t)
             o == conn[sd]
             k == [o EXCEPT !.to = Append(@, u)]
             s == Stream(sd)
             n == unsent[t]
  <2>1. /\ Len(o.to) < MaxToDaemon /\ u \in UnitType /\ u.id = call[t][n.cmd] /\ u.part = n.part
        /\ o \in ConnType /\ k \in ConnType /\ conn' = [conn EXCEPT ![sd] = k] /\ Advance(t)
        /\ s' \in Seq(UnitType) /\ Len(s') = Len(s) + 1 /\ \A i \in 1 .. Len(s) : s'[i] = s[i]
        /\ s'[Len(s) + 1] = u /\ \A d \in Conns \ {sd} : conn'[d] = conn[d]
    BY <1>3, WriteFacts
  <2>2. /\ k.rbuf = o.rbuf /\ k.to = Append(o.to, u) /\ k.server = o.server /\ k.lost = o.lost
        /\ k.from = o.from /\ k.out = o.out /\ k.wbuf = o.wbuf /\ k.batch_cmd = o.batch_cmd
        /\ k.closed = o.closed /\ o.to \in Seq(UnitType) /\ Len(o.to) \in Nat
    BY <2>1, ConnIs, Zenon DEF ConnType
  <2>3. /\ n.cmd \in DOMAIN call[t] /\ n.part \in 1 .. Size[Kind(call[t][n.cmd])]
        /\ \A i \in DOMAIN call[t] : n.cmd <= i => outcome[call[t][i]] = "none"
        /\ \A i \in DOMAIN call[t] : n.cmd < i \/ (n.cmd = i /\ n.part = 1) => ~ Has(sd, call[t][i])
        /\ IF n.part = 1 THEN s # <<>> => IsEol(s[Len(s)])
           ELSE s # <<>> /\ s[Len(s)] = [id |-> call[t][n.cmd], part |-> n.part - 1]
    BY <1>0, <1>3 DEF Continues
  <2>4. /\ call[t] \in Seq(Ids) /\ DOMAIN call[t] = 1 .. Len(call[t]) /\ Len(call[t]) \in Nat
        /\ \A i \in DOMAIN call[t] : call[t][i] \in Ids
        /\ \A i, j \in DOMAIN call[t] : call[t][i] = call[t][j] => i = j
    <3>1. /\ call[t] \in Seq(Ids) /\ DOMAIN call[t] = 1 .. Len(call[t]) /\ Len(call[t]) \in Nat
          /\ \A i \in DOMAIN call[t] : call[t][i] \in Ids
      BY <1>0, CallTypes
    <3>2. \A i \in DOMAIN call[t] : call[t][i] = call[t][1] + i - 1
      BY <1>0 DEF CallShape
    <3>3. DOMAIN call[t] # {} => call[t][1] \in Int
      BY <3>1 DEF Ids
    <3> QED BY <3>1, <3>2, <3>3
  <2>5. /\ n \in [cmd : Nat \ {0}, part : Nat \ {0}] /\ n.cmd \in Nat /\ n.part \in Nat
        /\ Size[Kind(call[t][n.cmd])] \in Nat /\ s \in Seq(UnitType) /\ Len(s) \in Nat
    BY <1>0, <1>1, <2>3, <2>4, SizePositive, StreamTypes, Zenon
  <2>6. IsEol(u) <=> n.part = Size[Kind(call[t][n.cmd])]
    BY <2>1 DEF IsEol
  <2> HIDE DEF u, k, n
  <2>7. /\ unsent' = [unsent EXCEPT ![t] = IF IsEol(u) THEN [cmd |-> n.cmd + 1, part |-> 1]
                                           ELSE [n EXCEPT !.part = @ + 1]]
        /\ pc' = [pc EXCEPT ![t] = IF IsEol(u) /\ n.cmd = Len(call[t]) THEN "read" ELSE "write"]
    BY <2>1 DEF Advance, Goto, u, n
  <2>8. /\ unsent'[t] = IF IsEol(u) THEN [cmd |-> n.cmd + 1, part |-> 1]
                        ELSE [cmd |-> n.cmd, part |-> n.part + 1]
        /\ pc'[t] = (IF IsEol(u) /\ n.cmd = Len(call[t]) THEN "read" ELSE "write")
        /\ unsent'[t] \in [cmd : Nat \ {0}, part : Nat \ {0}]
        /\ \A v \in Threads \ {t} : pc'[v] = pc[v] /\ pc[v] \notin {"write", "read"}
    <3>1. [n EXCEPT !.part = @ + 1] = [cmd |-> n.cmd, part |-> n.part + 1]
      BY <2>5
    <3> QED BY <1>1, <2>5, <2>7, <3>1
  <2>9. Types'
    <3>1. ClientTypes'
      <4>1. pc' \in [Threads -> {"idle", "connect", "request", "write", "read", "done", "failed"}]
        BY <1>1, <2>7
      <4>2. unsent' \in [Threads -> [cmd : Nat \ {0}, part : Nat \ {0}]]
        BY <1>1, <2>7, <2>8
      <4> QED BY <1>0, <4>1, <4>2, SameTypes DEF Types, ClientTypes
    <3>2. conn' \in [Conns -> ConnType']
      BY <1>0, <1>1, <2>1, OneConn, Zenon
    <3> QED BY <1>0, <3>1, <3>2 DEF Types, HistoryTypes, DaemonTypes
  <2>10. conn'[sd] = k /\ Bounded'
    <3>1. ConnBounded(o)
      BY <1>0, <1>1 DEF Bounded
    <3>2. Len(k.to) = Len(o.to) + 1
      BY <2>1, <2>2, AppendProperties
    <3>3. o.server = "open"
      <4>1. o.server \in {"unused", "open", "closed"} /\ o.server # "unused"
        BY <1>0, <1>1, <2>1, ConnIs, Holder, Zenon
      <4> QED BY <1>3, <4>1 DEF Broken
    <3>4. ConnBounded(k)
      BY <2>1, <2>2, <3>1, <3>2, <3>3, SizesAssumption DEF ConnBounded
    <3> QED BY <1>0, <1>1, <2>1, <3>4, OneConn, Zenon
  <2>11. Locked'
    <3>1. \A v \in Threads : pc'[v] \in {"write", "read"} <=> lock' = v
      BY <1>0, <1>1, <2>8
    <3>2. conn'[sd].server # "unused" /\ ~ conn'[sd].closed
      <4>1. o.server # "unused" /\ ~ o.closed
        BY <1>0, <1>1, Holder, Zenon
      <4> QED BY <1>0, <2>2, <2>10, <4>1
    <3>3. \A d \in Conns : conn'[d].server = "unused" => conn'[d] = Unused
      BY <1>0, <1>1, <2>1, <3>2 DEF Locked
    <3> QED BY <1>0, <1>1, <3>1, <3>2, <3>3 DEF Locked, Conns, Unused
  <2>12. CountBounded'
    <3>1. HandledIds' = HandledIds
      BY <1>0 DEF HandledIds, Ids
    <3>2. \A d \in Conns : conn'[d].batch_cmd = conn[d].batch_cmd
      BY <2>1, <2>2, <2>10
    <3> QED BY <1>0, <3>1, <3>2 DEF CountBounded, Conns
  <2>13. CallShape'
    <3>1. \A v \in Threads : pc'[v] # "idle" => pc[v] # "idle"
      BY <1>0, <2>8
    <3> QED BY <1>0, <3>1 DEF CallShape, Kind
  <2>14. /\ \A d \in Conns \ {sd} : Stream(d)' = Stream(d)
         /\ \A d \in Conns : \A id : Has(d, id)' <=> Has(d, id) \/ (d = sd /\ id = u.id)
    <3>1. \A d \in Conns \ {sd} : Stream(d)' = Stream(d)
      BY <2>1, Zenon DEF Stream
    <3>2. ASSUME NEW d \in Conns, d = sd, NEW id PROVE Has(d, id)' <=> Has(d, id) \/ id = u.id
      <4>1. s' = Stream(d)' /\ s = Stream(d)
        BY <1>0, <3>2 DEF Stream
      <4>2. Has(d, id)' <=> \E i \in 1 .. Len(s) + 1 : s'[i].id = id
        BY <2>1, <4>1 DEF Has
      <4>3. \A i : i \in 1 .. Len(s) + 1 <=> i \in 1 .. Len(s) \/ i = Len(s) + 1
        BY <2>5
      <4>4. Has(d, id) <=> \E i \in 1 .. Len(s) : s[i].id = id
        BY <4>1 DEF Has
      <4> HIDE DEF s
      <4> QED BY <2>1, <4>2, <4>3, <4>4
    <3>3. ASSUME NEW d \in Conns \ {sd}, NEW id PROVE Has(d, id)' <=> Has(d, id)
      BY <3>1 DEF Has
    <3> QED BY <3>1, <3>2, <3>3
  <2>15. Streams'
    <3>1. Whole(s') /\ Once(s')
      <4>1. Whole(s) /\ Once(s)
        BY <1>0, <1>1 DEF Streams
      <4>2. u.part = 1 => (s # <<>> => IsEol(s[Len(s)])) /\ \A i \in 1 .. Len(s) : s[i].id # u.id
        BY <2>1, <2>3, <2>5 DEF Has
      <4>3. u.part # 1 => s # <<>> /\ s[Len(s)] = [id |-> u.id, part |-> u.part - 1]
        BY <2>1, <2>3
      <4> HIDE DEF s
      <4> QED BY <1>0, <2>1, <2>5, <4>1, <4>2, <4>3, AppendWhole
    <3>2. \A d \in Conns : Whole(Stream(d)') /\ Once(Stream(d)')
      BY <1>0, <1>1, <2>14, <3>1 DEF Streams
    <3>2a. \A d \in Conns : Whole(Stream(d))' /\ Once(Stream(d))'
      BY <1>0, <3>2, WholeAgain
    <3>3. \A d \in Conns, id \in Ids : Has(d, id)' => outcome[id] = "none"
      <4>1. outcome[u.id] = "none"
        BY <2>1, <2>3, <2>5
      <4> QED BY <1>0, <2>14, <4>1 DEF Streams
    <3>4. \A d \in Conns \ {sd} : ~ Has(d, u.id)
      BY <1>0, <2>1, <2>3 DEF SentHere
    <3>5. ASSUME NEW c \in Conns, NEW d \in Conns, c # d, NEW id \in Ids
          PROVE  ~ (Has(c, id)' /\ Has(d, id)')
      <4>1. Has(c, id)' => Has(c, id) \/ (c = sd /\ id = u.id)
        BY <2>14
      <4>2. Has(d, id)' => Has(d, id) \/ (d = sd /\ id = u.id)
        BY <2>14
      <4>3. ~ (Has(c, id) /\ Has(d, id))
        BY <1>0, <3>5 DEF Streams
      <4> QED BY <3>4, <3>5, <4>1, <4>2, <4>3
    <3> QED BY <1>0, <3>2a, <3>3, <3>5 DEF Streams, Conns, Ids
  <2>16. NotYetSent'
    <3> SUFFICES ASSUME NEW v \in Threads, pc'[v] \in {"connect", "request"}, NEW i \in DOMAIN call[v]
                 PROVE  outcome[call[v][i]] = "none" /\ \A c \in Conns : ~ Has(c, call[v][i])'
      BY <1>0 DEF NotYetSent, Conns
    <3>0. call[v][i]' = call[v][i]
      BY <1>0
    <3>1. v # t /\ pc[v] \in {"connect", "request"}
      BY <2>8
    <3>2. outcome[call[v][i]] = "none" /\ \A c \in Conns : ~ Has(c, call[v][i])
      BY <1>0, <3>1 DEF NotYetSent
    <3>3. call[v][i] # u.id
      BY <1>0, <2>1, <2>3, <3>1 DEF CallShape
    <3>4. \A c \in Conns : \A id : Has(c, id)' => Has(c, id) \/ id = u.id
      BY <2>14
    <3>5. (\A c \in Conns : ~ Has(c, call[v][i]))'
      BY <1>0, <3>2, <3>3, <3>4 DEF Conns
    <3> QED BY <3>2, <3>5 DEF Conns
  <2>17. SentHere'
    <3> SUFFICES ASSUME NEW v \in Threads, pc'[v] \in {"write", "read"}, NEW i \in DOMAIN call[v],
                        NEW c \in Conns, c # sd
                 PROVE  ~ Has(c, call[v][i])'
      BY <1>0 DEF SentHere, Conns
    <3>1. v = t /\ ~ Has(c, call[v][i])
      BY <1>0, <2>8 DEF SentHere
    <3>2. Has(c, call[v][i])' <=> Has(c, call[v][i])
      BY <1>0, <2>14
    <3> QED BY <3>1, <3>2
  <2>18. (Stream(sd)' # <<>>) /\ Len(s') \in Nat /\ s'[Len(s')] = u
    BY <2>1, <2>5, EmptySeq
  <2>19. IsEol(u) => IsEol(s[Len(s)])'
    BY <1>0, <2>18 DEF IsEol, Kind
  <2>20. Continues'
    <3> SUFFICES ASSUME pc'[t] = "write"
                 PROVE  (LET p == unsent[t]
                         IN  /\ p.cmd \in DOMAIN call[t] /\ p.part \in 1 .. Size[Kind(call[t][p.cmd])]
                             /\ \A i \in DOMAIN call[t] : p.cmd <= i => outcome[call[t][i]] = "none"
                             /\ \A i \in DOMAIN call[t] :
                                   p.cmd < i \/ (p.cmd = i /\ p.part = 1) => ~ Has(sd, call[t][i])
                             /\ ~ Broken(sd) =>
                                  IF p.part = 1 THEN s # <<>> => IsEol(s[Len(s)])
                                  ELSE s # <<>> /\ s[Len(s)] = [id |-> call[t][p.cmd], part |-> p.part - 1])'
      BY <1>0, <2>8 DEF Continues
    <3>0. \A i \in DOMAIN call[t] : Has(sd, call[t][i])' <=> Has(sd, call[t][i]) \/ call[t][i] = u.id
      <4>1. PICK d \in Conns : d = sd
        BY <1>1
      <4>2. \A id : (Has(sd, id)' <=> Has(d, id)') /\ (Has(sd, id) <=> Has(d, id))
        BY <1>0, <4>1 DEF Has, Stream
      <4>3. \A id : Has(d, id)' <=> Has(d, id) \/ id = u.id
        BY <2>14, <4>1
      <4>4. \A id : Has(sd, id)' <=> Has(sd, id) \/ id = u.id
        BY <4>2, <4>3
      <4> QED BY <1>0, <4>4 DEF Has
    <3>1. CASE IsEol(u)
      <4>1. n.cmd + 1 \in DOMAIN call[t] /\ unsent'[t].cmd = n.cmd + 1 /\ unsent'[t].part = 1
        BY <2>3, <2>4, <2>5, <2>8, <3>1
      <4>2. 1 \in 1 .. Size[Kind(call[t][n.cmd + 1])]
        BY <1>0, <2>4, <4>1, SizePositive
      <4>3. (unsent[t].cmd \in DOMAIN call[t] /\ unsent[t].part \in 1 .. Size[Kind(call[t][unsent[t].cmd])])'
        BY <1>0, <4>1, <4>2 DEF Kind
      <4>4. (\A i \in DOMAIN call[t] : unsent[t].cmd <= i => outcome[call[t][i]] = "none")'
        BY <1>0, <2>3, <2>4, <2>5, <4>1, SMTT(30)
      <4>5. (\A i \in DOMAIN call[t] : unsent[t].cmd <= i => ~ Has(sd, call[t][i]))'
        <5> SUFFICES ASSUME NEW i \in DOMAIN call[t], n.cmd + 1 <= i PROVE ~ Has(sd, call[t][i])'
          BY <1>0, <4>1
        <5>1. n.cmd < i /\ n.cmd # i
          BY <2>4, <2>5
        <5>2. call[t][i] # u.id /\ ~ Has(sd, call[t][i])
          BY <2>1, <2>3, <2>4, <5>1
        <5> QED BY <3>0, <5>2
      <4>6. (\A i \in DOMAIN call[t] : unsent[t].cmd < i \/ (unsent[t].cmd = i /\ unsent[t].part = 1) =>
                ~ Has(sd, call[t][i]))'
        BY <1>0, <2>4, <2>5, <4>1, <4>5
      <4> QED BY <2>19, <3>1, <4>1, <4>3, <4>4, <4>6
    <3>2. CASE ~ IsEol(u)
      <4>1. unsent'[t].cmd = n.cmd /\ unsent'[t].part = n.part + 1 /\ n.part + 1 # 1
            /\ n.part + 1 \in 1 .. Size[Kind(call[t][n.cmd])] /\ n.part + 1 - 1 = n.part
        BY <2>3, <2>5, <2>6, <2>8, <3>2, SMTT(30)
      <4>3. (unsent[t].cmd \in DOMAIN call[t] /\ unsent[t].part \in 1 .. Size[Kind(call[t][unsent[t].cmd])])'
        BY <1>0, <2>3, <4>1 DEF Kind
      <4>4. (\A i \in DOMAIN call[t] : unsent[t].cmd <= i => outcome[call[t][i]] = "none")'
        BY <1>0, <2>3, <4>1
      <4>5. (\A i \in DOMAIN call[t] : unsent[t].cmd < i => ~ Has(sd, call[t][i]))'
        <5> SUFFICES ASSUME NEW i \in DOMAIN call[t], n.cmd < i PROVE ~ Has(sd, call[t][i])'
          BY <1>0, <4>1
        <5>1. n.cmd # i
          BY <2>4, <2>5
        <5>2. call[t][i] # u.id /\ ~ Has(sd, call[t][i])
          BY <2>1, <2>3, <2>4, <5>1
        <5> QED BY <3>0, <5>2
      <4>6. (s[Len(s)] = [id |-> call[t][unsent[t].cmd], part |-> unsent[t].part - 1])'
        <5>1. u = [id |-> u.id, part |-> u.part]
          BY <2>1 DEF UnitType
        <5>2. call'[t][unsent'[t].cmd] = u.id /\ unsent'[t].part - 1 = u.part
          <6>1. call'[t] = call[t] /\ u.id = call[t][n.cmd] /\ unsent'[t].cmd = n.cmd
            BY <1>0, <2>1, <4>1
          <6>2. u.part = n.part /\ unsent'[t].part = n.part + 1
            BY <2>1, <4>1
          <6> QED BY <2>5, <4>1, <6>1, <6>2
        <5>3. s'[Len(s')] = u
          BY <2>18
        <5> HIDE DEF s
        <5>4. u = [id |-> call'[t][unsent'[t].cmd], part |-> unsent'[t].part - 1]
          BY <5>1, <5>2
        <5> QED BY <5>3, <5>4
      <4> QED BY <2>18, <4>1, <4>3, <4>4, <4>5, <4>6
    <3> QED BY <3>1, <3>2
  <2>21. EndsWhole'
    <3> SUFFICES ASSUME pc'[t] = "read" PROVE IsEol(s[Len(s)])'
      BY <1>0, <1>1, ThreadsAssumption DEF EndsWhole
    <3> QED BY <2>8, <2>19
  <2>22. CommandsArriveWhole'
    BY <1>0 DEF CommandsArriveWhole
  <2>23. Unfinished'
    <3> SUFFICES ASSUME pc'[t] = "write", NEW i \in 1 .. Len(s'), s'[i].id = call[t][unsent'[t].cmd]
                 PROVE  s'[i].part < unsent'[t].part
      BY <1>0, <2>8 DEF Unfinished
    <3>1. CASE i = Len(s) + 1
      <4>1. s'[i] = u /\ u.id = call[t][n.cmd] /\ u.part = n.part
        BY <2>1, <3>1
      <4>2. ~ IsEol(u)
        <5> SUFFICES ASSUME IsEol(u) PROVE FALSE
          OBVIOUS
        <5>1. n.cmd + 1 \in DOMAIN call[t] /\ unsent'[t].cmd = n.cmd + 1 /\ n.cmd + 1 # n.cmd
          BY <2>3, <2>4, <2>5, <2>8, SMTT(30)
        <5>2. call[t][n.cmd + 1] # call[t][n.cmd]
          BY <2>3, <2>4, <5>1
        <5> QED BY <4>1, <5>1, <5>2
      <4>3. unsent'[t].part = n.part + 1
        BY <2>8, <4>2
      <4> HIDE DEF s
      <4> QED BY <2>5, <4>1, <4>3
    <3>2. CASE i # Len(s) + 1
      <4>1. i \in 1 .. Len(s)
        BY <2>1, <2>5, <3>2
      <4>2. s'[i] = s[i] /\ s[i].id = call[t][unsent'[t].cmd]
        BY <2>1, <4>1
      <4>3. CASE IsEol(u)
        <5>1. n.cmd + 1 \in DOMAIN call[t] /\ unsent'[t].cmd = n.cmd + 1 /\ n.cmd < n.cmd + 1
          BY <2>3, <2>4, <2>5, <2>8, <4>3, SMTT(30)
        <5>2. ~ Has(sd, call[t][n.cmd + 1])
          BY <2>3, <5>1
        <5> QED BY <4>1, <4>2, <5>1, <5>2 DEF Has
      <4>4. CASE ~ IsEol(u)
        <5>1. unsent'[t].cmd = n.cmd /\ unsent'[t].part = n.part + 1
          BY <2>8, <4>4
        <5>2. s[i].part < n.part
          BY <1>0, <4>1, <4>2, <5>1 DEF Unfinished, n
        <5>3. s[i].part \in Nat
          BY <1>0, <2>5, <4>1, UnitIs
        <5> QED BY <2>5, <4>2, <5>1, <5>2, <5>3
      <4> QED BY <4>3, <4>4
    <3> QED BY <3>1, <3>2
  <2> QED BY <2>9, <2>10, <2>11, <2>12, <2>13, <2>15, <2>16, <2>17, <2>20, <2>21, <2>22, <2>23
          DEF StreamInv
<1> QED BY <1>2, <1>3

-----------------------------------------------------------------------------
(* A command is handled.                                                   *)

Rest(c, e) == [conn[c] EXCEPT !.rbuf = SubSeq(@, e + 1, Len(@))]

LEMMA CommandCases ==
    ASSUME StreamInv, NEW c \in Conns, ServerCommand(c)
    PROVE  \E e \in 1 .. Len(conn[c].rbuf) :
              LET id == conn[c].rbuf[e].id
                  k == Counted(Rest(c, e))
              IN  /\ id \in Ids /\ IsEol(conn[c].rbuf[e]) /\ Stream(c)[1] = [id |-> id, part |-> 1]
                  /\ \A j \in 1 .. e : Stream(c)[j].id = id
                  /\ Stream(c)[e] = conn[c].rbuf[e]
                  /\ \/ Kind(id) = "update" /\ HandleUpdate(c, id, k)
                     \/ /\ \/ Kind(id) = "stats" /\ ~ k.batch_start /\ HandleStats(c, id, k)
                           \/ Kind(id) = "batch" /\ ~ k.batch_start /\ BatchStart(c, id, k)
                           \/ Kind(id) = "dot" /\ k.batch_start /\ BatchDone(c, id, k)
                           \/ Kind(id) = "quit" /\ Answer(c, id, Closed(k), "ok")
                           \/ /\ ~ Allowed(Kind(id), k.batch_start)
                              /\ Answer(c, id, send_response(k, id, FALSE, <<>>), "error")
                        /\ UNCHANGED last_update_stamp
<1> DEFINE rbuf == conn[c].rbuf
           s == Stream(c)
           First(e) == IsEol(rbuf[e]) /\ \A j \in 1 .. e - 1 : ~ IsEol(rbuf[j])
           eol == CHOOSE e \in DOMAIN rbuf : First(e)
           id == rbuf[eol].id
           k == Counted(Rest(c, eol))
<1>0. Types /\ Streams
  BY DEF StreamInv
<1>1. /\ rbuf \in Seq(UnitType) /\ conn[c].to \in Seq(UnitType) /\ DOMAIN rbuf = 1 .. Len(rbuf)
      /\ s \in Seq(UnitType) /\ Len(s) = Len(rbuf) + Len(conn[c].to)
      /\ Len(rbuf) \in Nat /\ Len(conn[c].to) \in Nat
      /\ \A i \in 1 .. Len(rbuf) : s[i] = rbuf[i]
  <2>1. /\ rbuf \in Seq(UnitType) /\ conn[c].to \in Seq(UnitType)
        /\ s \in Seq(UnitType) /\ Len(s) = Len(rbuf) + Len(conn[c].to)
        /\ \A i \in 1 .. Len(s) : s[i] = IF i <= Len(rbuf) THEN rbuf[i] ELSE conn[c].to[i - Len(rbuf)]
    BY <1>0, StreamTypes, Zenon
  <2>2. DOMAIN rbuf = 1 .. Len(rbuf) /\ Len(rbuf) \in Nat /\ Len(conn[c].to) \in Nat
    BY <2>1
  <2> HIDE DEF rbuf, s
  <2> QED BY <2>1, <2>2, SMTT(30)
<1>2. eol \in 1 .. Len(rbuf) /\ First(eol)
  <2> DEFINE N == {i \in 1 .. Len(rbuf) : IsEol(rbuf[i])}
  <2>1. N # {}
    BY <1>1, Zenon DEF ServerCommand, Complete
  <2>2. PICK e \in N : \A j \in N : e <= j
    <3>1. N \subseteq Nat
      OBVIOUS
    <3> HIDE DEF N
    <3> QED BY <2>1, <3>1, LeastNumber, Zenon
  <2>3. e \in DOMAIN rbuf /\ First(e)
    <3> SUFFICES ASSUME NEW j \in 1 .. e - 1, IsEol(rbuf[j]) PROVE FALSE
      BY <1>1, <2>2
    <3>1. e \in Nat /\ e <= Len(rbuf)
      BY <1>1, <2>2
    <3>2. j \in N /\ ~ (e <= j)
      BY <1>1, <3>1
    <3> QED BY <2>2, <3>2
  <2>4. \E i \in DOMAIN rbuf : First(i)
    BY <2>3
  <2>5. eol \in DOMAIN rbuf /\ First(eol)
    <3> HIDE DEF First
    <3> QED BY <2>4
  <2> QED BY <1>1, <2>5
<1>3. eol \in 1 .. Len(s) /\ s[eol] = rbuf[eol] /\ IsEol(s[eol]) /\ \A j \in 1 .. eol - 1 : ~ IsEol(s[j])
  <2> HIDE DEF eol
  <2>1. \A j \in 1 .. eol - 1 : j \in 1 .. Len(rbuf)
    BY <1>1, <1>2
  <2>2. eol \in 1 .. Len(s)
    <3> HIDE DEF rbuf, s, eol
    <3> QED BY <1>1, <1>2
  <2>3. IsEol(rbuf[eol]) /\ \A j \in 1 .. eol - 1 : ~ IsEol(rbuf[j])
    BY <1>2, Zenon
  <2>4. s[eol] = rbuf[eol] /\ \A j \in 1 .. eol - 1 : s[j] = rbuf[j]
    <3> HIDE DEF rbuf, s, eol
    <3> QED BY <1>1, <1>2, <2>1, Zenon
  <2> HIDE DEF rbuf, s, eol
  <2> QED BY <2>2, <2>3, <2>4, Zenon
<1>4. SubSeq(rbuf, 1, eol) = Units(id) /\ s[1] = [id |-> id, part |-> 1] /\ id \in Ids
  <2>1. Whole(s)
    BY <1>0 DEF Streams
  <2>2. SubSeq(s, 1, eol) = Units(s[eol].id) /\ s[1] = [id |-> s[eol].id, part |-> 1]
    <3> HIDE DEF s, eol
    <3> QED BY <1>0, <1>1, <1>3, <2>1, FirstCommand, Zenon
  <2>3. SubSeq(s, 1, eol) = SubSeq(rbuf, 1, eol)
    <3>1. 1 \in 1 .. Len(rbuf) /\ eol \in 1 .. Len(rbuf)
      BY <1>1, <1>2
    <3>2. s = rbuf \o conn[c].to
      BY DEF Stream
    <3> HIDE DEF s, eol, rbuf
    <3> QED BY <1>1, <3>1, <3>2, SubSeqOfConcat1
  <2>4. s[eol].id \in Ids
    <3> HIDE DEF s, eol
    <3> QED BY <1>0, <1>1, <1>3, UnitIs
  <2> QED BY <1>3, <2>2, <2>3, <2>4, Zenon
<1>5. \A j \in 1 .. eol : s[j].id = id
  <2> SUFFICES ASSUME NEW j \in 1 .. eol PROVE rbuf[j].id = id
    <3>1. \A j \in 1 .. eol : j \in 1 .. Len(rbuf)
      <4> HIDE DEF eol, rbuf
      <4> QED BY <1>1, <1>2
    <3> HIDE DEF eol, rbuf, s, id
    <3> QED BY <1>1, <3>1
  <2>1. SubSeq(rbuf, 1, eol)[j] = rbuf[j] /\ Len(SubSeq(rbuf, 1, eol)) = eol
    <3> HIDE DEF eol, rbuf
    <3>1. eol \in 0 .. Len(rbuf)
      BY <1>1, <1>2
    <3> QED BY <1>1, <3>1, PrefixOf
  <2>2. Size[Kind(id)] \in Nat
    BY <1>0, <1>4, SizePositive, Zenon
  <2>3. Units(id)[j].id = id
    <3> HIDE DEF id
    <3>1. Len(Units(id)) = Size[Kind(id)]
      BY <2>2, SMTT(30) DEF Units
    <3>2. eol = Size[Kind(id)]
      BY <1>4, <2>1, <3>1
    <3> QED BY <3>2, Zenon DEF Units
  <2> QED BY <1>4, <2>1, <2>3, Zenon
<1>6. Kind(id) \in Kinds
  BY <1>0, <1>4, SizePositive, Zenon
<1>7. \/ Kind(id) = "update" /\ HandleUpdate(c, id, k)
      \/ /\ \/ Kind(id) = "stats" /\ ~ k.batch_start /\ HandleStats(c, id, k)
            \/ Kind(id) = "batch" /\ ~ k.batch_start /\ BatchStart(c, id, k)
            \/ Kind(id) = "dot" /\ k.batch_start /\ BatchDone(c, id, k)
            \/ Kind(id) = "quit" /\ Answer(c, id, Closed(k), "ok")
            \/ /\ ~ Allowed(Kind(id), k.batch_start)
               /\ Answer(c, id, send_response(k, id, FALSE, <<>>), "error")
         /\ UNCHANGED last_update_stamp
  <2> DEFINE Handled(kind) == SubSeq(rbuf, 1, eol) = Units(id) /\ Kind(id) = kind
                              /\ Allowed(kind, k.batch_start)
  <2>1. \/ Handled("update") /\ HandleUpdate(c, id, k)
        \/ /\ \/ Handled("stats") /\ HandleStats(c, id, k)
              \/ Handled("batch") /\ BatchStart(c, id, k)
              \/ Handled("dot") /\ BatchDone(c, id, k)
              \/ Handled("quit") /\ Answer(c, id, Closed(k), "ok")
              \/ /\ ~ \E kind \in Kinds : Handled(kind)
                 /\ Answer(c, id, send_response(k, id, FALSE, <<>>),
                           IF SubSeq(rbuf, 1, eol) = Units(id) THEN "error" ELSE "garbled")
           /\ UNCHANGED last_update_stamp
    BY Zenon DEF ServerCommand, Rest, Remainder
  <2> HIDE DEF id, k, eol, rbuf
  <2>2. \A kind : Handled(kind) <=> Kind(id) = kind /\ Allowed(kind, k.batch_start)
    BY <1>4
  <2> HIDE DEF Handled
  <2>3. /\ Handled("stats") => ~ k.batch_start
        /\ Handled("batch") => ~ k.batch_start
        /\ Handled("dot") => k.batch_start
    BY <2>2, Zenon DEF Allowed
  <2>4. (~ \E kind \in Kinds : Handled(kind)) => ~ Allowed(Kind(id), k.batch_start)
    BY <1>6, <2>2
  <2> QED BY <1>4, <2>1, <2>2, <2>3, <2>4, Zenon
<1> HIDE DEF eol
<1> QED BY <1>2, <1>3, <1>4, <1>5, <1>7, Zenon

LEMMA RestTypes ==
    ASSUME StreamInv, NEW c \in Conns, Ready(c), NEW e \in 1 .. Len(conn[c].rbuf)
    PROVE  LET k == Counted(Rest(c, e))
               o == conn[c]
           IN  /\ k \in ConnType /\ k.rbuf = SubSeq(o.rbuf, e + 1, Len(o.rbuf)) /\ k.to = o.to
               /\ k.from = o.from /\ k.out = <<>> /\ k.wbuf = o.wbuf /\ k.server = "open"
               /\ k.closed = o.closed /\ k.lost = o.lost /\ k.batch_start = o.batch_start
               /\ k.batch_cmd = (IF o.batch_start THEN o.batch_cmd + 1 ELSE o.batch_cmd)
               /\ SubSeq(o.rbuf, e + 1, Len(o.rbuf)) \in Seq(UnitType)
               /\ Len(SubSeq(o.rbuf, e + 1, Len(o.rbuf))) = Len(o.rbuf) - e
               /\ \A i \in 1 .. Len(o.rbuf) - e :
                     SubSeq(o.rbuf, e + 1, Len(o.rbuf))[i] = o.rbuf[e + i]
<1> DEFINE o == conn[c]
           r == SubSeq(o.rbuf, e + 1, Len(o.rbuf))
           q == [o EXCEPT !.rbuf = r]
           k == Counted(q)
<1>1. /\ o \in ConnType /\ o.rbuf \in Seq(UnitType) /\ Len(o.rbuf) \in Nat
      /\ o.server = "open" /\ o.out = <<>> /\ o.batch_cmd \in Nat /\ o.batch_start \in BOOLEAN
  BY StreamTypes, ConnIs, Zenon DEF StreamInv, Ready
<1>2. /\ r \in Seq(UnitType) /\ Len(r) = Len(o.rbuf) - e /\ \A i \in 1 .. Len(o.rbuf) - e : r[i] = o.rbuf[e + i]
  <2> DEFINE m == Len(o.rbuf)
             s == o.rbuf
  <2>1. e \in Nat \ {0} /\ m \in Nat /\ e <= m
    BY <1>1
  <2>2. \A i \in e + 1 .. m : s[i] \in UnitType
    <3>1. \A i \in e + 1 .. m : i \in 1 .. m
      BY <2>1
    <3> QED BY <1>1, <3>1, ElementOfSeq
  <2> HIDE DEF m, s
  <2>3. /\ SubSeq(s, e + 1, m) \in Seq(UnitType)
        /\ Len(SubSeq(s, e + 1, m)) = IF e + 1 <= m THEN m - (e + 1) + 1 ELSE 0
        /\ \A i \in 1 .. m - (e + 1) + 1 : SubSeq(s, e + 1, m)[i] = s[(e + 1) + i - 1]
    BY <2>1, <2>2, SubSeqProperties
  <2>4. Len(SubSeq(s, e + 1, m)) = m - e
    BY <2>1, <2>3
  <2>5. ASSUME NEW i \in 1 .. m - e PROVE SubSeq(s, e + 1, m)[i] = s[e + i]
    <3>1. i \in 1 .. m - (e + 1) + 1 /\ (e + 1) + i - 1 = e + i
      BY <2>1
    <3> QED BY <2>3, <3>1
  <2> QED BY <2>3, <2>4, <2>5 DEF s, m
<1> HIDE DEF r
<1>3. q \in ConnType /\ q.rbuf = r /\ q.to = o.to /\ q.from = o.from /\ q.out = o.out /\ q.wbuf = o.wbuf
      /\ q.server = o.server /\ q.closed = o.closed /\ q.lost = o.lost
      /\ q.batch_start = o.batch_start /\ q.batch_cmd = o.batch_cmd
  BY <1>1, <1>2, Zenon DEF ConnType
<1> HIDE DEF q
<1>4. k \in ConnType /\ k.rbuf = r /\ k.to = o.to /\ k.from = o.from /\ k.out = o.out /\ k.wbuf = o.wbuf
      /\ k.server = o.server /\ k.closed = o.closed /\ k.lost = o.lost
      /\ k.batch_start = o.batch_start
      /\ k.batch_cmd = (IF o.batch_start THEN o.batch_cmd + 1 ELSE o.batch_cmd)
  <2>1. CASE q.batch_start
    <3>1. k = [q EXCEPT !.batch_cmd = @ + 1] /\ q.batch_cmd + 1 \in Nat
      BY <1>1, <1>3, <2>1 DEF Counted
    <3>2. /\ k \in ConnType /\ k.rbuf = q.rbuf /\ k.to = q.to /\ k.from = q.from /\ k.out = q.out
          /\ k.wbuf = q.wbuf /\ k.server = q.server /\ k.closed = q.closed /\ k.lost = q.lost
          /\ k.batch_start = q.batch_start /\ k.batch_cmd = q.batch_cmd + 1
      <4>1. q \in ConnType
        BY <1>3
      <4> HIDE DEF k
      <4> QED BY <3>1, <4>1, Zenon DEF ConnType
    <3>3. o.batch_start
      BY <1>3, <2>1
    <3> HIDE DEF k, o
    <3> QED BY <1>3, <3>2, <3>3
  <2>2. CASE ~ q.batch_start
    <3>1. k = q
      BY <2>2 DEF Counted
    <3> QED BY <1>3, <2>2, <3>1
  <2> QED BY <2>1, <2>2
<1>5. Counted(Rest(c, e)) = k
  BY DEF Rest, q, r
<1> HIDE DEF k
<1> QED BY <1>1, <1>2, <1>4, <1>5 DEF r

LEMMA ResponseTypes ==
    ASSUME NEW id \in Ids, NEW status \in Int, NEW info \in Seq(InfoType)
    PROVE  /\ Response(id, status, info) \in Seq(LineType)
           /\ Len(Response(id, status, info)) = Len(info) + 1
           /\ \A l \in 1 .. Len(info) + 1 :
                 Response(id, status, info)[l] =
                    [resp |-> [id |-> id, status |-> status, lines |-> info], part |-> l - 1]
<1> DEFINE resp == [id |-> id, status |-> status, lines |-> info]
           n == Len(info)
           r == [l \in 1 .. n + 1 |-> [resp |-> resp, part |-> l - 1]]
<1>1. resp \in RespType /\ n \in Nat /\ resp.lines = info
  BY DEF RespType
<1> HIDE DEF resp
<1>2. ASSUME NEW l \in 1 .. n + 1 PROVE [resp |-> resp, part |-> l - 1] \in LineType
  <2>1. l - 1 \in Nat /\ l - 1 <= n
    BY <1>1
  <2> QED BY <1>1, <2>1 DEF LineType
<1> HIDE DEF n
<1>3. r \in Seq(LineType) /\ Len(r) = n + 1 /\ \A l \in 1 .. n + 1 : r[l] = [resp |-> resp, part |-> l - 1]
  BY <1>1, <1>2
<1>4. Response(id, status, info) = r
  BY DEF Response, resp, n
<1> HIDE DEF r
<1> QED BY <1>3, <1>4 DEF resp, n

LEMMA SendTypes ==
    ASSUME NEW k \in ConnType, NEW id \in Ids, NEW ok \in BOOLEAN, NEW info \in Seq(InfoType)
    PROVE  LET r == send_response(k, id, ok, info) IN
           /\ r \in ConnType /\ r.rbuf = k.rbuf /\ r.to = k.to /\ r.from = k.from
           /\ r.server = k.server /\ r.closed = k.closed /\ r.lost = k.lost
           /\ r.batch_start = k.batch_start /\ r.batch_cmd = k.batch_cmd
           /\ k.batch_start => r.out = k.out
                               /\ r.wbuf = (IF ok THEN k.wbuf
                                            ELSE Append(k.wbuf, [n |-> k.batch_cmd, id |-> id]))
           /\ ~ k.batch_start => r.wbuf = <<>>
                                 /\ r.out = (IF ok THEN Response(id, Len(info), info)
                                             ELSE Response(id, -1, <<>>))
<1>1. /\ k.batch_cmd \in Nat /\ k.wbuf \in Seq(InfoType) /\ <<>> \in Seq(InfoType)
      /\ Len(info) \in Int /\ -1 \in Int
  <2>1. k.batch_cmd \in Nat /\ k.wbuf \in Seq(InfoType)
    BY ConnIs, Zenon
  <2>2. <<>> \in Seq(InfoType) /\ Len(info) \in Nat
    BY EmptySeq, LenProperties
  <2> QED BY <2>1, <2>2
<1>2. [n |-> k.batch_cmd, id |-> id] \in InfoType
  BY <1>1 DEF InfoType
<1>3. Append(k.wbuf, [n |-> k.batch_cmd, id |-> id]) \in Seq(InfoType)
  BY <1>1, <1>2, AppendProperties
<1>4. Response(id, Len(info), info) \in Seq(LineType) /\ Response(id, -1, <<>>) \in Seq(LineType)
  BY <1>1, ResponseTypes, Zenon
<1>5. CASE k.batch_start /\ ok
  BY <1>5, Zenon DEF send_response
<1>6. CASE k.batch_start /\ ~ ok
  <2>1. send_response(k, id, ok, info) = [k EXCEPT !.wbuf = Append(@, [n |-> k.batch_cmd, id |-> id])]
    BY <1>6 DEF send_response
  <2> QED BY <1>3, <1>6, <2>1, Zenon DEF ConnType
<1>7. CASE ~ k.batch_start /\ ok
  <2>1. send_response(k, id, ok, info) = [k EXCEPT !.out = Response(id, Len(info), info), !.wbuf = <<>>]
    BY <1>7 DEF send_response
  <2> QED BY <1>1, <1>4, <1>7, <2>1, Zenon DEF ConnType
<1>8. CASE ~ k.batch_start /\ ~ ok
  <2>1. send_response(k, id, ok, info) = [k EXCEPT !.out = Response(id, -1, <<>>), !.wbuf = <<>>]
    BY <1>8 DEF send_response
  <2> QED BY <1>1, <1>4, <1>8, <2>1, Zenon DEF ConnType
<1> QED BY <1>5, <1>6, <1>7, <1>8

LEMMA CommandFacts ==
    ASSUME StreamInv, NEW c \in Conns, ServerCommand(c)
    PROVE  \E e \in 1 .. Len(conn[c].rbuf), k \in ConnType, result \in {"ok", "error"} :
              LET o == conn[c]
                  id == o.rbuf[e].id
              IN  /\ id \in Ids /\ IsEol(o.rbuf[e]) /\ Stream(c)[e] = o.rbuf[e]
                  /\ \A a \in 1 .. e : Stream(c)[a].id = id
                  /\ conn' = [conn EXCEPT ![c] = k] /\ outcome' = [outcome EXCEPT ![id] = result]
                  /\ k.from = o.from /\ k.closed = o.closed /\ k.lost = o.lost
                  /\ k.batch_cmd <= o.batch_cmd + 1
                  /\ \/ /\ k.server = "open" /\ k.to = o.to
                        /\ k.rbuf = SubSeq(o.rbuf, e + 1, Len(o.rbuf))
                     \/ /\ k.server = "closed" /\ k.rbuf = <<>> /\ k.to = <<>>
                        /\ k.out = <<>> /\ k.wbuf = <<>>
                  /\ last_update_stamp' \in Nat
<1> DEFINE o == conn[c]
<1>1. PICK e \in 1 .. Len(o.rbuf) :
         LET id == o.rbuf[e].id
             k == Counted(Rest(c, e))
         IN  /\ id \in Ids /\ IsEol(o.rbuf[e]) /\ Stream(c)[1] = [id |-> id, part |-> 1]
             /\ \A j \in 1 .. e : Stream(c)[j].id = id
             /\ Stream(c)[e] = o.rbuf[e]
             /\ \/ Kind(id) = "update" /\ HandleUpdate(c, id, k)
                \/ /\ \/ Kind(id) = "stats" /\ ~ k.batch_start /\ HandleStats(c, id, k)
                      \/ Kind(id) = "batch" /\ ~ k.batch_start /\ BatchStart(c, id, k)
                      \/ Kind(id) = "dot" /\ k.batch_start /\ BatchDone(c, id, k)
                      \/ Kind(id) = "quit" /\ Answer(c, id, Closed(k), "ok")
                      \/ /\ ~ Allowed(Kind(id), k.batch_start)
                         /\ Answer(c, id, send_response(k, id, FALSE, <<>>), "error")
                   /\ UNCHANGED last_update_stamp
  BY CommandCases
<1> DEFINE id == o.rbuf[e].id
           k == Counted(Rest(c, e))
           Fine(r) == /\ r \in ConnType /\ r.from = o.from /\ r.closed = o.closed /\ r.lost = o.lost
                      /\ r.batch_cmd <= o.batch_cmd + 1
                      /\ \/ /\ r.server = "open" /\ r.to = o.to
                            /\ r.rbuf = SubSeq(o.rbuf, e + 1, Len(o.rbuf))
                         \/ /\ r.server = "closed" /\ r.rbuf = <<>> /\ r.to = <<>>
                            /\ r.out = <<>> /\ r.wbuf = <<>>
<1>2. Ready(c) /\ o \in ConnType /\ o.batch_cmd \in Nat
  BY StreamTypes, Zenon DEF StreamInv, ServerCommand
<1>3. k \in ConnType /\ k.rbuf = SubSeq(o.rbuf, e + 1, Len(o.rbuf)) /\ k.to = o.to
      /\ k.from = o.from /\ k.out = <<>> /\ k.wbuf = o.wbuf /\ k.server = "open"
      /\ k.closed = o.closed /\ k.lost = o.lost /\ k.batch_start = o.batch_start
      /\ k.batch_cmd <= o.batch_cmd + 1 /\ k.batch_cmd \in Nat
  <2>1. k \in ConnType /\ k.rbuf = SubSeq(o.rbuf, e + 1, Len(o.rbuf)) /\ k.to = o.to
        /\ k.from = o.from /\ k.out = <<>> /\ k.wbuf = o.wbuf /\ k.server = "open"
        /\ k.closed = o.closed /\ k.lost = o.lost /\ k.batch_start = o.batch_start
        /\ k.batch_cmd = (IF o.batch_start THEN o.batch_cmd + 1 ELSE o.batch_cmd)
    BY <1>2, RestTypes
  <2> HIDE DEF k
  <2>2. k.batch_cmd \in Nat
    BY <2>1, ConnIs, Zenon
  <2> QED BY <1>2, <2>1, <2>2
<1>4. id \in Ids /\ IsEol(o.rbuf[e]) /\ Stream(c)[e] = o.rbuf[e]
  BY <1>1
<1>18. \A a \in 1 .. e : Stream(c)[a].id = id
  BY <1>1
<1>5. \/ Kind(id) = "update" /\ HandleUpdate(c, id, k)
      \/ /\ \/ Kind(id) = "stats" /\ ~ k.batch_start /\ HandleStats(c, id, k)
            \/ Kind(id) = "batch" /\ ~ k.batch_start /\ BatchStart(c, id, k)
            \/ Kind(id) = "dot" /\ k.batch_start /\ BatchDone(c, id, k)
            \/ Kind(id) = "quit" /\ Answer(c, id, Closed(k), "ok")
            \/ /\ ~ Allowed(Kind(id), k.batch_start)
               /\ Answer(c, id, send_response(k, id, FALSE, <<>>), "error")
         /\ UNCHANGED last_update_stamp
  BY <1>1, Zenon
<1> HIDE DEF k, id
<1>6. Stamp(id) \in Nat /\ last_update_stamp \in Nat
  <2>1. commands[id] \in [kind : Kinds, stamp : Nat]
    BY <1>4, ElementOfSeq, Zenon DEF StreamInv, Types, HistoryTypes, Ids
  <2> QED BY <2>1 DEF StreamInv, Types, DaemonTypes, Stamp
<1>7. SUFFICES \E r \in ConnType, result \in {"ok", "error"} :
                  /\ Fine(r) /\ Answer(c, id, r, result)
                  /\ last_update_stamp' \in Nat
  BY <1>4, <1>18, Zenon DEF Answer, id
<1>8. ASSUME NEW ok \in BOOLEAN, NEW info \in Seq(InfoType)
      PROVE  Fine(send_response(k, id, ok, info))
  <2> DEFINE r == send_response(k, id, ok, info)
  <2>1. /\ r \in ConnType /\ r.rbuf = k.rbuf /\ r.to = k.to /\ r.from = k.from
        /\ r.server = k.server /\ r.closed = k.closed /\ r.lost = k.lost
        /\ r.batch_cmd = k.batch_cmd
    BY <1>3, <1>4, SendTypes, ZenonT(40)
  <2> HIDE DEF r
  <2>2. Fine(r)
    BY <1>3, <2>1
  <2> QED BY <2>2 DEF r
<1>9. <<>> \in Seq(InfoType)
  BY EmptySeq
<1>10. CASE Kind(id) = "update" /\ HandleUpdate(c, id, k)
  <2>1. CASE IsNewer(Stamp(id))
    <3>1. last_update_stamp' \in Nat
          /\ Answer(c, id, send_response(k, id, TRUE, <<>>), "ok")
      <4>1. /\ last_update_stamp' = Stamp(id)
            /\ Answer(c, id, send_response(k, id, TRUE, <<>>), "ok")
        BY <1>10, <2>1, Zenon DEF HandleUpdate
      <4> QED BY <1>6, <4>1, Zenon
    <3> HIDE DEF Fine
    <3>2. Fine(send_response(k, id, TRUE, <<>>))
      BY <1>8, <1>9, Zenon
    <3> QED BY <3>1, <3>2, Zenon DEF Fine
  <2>2. CASE ~ IsNewer(Stamp(id))
    <3>1. last_update_stamp' \in Nat
          /\ Answer(c, id, send_response(k, id, FALSE, <<>>), "error")
      BY <1>6, <1>10, <2>2, Zenon DEF HandleUpdate
    <3> HIDE DEF Fine
    <3>2. Fine(send_response(k, id, FALSE, <<>>))
      BY <1>8, <1>9, Zenon
    <3> QED BY <3>1, <3>2, Zenon DEF Fine
  <2> QED BY <2>1, <2>2
<1>11. ASSUME UNCHANGED last_update_stamp
       PROVE  last_update_stamp' \in Nat
  BY <1>6, <1>11
<1>12. CASE HandleStats(c, id, k) /\ UNCHANGED last_update_stamp
  <2> DEFINE info == [i \in 1 .. StatsLines |-> [n |-> NoNumber, id |-> id]]
  <2>1. info \in Seq(InfoType)
    BY <1>4, SizesAssumption DEF InfoType, NoNumber
  <2>2. Answer(c, id, send_response(k, id, TRUE, info), "ok")
    BY <1>12, Zenon DEF HandleStats
  <2> HIDE DEF info, Fine
  <2>3. Fine(send_response(k, id, TRUE, info))
    BY <1>8, <2>1, Zenon
  <2> QED BY <1>11, <1>12, <2>2, <2>3, Zenon DEF Fine
<1>13. CASE BatchStart(c, id, k) /\ UNCHANGED last_update_stamp
  <2> DEFINE r == send_response(k, id, TRUE, <<>>)
             q == [r EXCEPT !.batch_start = TRUE, !.batch_cmd = 0]
  <2>1. Fine(r)
    BY <1>8, <1>9, Zenon
  <2>2. Answer(c, id, q, "ok")
    BY <1>13 DEF BatchStart
  <2> HIDE DEF r
  <2>3. q \in ConnType /\ q.rbuf = r.rbuf /\ q.to = r.to /\ q.from = r.from /\ q.server = r.server
        /\ q.closed = r.closed /\ q.lost = r.lost /\ q.batch_cmd = 0 /\ q.out = r.out /\ q.wbuf = r.wbuf
    BY <2>1, Zenon DEF ConnType
  <2> HIDE DEF q
  <2>4. Fine(q)
    BY <1>2, <2>1, <2>3
  <2> HIDE DEF Fine
  <2> QED BY <1>11, <1>13, <2>2, <2>3, <2>4
<1>14. CASE BatchDone(c, id, k) /\ UNCHANGED last_update_stamp
  <2> DEFINE q == [k EXCEPT !.batch_start = FALSE, !.batch_cmd = 0]
             r == send_response(q, id, TRUE, k.wbuf)
  <2>1. q \in ConnType /\ q.rbuf = k.rbuf /\ q.to = k.to /\ q.from = k.from /\ q.server = k.server
        /\ q.closed = k.closed /\ q.lost = k.lost /\ q.batch_cmd = 0
    BY <1>3, Zenon DEF ConnType
  <2>2. k.wbuf \in Seq(InfoType)
    BY <1>3, ConnIs, Zenon
  <2>3. Answer(c, id, r, "ok")
    BY <1>14, Zenon DEF BatchDone
  <2> HIDE DEF q
  <2>4. Fine(r)
    <3>1. /\ r \in ConnType /\ r.rbuf = q.rbuf /\ r.to = q.to /\ r.from = q.from
          /\ r.server = q.server /\ r.closed = q.closed /\ r.lost = q.lost
          /\ r.batch_cmd = q.batch_cmd
      BY <1>4, <2>1, <2>2, SendTypes, Zenon
    <3> HIDE DEF r
    <3> QED BY <1>2, <1>3, <2>1, <3>1
  <2> HIDE DEF Fine, r
  <2> QED BY <1>11, <1>14, <2>3, <2>4 DEF Fine
<1>15. CASE Answer(c, id, Closed(k), "ok") /\ UNCHANGED last_update_stamp
  <2>1. k.from \in Seq(LineType)
    BY <1>3, ConnIs, Zenon
  <2>2. Fine(Closed(k))
    <3> DEFINE r == Closed(k)
    <3>1. /\ r \in ConnType /\ r.from = k.from /\ r.closed = k.closed /\ r.lost = k.lost
          /\ r.batch_cmd = 0 /\ r.server = "closed" /\ r.rbuf = <<>> /\ r.to = <<>>
          /\ r.out = <<>> /\ r.wbuf = <<>>
      BY <1>3, <2>1, ClosedConn, Zenon
    <3> HIDE DEF r
    <3>2. Fine(r)
      BY <1>2, <1>3, <3>1
    <3> QED BY <3>2 DEF r
  <2> HIDE DEF Fine
  <2> QED BY <1>11, <1>15, <2>2 DEF Fine
<1>16. CASE /\ Answer(c, id, send_response(k, id, FALSE, <<>>), "error")
            /\ UNCHANGED last_update_stamp
  <2> HIDE DEF Fine
  <2>1. Fine(send_response(k, id, FALSE, <<>>))
    BY <1>8, <1>9
  <2> QED BY <1>11, <1>16, <2>1, Zenon DEF Fine
<1> QED BY <1>5, <1>10, <1>12, <1>13, <1>14, <1>15, <1>16, Zenon

LEMMA CommandStep ==
    ASSUME StreamInv, NEW c \in Conns, ServerCommand(c)
    PROVE  StreamInv'
<1> DEFINE o == conn[c]
           s == Stream(c)
<1>0. /\ Types /\ Locked /\ Bounded /\ CountBounded /\ CallShape /\ Streams /\ NotYetSent
      /\ SentHere /\ Continues /\ Unfinished /\ EndsWhole /\ CommandsArriveWhole
      /\ UNCHANGED <<lock, sd, pc, call, unsent, answer, answers, running, commands, losses>>
      /\ o.server = "open" /\ o.out = <<>>
  BY Zenon DEF StreamInv, ServerCommand, daemonOnly, clientVars, Ready
<1>1. PICK e \in 1 .. Len(o.rbuf), k \in ConnType, result \in {"ok", "error"} :
         /\ o.rbuf[e].id \in Ids /\ IsEol(o.rbuf[e]) /\ s[e] = o.rbuf[e]
         /\ \A a \in 1 .. e : s[a].id = o.rbuf[e].id
         /\ conn' = [conn EXCEPT ![c] = k] /\ outcome' = [outcome EXCEPT ![o.rbuf[e].id] = result]
         /\ k.from = o.from /\ k.closed = o.closed /\ k.lost = o.lost
         /\ k.batch_cmd <= o.batch_cmd + 1
         /\ \/ /\ k.server = "open" /\ k.to = o.to
               /\ k.rbuf = SubSeq(o.rbuf, e + 1, Len(o.rbuf))
            \/ /\ k.server = "closed" /\ k.rbuf = <<>> /\ k.to = <<>>
               /\ k.out = <<>> /\ k.wbuf = <<>>
         /\ last_update_stamp' \in Nat
  BY CommandFacts, Zenon
<1> DEFINE id == o.rbuf[e].id
<1>2. /\ o \in ConnType /\ o.rbuf \in Seq(UnitType) /\ o.to \in Seq(UnitType)
      /\ Len(o.rbuf) \in Nat /\ Len(o.to) \in Nat /\ o.batch_cmd \in Nat
      /\ s \in Seq(UnitType) /\ Len(s) = Len(o.rbuf) + Len(o.to) /\ Len(s) \in Nat
      /\ \A i \in 1 .. Len(s) : s[i] = IF i <= Len(o.rbuf) THEN o.rbuf[i] ELSE o.to[i - Len(o.rbuf)]
  BY <1>0, StreamTypes, ConnIs, Zenon
<1>3. /\ e \in 1 .. Len(s) /\ id \in Ids /\ IsEol(s[e]) /\ s[e].id = id
      /\ Whole(s) /\ Once(s) /\ Len(s) \in Nat /\ e \in Nat /\ e <= Len(s)
  <2>1. Whole(s) /\ Once(s)
    BY <1>0 DEF Streams
  <2>2. e \in 1 .. Len(s)
    <3>1. Len(s) = Len(o.rbuf) + Len(o.to) /\ Len(o.rbuf) \in Nat /\ Len(o.to) \in Nat
      BY <1>2
    <3>2. e \in 1 .. Len(o.rbuf)
      BY <1>1
    <3>3. \A m, n \in Nat : \A x \in 1 .. m : x \in 1 .. m + n
      OBVIOUS
    <3>4. e \in 1 .. Len(o.rbuf) + Len(o.to)
      BY <3>1, <3>2, <3>3, Zenon
    <3> QED BY <3>1, <3>4, Zenon
  <2>3. id \in Ids /\ s[e] = o.rbuf[e] /\ IsEol(o.rbuf[e])
    BY <1>1
  <2>4. Len(s) \in Nat
    BY <1>2, Zenon
  <2> HIDE DEF s, o
  <2> QED BY <2>1, <2>2, <2>3, <2>4
<1>4. Has(c, id) /\ outcome[id] = "none" /\ \A d \in Conns \ {c} : ~ Has(d, id)
  <2>1. Has(c, id)
    BY <1>3 DEF Has
  <2> QED BY <1>0, <1>3, <2>1 DEF Streams
<1>5. /\ conn'[c] = k /\ \A d \in Conns \ {c} : conn'[d] = conn[d]
      /\ conn' \in [Conns -> ConnType'] /\ (ConnBounded(k) => Bounded')
      /\ Stream(c)' = k.rbuf \o k.to
  BY <1>0, <1>1, OneConn, Zenon
<1>6. /\ outcome' = [outcome EXCEPT ![id] = result] /\ DOMAIN outcome = Ids /\ DOMAIN outcome' = Ids
      /\ outcome'[id] = result /\ \A i \in Ids : i # id => outcome'[i] = outcome[i]
      /\ outcome' \in Seq({"none", "ok", "error", "garbled"}) /\ Len(outcome') = Len(outcome)
  <2> DEFINE O == {"none", "ok", "error", "garbled"}
  <2>1. outcome \in Seq(O) /\ Len(outcome) = Len(commands) /\ Len(commands) \in Nat /\ result \in O
    BY <1>0 DEF Types, HistoryTypes
  <2>2. outcome' = [outcome EXCEPT ![id] = result] /\ id \in 1 .. Len(outcome)
    BY <1>1, <1>3, <2>1 DEF Ids
  <2> HIDE DEF O, id
  <2>3. /\ outcome' \in Seq(O) /\ Len(outcome') = Len(outcome)
        /\ \A j \in 1 .. Len(outcome) : outcome'[j] = IF j = id THEN result ELSE outcome[j]
    BY <2>1, <2>2, ExceptSeq
  <2> QED BY <2>1, <2>2, <2>3, LenProperties DEF Ids, O
<1> HIDE DEF id, s
\* What is left of the stream.
<1>7. /\ Stream(c)' \in Seq(UnitType) /\ Whole(Stream(c)') /\ Once(Stream(c)')
      /\ \A i \in Ids : Has(c, i)' => Has(c, i) /\ i # id
      /\ k.server = "open" => /\ Len(Stream(c)') = Len(s) - e
                              /\ \A i \in 1 .. Len(s) - e : Stream(c)'[i] = s[e + i]
      /\ k.server # "open" => Stream(c)' = <<>>
  <2> DEFINE r == Stream(c)'
  <2>1. r \in Seq(UnitType) /\ r = k.rbuf \o k.to
    BY <1>5, ConnIs, Zenon
  <2>2. CASE k.server = "open"
    <3>1. k.to = o.to /\ k.rbuf = SubSeq(o.rbuf, e + 1, Len(o.rbuf))
      BY <1>1, <2>2, Zenon
    <3>2. /\ k.rbuf \in Seq(UnitType) /\ Len(k.rbuf) = Len(o.rbuf) - e
          /\ \A i \in 1 .. Len(o.rbuf) - e : k.rbuf[i] = o.rbuf[e + i]
      BY <3>1, RestTypes, Zenon DEF ServerCommand
    <3>3. /\ Len(r) = Len(k.rbuf) + Len(o.to)
          /\ \A i \in 1 .. Len(k.rbuf) + Len(o.to) :
                r[i] = IF i <= Len(k.rbuf) THEN k.rbuf[i] ELSE o.to[i - Len(k.rbuf)]
      <4>1. /\ Len(k.rbuf \o o.to) = Len(k.rbuf) + Len(o.to)
            /\ \A i \in 1 .. Len(k.rbuf) + Len(o.to) :
                  (k.rbuf \o o.to)[i] = IF i <= Len(k.rbuf) THEN k.rbuf[i] ELSE o.to[i - Len(k.rbuf)]
        <5>1. \A x, y \in Seq(UnitType) :
                 /\ Len(x \o y) = Len(x) + Len(y)
                 /\ \A i \in 1 .. Len(x) + Len(y) :
                       (x \o y)[i] = IF i <= Len(x) THEN x[i] ELSE y[i - Len(x)]
          BY ConcatProperties
        <5> HIDE DEF o
        <5> QED BY <1>2, <3>2, <5>1, Zenon
      <4> QED BY <2>1, <3>1, <4>1, Zenon
    <3> DEFINE m == Len(o.rbuf)
               n == Len(o.to)
               b == o.rbuf
               a == o.to
    <3>4. m \in Nat /\ n \in Nat /\ e \in 1 .. m /\ Len(s) = m + n
          /\ \A i \in 1 .. m + n : s[i] = IF i <= m THEN b[i] ELSE a[i - m]
      BY <1>2, Zenon
    <3>5. /\ Len(r) = (m - e) + n
          /\ \A i \in 1 .. (m - e) + n : r[i] = IF i <= m - e THEN b[e + i] ELSE a[i - (m - e)]
      <4>1. \A i \in 1 .. m - e : k.rbuf[i] = b[e + i]
        BY <3>2
      <4>2. Len(k.rbuf) = m - e
        BY <3>2
      <4>3. /\ Len(r) = (m - e) + n
            /\ \A i \in 1 .. (m - e) + n : r[i] = IF i <= m - e THEN k.rbuf[i] ELSE a[i - (m - e)]
        BY <3>3, <4>2, Zenon
      <4> HIDE DEF m, n, a, b, r
      <4> QED BY <3>4, <4>1, <4>3, SMTT(30)
    <3> HIDE DEF m, n, a, b, r, o
    <3>6. Len(r) = Len(s) - e
      BY <3>4, <3>5
    <3>7. ASSUME NEW i \in 1 .. Len(s) - e PROVE r[i] = s[e + i]
      <4>1. i \in 1 .. (m - e) + n /\ e + i \in 1 .. m + n
        BY <3>4
      <4>2. CASE i <= m - e
        BY <3>4, <3>5, <4>1, <4>2
      <4>3. CASE ~ (i <= m - e)
        <5>1. ~ (e + i <= m) /\ (e + i) - m = i - (m - e)
          BY <3>4, <4>1, <4>3
        <5> QED BY <3>4, <3>5, <4>1, <4>3, <5>1, Zenon
      <4> QED BY <4>2, <4>3
    <3>8. Whole(r) /\ Once(r) /\ \A i \in 1 .. Len(r) : r[i].id # id
      <4>1. Whole(r) /\ Once(r) /\ \A i \in 1 .. Len(r) : r[i].id # s[e].id
        BY <1>0, <1>2, <1>3, <2>1, <3>6, <3>7, SuffixWhole, Zenon
      <4> QED BY <1>3, <4>1
    <3>9. \A i \in Ids : Has(c, i)' => Has(c, i) /\ i # id
      <4> SUFFICES ASSUME NEW i \in Ids, NEW j \in 1 .. Len(r), r[j].id = i PROVE Has(c, i) /\ i # id
        BY DEF Has, r
      <4>1. e + j \in 1 .. Len(s) /\ r[j] = s[e + j]
        <5>1. j \in 1 .. Len(s) - e /\ Len(s) \in Nat /\ e \in Nat /\ e <= Len(s)
          BY <1>3, <3>6
        <5> QED BY <3>7, <5>1
      <4> QED BY <3>8, <4>1 DEF Has, s
    <3> QED BY <2>1, <2>2, <3>6, <3>7, <3>8, <3>9, Zenon DEF r
  <2>3. CASE k.server # "open"
    <3>1. r = <<>> /\ Len(r) = 0
      BY <1>1, <2>1, <2>3, ConcatEmptySeq, EmptySeq, Zenon
    <3>2. Whole(r) /\ Once(r)
      BY <3>1 DEF Whole, Once
    <3> QED BY <2>1, <2>3, <3>1, <3>2 DEF Has
  <2> QED BY <2>2, <2>3
<1>8. \A d \in Conns \ {c} : Stream(d)' = Stream(d) /\ (Broken(d)' <=> Broken(d))
  BY <1>5, Zenon DEF Stream, Broken
<1>9. \A d \in Conns : \A i \in Ids : Has(d, i)' => Has(d, i) /\ i # id
  <2> SUFFICES ASSUME NEW d \in Conns \ {c}, NEW i \in Ids, Has(d, i)' PROVE Has(d, i) /\ i # id
    BY <1>7
  <2>1. Has(d, i)
    BY <1>8 DEF Has
  <2> QED BY <1>4, <2>1
<1>10. Types'
  BY <1>0, <1>1, <1>5, <1>6, SameTypes DEF Types, ClientTypes, HistoryTypes, DaemonTypes
<1>11. Bounded'
  <2>1. ConnBounded(o)
    BY <1>0 DEF Bounded
  <2>2. CASE k.server = "open"
    <3>1. Len(k.rbuf) = Len(o.rbuf) - e
      BY <1>1, <2>2, RestTypes, Zenon DEF ServerCommand
    <3>2. Len(k.rbuf) <= Len(o.rbuf)
      BY <1>2, <3>1
    <3>3. Len(k.rbuf) \in Nat
      BY ConnIs
    <3>4. /\ Len(o.rbuf) <= RBUF_SIZE /\ Len(o.to) <= MaxToDaemon /\ Len(o.from) <= MaxToClient
          /\ RBUF_SIZE \in Nat
      BY <2>1, SizesAssumption DEF ConnBounded
    <3>5. k.to = o.to /\ k.from = o.from
      BY <1>1, <2>2
    <3>6. ConnBounded(k)
      <4>1. Len(k.rbuf) <= RBUF_SIZE
        BY <1>2, <3>2, <3>3, <3>4
      <4>2. Len(k.to) <= MaxToDaemon /\ Len(k.from) <= MaxToClient
        BY <3>4, <3>5
      <4> QED BY <2>2, <4>1, <4>2 DEF ConnBounded
    <3> QED BY <1>5, <3>6
  <2>3. CASE k.server # "open"
    <3>1. Len(k.rbuf) = 0 /\ Len(k.to) = 0
      BY <1>1, <2>3, EmptySeq
    <3> QED BY <1>1, <1>5, <2>1, <2>3, <3>1, SizesAssumption DEF ConnBounded
  <2> QED BY <2>2, <2>3
<1>12. Locked'
  <2>1. k.server # "unused"
    BY <1>1
  <2>2. \A d \in Conns : conn'[d].server = "unused" => conn'[d] = Unused
    BY <1>0, <1>5, <2>1 DEF Locked
  <2>3. sd # 0 => conn'[sd].server # "unused" /\ ~ conn'[sd].closed
    BY <1>0, <1>1, <1>5, <2>1 DEF Locked, Types, ClientTypes
  <2> QED BY <1>0, <2>2, <2>3 DEF Locked, Conns, Unused
<1>13. CountBounded'
  <2>1. HandledIds' = HandledIds \cup {id} /\ id \notin HandledIds
    BY <1>0, <1>1, <1>3, <1>4, <1>6 DEF HandledIds, Ids
  <2>2. Cardinality(HandledIds') = Cardinality(HandledIds) + 1 /\ Cardinality(HandledIds) \in Nat
    BY <1>0, <2>1, HandledFinite, FS_AddElement, Zenon DEF Types
  <2>3. ASSUME NEW d \in Conns PROVE conn'[d].batch_cmd <= Cardinality(HandledIds')
    <3>1. conn[d].batch_cmd \in Nat /\ conn[d].batch_cmd <= Cardinality(HandledIds)
      BY <1>0, StreamTypes, Zenon DEF CountBounded
    <3>2. k.batch_cmd \in Nat
      BY ConnIs, Zenon
    <3>3. CASE d = c
      BY <1>1, <1>5, <2>2, <3>1, <3>2, <3>3
    <3>4. CASE d # c
      BY <1>5, <2>2, <3>1, <3>4
    <3> QED BY <3>3, <3>4
  <2> QED BY <2>3 DEF CountBounded, Conns
<1>14. CallShape'
  BY <1>0 DEF CallShape, Kind
<1>15. Streams'
  <2>1. \A d \in Conns : Whole(Stream(d)') /\ Once(Stream(d)')
    BY <1>0, <1>7, <1>8 DEF Streams
  <2>2. \A d \in Conns : Whole(Stream(d))' /\ Once(Stream(d))'
    BY <1>0, <2>1, WholeAgain
  <2>3. \A d \in Conns : \A i \in Ids : Has(d, i)' => outcome'[i] = "none"
    BY <1>0, <1>6, <1>9 DEF Streams
  <2>4. \A a, d \in Conns : a # d => \A i \in Ids : ~ (Has(a, i)' /\ Has(d, i)')
    BY <1>0, <1>9 DEF Streams
  <2> QED BY <1>0, <2>2, <2>3, <2>4 DEF Streams, Conns, Ids
<1>16. \A t \in Threads : \A i \in DOMAIN call[t] : call[t][i] \in Ids
  BY <1>0, CallTypes
<1>17. NotYetSent'
  <2> SUFFICES ASSUME NEW t \in Threads, pc[t] \in {"connect", "request"}, NEW i \in DOMAIN call[t]
               PROVE  outcome'[call[t][i]] = "none" /\ \A d \in Conns : ~ Has(d, call[t][i])'
    BY <1>0 DEF NotYetSent, Conns
  <2>1. outcome[call[t][i]] = "none" /\ \A d \in Conns : ~ Has(d, call[t][i])
    BY <1>0 DEF NotYetSent
  <2>2. call[t][i] # id
    BY <1>4, <2>1
  <2>3. \A d \in Conns : ~ Has(d, call[t][i])'
    BY <1>0, <1>9, <1>16, <2>1
  <2> QED BY <1>6, <1>16, <2>1, <2>2, <2>3
<1>18. SentHere'
  <2> SUFFICES ASSUME NEW t \in Threads, pc[t] \in {"write", "read"}, NEW i \in DOMAIN call[t],
                      NEW d \in Conns, d # sd
               PROVE  ~ Has(d, call[t][i])'
    BY <1>0 DEF SentHere, Conns
  <2>1. ~ Has(d, call[t][i])
    BY <1>0 DEF SentHere
  <2> QED BY <1>0, <1>9, <1>16, <2>1
<1>19. Unfinished'
  <2> SUFFICES ASSUME NEW t \in Threads, pc[t] = "write", NEW i \in 1 .. Len(Stream(sd)'),
                      Stream(sd)'[i].id = call[t][unsent[t].cmd]
               PROVE  Stream(sd)'[i].part < unsent[t].part
    BY <1>0 DEF Unfinished
  <2>1. sd \in Conns
    BY <1>0, Holder, Zenon
  <2>2. CASE sd = c
    <3>1. Stream(sd)' = Stream(c)' /\ Stream(sd) = s
      BY <1>0, <2>2 DEF Stream, s
    <3>2. k.server = "open"
      BY <1>7, <3>1, EmptySeq
    <3>3. e + i \in 1 .. Len(s) /\ Stream(c)'[i] = s[e + i]
      <4>1. Len(Stream(c)') = Len(s) - e
        BY <1>7, <3>2
      <4>2. i \in 1 .. Len(s) - e /\ Len(s) \in Nat /\ e \in Nat /\ e <= Len(s)
        BY <1>3, <3>1, <4>1
      <4>3. Stream(c)'[i] = s[e + i]
        BY <1>7, <3>2, <4>2
      <4> QED BY <4>2, <4>3
    <3> QED BY <1>0, <3>1, <3>3 DEF Unfinished
  <2>3. CASE sd # c
    <3>1. Stream(sd)' = Stream(sd)
      BY <1>0, <1>5, <2>1, <2>3, Zenon DEF Stream
    <3> QED BY <1>0, <3>1 DEF Unfinished
  <2> QED BY <2>2, <2>3
\* The command is not one that its thread still writes.
<1>20. \A t \in Threads : pc[t] = "write" =>
          \A i \in DOMAIN call[t] : unsent[t].cmd <= i => call[t][i] # id
  <2> SUFFICES ASSUME NEW t \in Threads, pc[t] = "write", NEW i \in DOMAIN call[t],
                      unsent[t].cmd <= i, call[t][i] = id
               PROVE  FALSE
    OBVIOUS
  <2>1. sd = c
    BY <1>0, <1>4 DEF SentHere
  <2>2. s = Stream(sd)
    BY <2>1 DEF s
  <2>3. /\ unsent[t].cmd \in DOMAIN call[t] /\ unsent[t].part \in 1 .. Size[Kind(call[t][unsent[t].cmd])]
        /\ unsent[t].cmd < i => ~ Has(sd, call[t][i])
    BY <1>0, Zenon DEF Continues
  <2>4. unsent[t].cmd = i
    <3>1. DOMAIN call[t] = 1 .. Len(call[t])
      BY <1>0, CallTypes
    <3> QED BY <1>4, <2>1, <2>3, <3>1
  <2>5. s[e].part < unsent[t].part
    BY <1>0, <1>3, <2>2, <2>4 DEF Unfinished
  <2>6. s[e].part = Size[Kind(id)] /\ Size[Kind(id)] \in Nat
    BY <1>0, <1>3, SizePositive DEF IsEol
  <2> QED BY <2>3, <2>4, <2>5, <2>6
\* What is left of the stream of a connection ends as it did before.
<1>21. ASSUME sd \in Conns, ~ Broken(sd)'
       PROVE  /\ ~ Broken(sd)
              /\ Stream(sd)' # <<>> =>
                    Stream(sd) # <<>> /\ Stream(sd)'[Len(Stream(sd)')] = Stream(sd)[Len(Stream(sd))]
              /\ \/ Stream(sd)' = <<>> /\ sd = c /\ e = Len(s)
                 \/ Stream(sd)' # <<>>
                 \/ Stream(sd)' = Stream(sd)
  <2>1. CASE sd = c
    <3>1. k.server = "open" /\ ~ Broken(sd)
      BY <1>0, <1>1, <1>5, <1>21, <2>1 DEF Broken
    <3>2. Stream(sd)' = Stream(c)' /\ Stream(sd) = s
      BY <1>0, <2>1 DEF Stream, s
    <3>3. /\ Len(Stream(c)') = Len(s) - e /\ Stream(c)' \in Seq(UnitType)
          /\ \A i \in 1 .. Len(s) - e : Stream(c)'[i] = s[e + i]
      BY <1>7, <3>1
    <3>4. ASSUME Stream(c)' # <<>> PROVE s # <<>> /\ Stream(c)'[Len(Stream(c)')] = s[Len(s)]
      <4>1. Len(Stream(c)') > 0
        BY <3>3, <3>4, EmptySeq, LenProperties
      <4>2. Len(s) - e \in 1 .. Len(s) - e /\ e + (Len(s) - e) = Len(s) /\ Len(s) > 0
        BY <1>3, <3>3, <4>1
      <4>3. s # <<>>
        BY <4>2, EmptySeq
      <4> QED BY <3>3, <4>2, <4>3
    <3>5. ASSUME Stream(c)' = <<>> PROVE e = Len(s)
      <4>1. Len(Stream(c)') = 0
        BY <3>5, EmptySeq
      <4> QED BY <1>3, <3>3, <4>1
    <3> QED BY <2>1, <3>1, <3>2, <3>4, <3>5
  <2>2. CASE sd # c
    <3>1. Stream(sd)' = Stream(sd) /\ (Broken(sd)' <=> Broken(sd))
      BY <1>0, <1>5, <1>21, <2>2, Zenon DEF Stream, Broken
    <3> QED BY <1>21, <3>1
  <2> QED BY <2>1, <2>2
<1>22. Continues'
  <2> SUFFICES ASSUME NEW t \in Threads, pc[t] = "write"
               PROVE  /\ unsent[t].cmd \in DOMAIN call[t]
                      /\ unsent[t].part \in 1 .. Size[Kind(call[t][unsent[t].cmd])]
                      /\ \A i \in DOMAIN call[t] : unsent[t].cmd <= i => outcome'[call[t][i]] = "none"
                      /\ \A i \in DOMAIN call[t] :
                            unsent[t].cmd < i \/ (unsent[t].cmd = i /\ unsent[t].part = 1)
                              => ~ Has(sd, call[t][i])'
                      /\ ~ Broken(sd)' =>
                            IF unsent[t].part = 1
                            THEN Stream(sd)' # <<>> => IsEol(Stream(sd)'[Len(Stream(sd)')])
                            ELSE /\ Stream(sd)' # <<>>
                                 /\ Stream(sd)'[Len(Stream(sd)')] =
                                       [id |-> call[t][unsent[t].cmd], part |-> unsent[t].part - 1]
    BY <1>0 DEF Continues, Kind, IsEol
  <2>1. sd \in Conns
    BY <1>0, Holder, Zenon
  <2>2. /\ unsent[t].cmd \in DOMAIN call[t]
        /\ unsent[t].part \in 1 .. Size[Kind(call[t][unsent[t].cmd])]
        /\ \A i \in DOMAIN call[t] : unsent[t].cmd <= i => outcome[call[t][i]] = "none"
        /\ \A i \in DOMAIN call[t] :
              unsent[t].cmd < i \/ (unsent[t].cmd = i /\ unsent[t].part = 1) => ~ Has(sd, call[t][i])
        /\ ~ Broken(sd) =>
              IF unsent[t].part = 1 THEN Stream(sd) # <<>> => IsEol(Stream(sd)[Len(Stream(sd))])
              ELSE /\ Stream(sd) # <<>>
                   /\ Stream(sd)[Len(Stream(sd))] =
                         [id |-> call[t][unsent[t].cmd], part |-> unsent[t].part - 1]
    BY <1>0 DEF Continues
  <2>3. \A i \in DOMAIN call[t] : unsent[t].cmd <= i => outcome'[call[t][i]] = "none"
    BY <1>6, <1>16, <1>20, <2>2
  <2>4. \A i \in DOMAIN call[t] :
           unsent[t].cmd < i \/ (unsent[t].cmd = i /\ unsent[t].part = 1) => ~ Has(sd, call[t][i])'
    <3>1. \A i \in DOMAIN call[t] : Has(sd, call[t][i])' => Has(sd, call[t][i])
      BY <1>0, <1>9, <1>16, <2>1 DEF Has
    <3> QED BY <2>2, <3>1
  <2>5. ASSUME ~ Broken(sd)', unsent[t].part # 1 PROVE Stream(sd)' # <<>>
    <3> SUFFICES ASSUME Stream(sd)' = <<>> PROVE FALSE
      OBVIOUS
    <3>1. /\ Stream(sd) # <<>>
          /\ Stream(sd)[Len(Stream(sd))] =
                [id |-> call[t][unsent[t].cmd], part |-> unsent[t].part - 1]
      BY <1>21, <2>1, <2>2, <2>5
    <3>2. sd = c /\ e = Len(s)
      BY <1>21, <2>1, <2>5, <3>1
    <3>3. Stream(sd) = s
      BY <3>2 DEF s
    <3>4. id = call[t][unsent[t].cmd]
      <4>1. s[e] = [id |-> call[t][unsent[t].cmd], part |-> unsent[t].part - 1]
        BY <3>1, <3>2, <3>3
      <4> QED BY <1>3, <4>1
    <3>5. unsent[t].cmd \in Nat
      BY <1>0 DEF Types, ClientTypes
    <3> QED BY <1>20, <2>2, <3>4, <3>5
  <2>6. ~ Broken(sd)' =>
          IF unsent[t].part = 1
          THEN Stream(sd)' # <<>> => IsEol(Stream(sd)'[Len(Stream(sd)')])
          ELSE /\ Stream(sd)' # <<>>
               /\ Stream(sd)'[Len(Stream(sd)')] =
                     [id |-> call[t][unsent[t].cmd], part |-> unsent[t].part - 1]
    BY <1>21, <2>1, <2>2, <2>5
  <2> QED BY <2>2, <2>3, <2>4, <2>6, SMTT(30)
<1>23. EndsWhole'
  <2> SUFFICES ASSUME sd # 0, lock # NoThread => pc[lock] = "read", ~ Broken(sd)', Stream(sd)' # <<>>
               PROVE  IsEol(Stream(sd)'[Len(Stream(sd)')])
    BY <1>0 DEF EndsWhole, IsEol, Kind
  <2>1. sd \in Conns
    BY <1>0 DEF Types, ClientTypes
  <2> QED BY <1>0, <1>21, <2>1 DEF EndsWhole
<1>24. CommandsArriveWhole'
  <2>1. \A i \in Ids : outcome'[i] # "garbled"
    BY <1>0, <1>1, <1>6 DEF CommandsArriveWhole
  <2> QED BY <1>6, <2>1 DEF CommandsArriveWhole
<1> QED
  BY <1>10, <1>11, <1>12, <1>13, <1>14, <1>15, <1>17, <1>18, <1>19, <1>22, <1>23, <1>24 DEF StreamInv

-----------------------------------------------------------------------------
(* Together.                                                               *)

LEMMA InitStream == Init => StreamInv
<1> SUFFICES ASSUME Init PROVE StreamInv
  OBVIOUS
<1>1. Types
  BY InitTypes
<1>2. \A c \in Conns : conn[c] = Unused
  BY DEF Init
<1>3. \A c \in Conns : Stream(c) = <<>> /\ Len(Stream(c)) = 0
  <2>1. <<>> \o <<>> = <<>> /\ Len(<<>>) = 0
    <3>1. <<>> \in Seq(Nat)
      BY EmptySeq
    <3> QED BY <3>1, ConcatEmptySeq, EmptySeq
  <2>2. Unused.rbuf = <<>> /\ Unused.to = <<>>
    BY DEF Unused
  <2> QED BY <1>2, <2>1, <2>2, Zenon DEF Stream
<1>4. \A c \in Conns, id \in Ids : ~ Has(c, id)
  BY <1>3 DEF Has
<1>5. Locked
  BY <1>2, ThreadsAssumption DEF Init, Locked
<1>6. Bounded
  <2>1. Len(<<>>) = 0
    BY EmptySeq
  <2> QED BY <1>2, <2>1, SizesAssumption DEF Bounded, ConnBounded, Unused
<1>7. CountBounded
  BY <1>1, <1>2, HandledFinite DEF CountBounded, Unused, Types
<1>8. CallShape /\ NotYetSent /\ SentHere /\ Continues /\ Unfinished
  <2>1. \A t \in Threads : pc[t] = "idle" /\ call[t] = <<>> /\ DOMAIN call[t] = {}
    BY DEF Init
  <2> QED BY <2>1 DEF CallShape, NotYetSent, SentHere, Continues, Unfinished
<1>9. Streams
  <2>1. \A c \in Conns : Whole(Stream(c)) /\ Once(Stream(c))
    BY <1>3 DEF Whole, Once
  <2> QED BY <1>4, <2>1 DEF Streams
<1>10. EndsWhole /\ CommandsArriveWhole
  BY DEF Init, EndsWhole, CommandsArriveWhole
<1> QED BY <1>1, <1>5, <1>6, <1>7, <1>8, <1>9, <1>10 DEF StreamInv

LEMMA StreamStutters == StreamInv /\ UNCHANGED vars => StreamInv'
<1> SUFFICES ASSUME StreamInv, UNCHANGED vars PROVE StreamInv'
  OBVIOUS
<1> USE DEF vars, clientVars
<1>1. Types'
  BY SameTypes DEF StreamInv, Types, ClientTypes, HistoryTypes, DaemonTypes, Conns
<1>2. Locked' /\ Bounded' /\ CommandsArriveWhole'
  BY DEF StreamInv, Locked, Bounded, ConnBounded, CommandsArriveWhole, Conns, Unused
<1>3. CountBounded' /\ CallShape'
  BY DEF StreamInv, CountBounded, HandledIds, Ids, CallShape, Kind, Conns
<1>4. /\ \A c : Stream(c)' = Stream(c) /\ (Broken(c)' <=> Broken(c))
      /\ \A c, id : Has(c, id)' <=> Has(c, id)
      /\ \A u : (IsEol(u)' <=> IsEol(u)) /\ \A id : Kind(id)' = Kind(id)
  BY DEF Stream, Broken, Has, IsEol, Kind
<1>5. Streams'
  <2>1. \A c \in Conns : Whole(Stream(c))' /\ Once(Stream(c))'
    BY <1>4, WholeAgain DEF StreamInv, Streams
  <2> QED BY <1>4, <2>1 DEF StreamInv, Streams, Ids, Conns
<1>6. NotYetSent' /\ SentHere'
  BY <1>4 DEF StreamInv, NotYetSent, SentHere, Conns
<1>7. Continues' /\ Unfinished' /\ EndsWhole'
  BY <1>4 DEF StreamInv, Continues, Unfinished, EndsWhole
<1> QED BY <1>1, <1>2, <1>3, <1>5, <1>6, <1>7 DEF StreamInv

LEMMA StreamSteps == StreamInv /\ [Next]_vars => StreamInv'
<1> SUFFICES ASSUME StreamInv, [Next]_vars PROVE StreamInv'
  OBVIOUS
<1>1. CASE UNCHANGED vars
  BY <1>1, StreamStutters
<1>2. ASSUME NEW t \in Threads, NEW shape \in Calls[t], NewCall(t, shape) PROVE StreamInv'
  BY <1>2, NewCallStep
<1>3. ASSUME NEW t \in Threads, Retry(t) PROVE StreamInv'
  BY <1>3, RetryStep
<1>4. ASSUME NEW t \in Threads, Disconnect(t) PROVE StreamInv'
  BY <1>4, DisconnectStep
<1>5. ASSUME NEW t \in Threads, Client(t) PROVE StreamInv'
  BY <1>5, ConnectStep, RequestStep, WriteStep, ReadLineStep, ReadEofStep DEF Client
<1>6. ASSUME NEW c \in Conns, Server(c) PROVE StreamInv'
  BY <1>6, ServerReadStep, ServerCloseStep, ServerWriteStep, ServerWriteFailsStep, CommandStep
     DEF Server
<1>7. ASSUME NEW c \in Conns, Lose(c) PROVE StreamInv'
  BY <1>7, LoseStep
<1>8. CASE Forget \/ Stop
  BY <1>8, StopStep
<1> QED BY <1>1, <1>2, <1>3, <1>4, <1>5, <1>6, <1>7, <1>8 DEF Next

(* The streams are what they should be in every state: commands one after  *)
(* the other, each with its units in order, none of them twice and none in *)
(* two connections (request, next_cmd).                                    *)
THEOREM StreamsAreRight == Spec => []StreamInv
<1>1. Init => StreamInv
  BY InitStream
<1>2. StreamInv /\ [Next]_vars => StreamInv'
  BY StreamSteps
<1> QED BY <1>1, <1>2, PTL DEF Spec

LEMMA StreamImpliesType == StreamInv => TypeOK
<1> SUFFICES ASSUME StreamInv PROVE TypeOK
  OBVIOUS
<1>0. Types /\ Locked /\ Bounded /\ CountBounded /\ Continues
  BY DEF StreamInv
<1>1. /\ lock \in Threads \union {NoThread} /\ sd \in {0} \union Conns
      /\ lock # NoThread => sd # 0
      /\ sd # 0 => conn[sd].server # "unused" /\ ~ conn[sd].closed
  BY <1>0 DEF Types, ClientTypes, Locked
<1>2. ASSUME NEW t \in Threads
      PROVE  /\ pc[t] \in {"idle", "connect", "request", "write", "read", "done", "failed"}
             /\ pc[t] \in {"write", "read"} <=> lock = t
             /\ pc[t] = "write" => unsent[t].cmd \in DOMAIN call[t]
                                   /\ unsent[t].part \in 1 .. Size[Kind(call[t][unsent[t].cmd])]
             /\ \A i \in DOMAIN call[t] : call[t][i] \in DOMAIN commands
  <2>1. pc[t] \in {"idle", "connect", "request", "write", "read", "done", "failed"}
    BY <1>0 DEF Types, ClientTypes
  <2>2. pc[t] \in {"write", "read"} <=> lock = t
    BY <1>0 DEF Locked
  <2>3. pc[t] = "write" => unsent[t].cmd \in DOMAIN call[t]
                           /\ unsent[t].part \in 1 .. Size[Kind(call[t][unsent[t].cmd])]
    BY <1>0, Zenon DEF Continues
  <2>4. DOMAIN commands = Ids
    BY <1>0 DEF Types, HistoryTypes, Ids
  <2> QED BY <1>0, <2>1, <2>2, <2>3, <2>4, CallTypes
<1>3. ASSUME NEW c \in Conns
      PROVE  /\ Len(conn[c].rbuf) <= RBUF_SIZE /\ Len(conn[c].to) <= MaxToDaemon
             /\ Len(conn[c].from) <= MaxToClient
             /\ conn[c].batch_start \in BOOLEAN /\ conn[c].batch_cmd \in 0 .. MaxCommands
             /\ conn[c].server # "open" =>
                   conn[c].rbuf = <<>> /\ conn[c].out = <<>> /\ conn[c].wbuf = <<>>
  <2>1. ConnBounded(conn[c])
    BY <1>0 DEF Bounded
  <2>2. conn[c].batch_start \in BOOLEAN /\ conn[c].batch_cmd \in Nat
    BY <1>0, StreamTypes, ConnIs, Zenon
  <2>3. conn[c].batch_cmd <= Cardinality(HandledIds)
    BY <1>0 DEF CountBounded
  <2>4. /\ Cardinality(HandledIds) \in Nat /\ Cardinality(HandledIds) <= Len(commands)
        /\ Len(commands) <= MaxCommands /\ Len(commands) \in Nat
    BY <1>0, HandledFinite DEF Types, HistoryTypes
  <2>5. conn[c].batch_cmd \in 0 .. MaxCommands
    BY <2>2, <2>3, <2>4, SizesAssumption
  <2> QED BY <2>1, <2>2, <2>5 DEF ConnBounded
<1> QED BY <1>1, <1>2, <1>3 DEF TypeOK

(* Only the thread that writes or reads holds the lock, it has a           *)
(* connection, and no buffer is ever longer than its size (request,        *)
(* rrdc_connect, connection_thread_main).                                  *)
THEOREM TypeCorrect == Spec => []TypeOK
<1>1. StreamInv => TypeOK
  BY StreamImpliesType
<1> QED BY <1>1, StreamsAreRight, PTL

(* However the reads and writes cut the stream, and whichever threads      *)
(* share it, next_cmd returns whole commands, one by one.                  *)
THEOREM WholeCommands == Spec => []CommandsArriveWhole
<1>1. StreamInv => CommandsArriveWhole
  BY DEF StreamInv
<1> QED BY <1>1, StreamsAreRight, PTL

-----------------------------------------------------------------------------
(* What a call may find: ids are the numbers of its commands, ks their     *)
(* kinds, os what the daemon has done with them so far.                    *)

InABatch(ks, i) ==
    \E j \in 1 .. i - 1 : ks[j] = "batch" /\ \A k \in j + 1 .. i - 1 : ks[k] # "dot"
AnsweredOf(ks) == {i \in DOMAIN ks : ks[i] # "quit" /\ (InABatch(ks, i) => ks[i] = "dot")}
UpTo(A, i) == {j \in A : j <= i}
RankIn(ks, i) == Cardinality(UpTo(AnsweredOf(ks), i))

\* The BATCH that the i-th command is in, and what is noted of the commands after it.
Opens(ks, i, start) ==
    /\ start \in 1 .. i - 1 /\ ks[start] = "batch" /\ ~ InABatch(ks, start)
    /\ \A k \in start + 1 .. i - 1 : ks[k] # "dot"
Failed(os, i, start) == {j \in start + 1 .. i - 1 : os[j] = "error"}
ErrorsOf(os, ids, i, start) == {<<j - start, ids[j]>> : j \in Failed(os, i, start)}
Noted(info, errors) ==
    /\ Len(info) = Cardinality(errors)
    /\ {<<info[l].n, info[l].id>> : l \in DOMAIN info} = errors

\* The response to the i-th command is right, and nothing can make it wrong any more.
Settled(os, i) == \A j \in 1 .. i : os[j] # "none"
RightAnswer(ks, os, ids, i, got) ==
    /\ Settled(os, i)
    /\ os[i] = "error" => got.status = -1
    /\ os[i] # "error" /\ ks[i] = "stats" =>
          got.status = StatsLines /\ \A l \in DOMAIN got.lines : got.lines[l].id = ids[i]
    /\ os[i] # "error" /\ ks[i] = "dot" =>
          \E start \in 1 .. i - 1 : /\ Opens(ks, i, start) /\ got.status = Len(got.lines)
                                   /\ Noted(got.lines, ErrorsOf(os, ids, i, start))
    /\ os[i] # "error" /\ ks[i] \notin {"stats", "dot"} => os[i] = "ok" /\ got.status = 0

\* What has been read is right.
ReadRight(ks, os, ids, got) ==
    \A i \in AnsweredOf(ks) :
        RankIn(ks, i) <= Len(got) => RightAnswer(ks, os, ids, i, got[RankIn(ks, i)])

\* Every line belongs to the right response to a command of the call.
Index(ids, line) == line.resp.id - ids[1] + 1
RightLine(ks, os, ids, line) ==
    LET r == line.resp
        i == Index(ids, line)
    IN  /\ i \in AnsweredOf(ks)
        /\ RightAnswer(ks, os, ids, i, [status |-> r.status, lines |-> r.lines])
        /\ r.status >= -1 /\ Len(r.lines) = (IF r.status < 0 THEN 0 ELSE r.status)

\* The lines of a response come together, and the responses in order.
IsLast(line) == line.part = Len(line.resp.lines)
Follows(ks, ids, line, next) ==
    IF next.part = 0
    THEN IsLast(line) /\ RankIn(ks, Index(ids, next)) = RankIn(ks, Index(ids, line)) + 1
    ELSE next.resp = line.resp /\ next.part = line.part + 1
InOrder(ks, os, ids, s) ==
    /\ \A l \in 1 .. Len(s) : RightLine(ks, os, ids, s[l])
    /\ \A l \in 1 .. Len(s) - 1 : Follows(ks, ids, s[l], s[l + 1])

\* The first line is the next one for the reader.
GoesOn(ks, ids, got, partial, s) ==
    /\ partial.status = 0 => partial = NoAnswer
    /\ partial.status # 0 => partial.status > 0 /\ Len(partial.lines) < partial.status
    /\ s # <<>> =>
          /\ RankIn(ks, Index(ids, s[1])) = Len(got) + 1
          /\ IF partial.status = 0 THEN s[1].part = 0
             ELSE /\ s[1].part = Len(partial.lines) + 1
                  /\ partial.status = s[1].resp.status
                  /\ \A l \in 1 .. Len(partial.lines) : partial.lines[l] = s[1].resp.lines[l]

\* The last one is the last one of the responses to the first p commands.
AtEnd(ks, ids, p, got, partial, s) ==
    IF s = <<>> THEN partial = NoAnswer /\ Len(got) = RankIn(ks, p)
    ELSE IsLast(s[Len(s)]) /\ RankIn(ks, Index(ids, s[Len(s)])) = RankIn(ks, p)

\* The stream goes on with the command after the p-th one, and ends where the client is.
Comes(ids, p, s, u, writing) ==
    /\ s # <<>> => p < Len(ids) /\ s[1].id = ids[p + 1]
    /\ \A i \in 1 .. Len(s) : s[i].id <= ids[Len(ids)]
    /\ \A i \in 1 .. Len(s) - 1 : s[i + 1].part = 1 => s[i + 1].id = s[i].id + 1
    /\ IF writing
       THEN IF s = <<>> THEN u.cmd = p + 1
            ELSE u.part = 1 => ids[u.cmd] = s[Len(s)].id + 1
       ELSE IF s = <<>> THEN p = Len(ids) ELSE s[Len(s)].id = ids[Len(ids)]

\* The daemon is in the batch that the command after the p-th one is in.
BatchState(ks, os, ids, p, k) ==
    IF k.batch_start
    THEN \E start \in 1 .. p : /\ Opens(ks, p + 1, start) /\ k.batch_cmd = p - start
                               /\ Noted(k.wbuf, ErrorsOf(os, ids, p + 1, start))
    ELSE ~ InABatch(ks, p + 1)

\* The daemon has handled the first p commands.
HandledUpTo(os, p) == \A i \in DOMAIN os : os[i] # "none" <=> i <= p

KindsOf(t) == [i \in DOMAIN call[t] |-> Kind(call[t][i])]
OutcomesOf(t) == [i \in DOMAIN call[t] |-> outcome[call[t][i]]]

\* The lines that the client will find.
Lines(c) == IF Broken(c) THEN conn[c].from ELSE conn[c].from \o conn[c].out
\* The daemon is going to close the connection on account of a QUIT.
Blocked == Stream(sd) # <<>> /\ Kind(Stream(sd)[1].id) = "quit"

\* What a thread has read and will find is right.
ReadsRight(t) == ReadRight(KindsOf(t), OutcomesOf(t), call[t], answers[t])
WillRead(t) ==
    /\ InOrder(KindsOf(t), OutcomesOf(t), call[t], Lines(sd))
    /\ GoesOn(KindsOf(t), call[t], answers[t], answer[t], Lines(sd))
Reading ==
    \A t \in Threads :
        /\ pc[t] \in {"connect", "request"} => answers[t] = <<>>
        /\ pc[t] \in {"write", "read"} => ReadsRight(t) /\ WillRead(t)
        /\ pc[t] = "done" => /\ ReadsRight(t)
                             /\ Len(answers[t]) = Cardinality(AnsweredOf(KindsOf(t)))

\* The daemon has handled p commands of a call, and goes on with the next one.
HasHandled(t, p, writing) ==
    /\ HandledUpTo(OutcomesOf(t), p)
    /\ Comes(call[t], p, Stream(sd), unsent[t], writing)
    /\ BatchState(KindsOf(t), OutcomesOf(t), call[t], p, conn[sd])
    /\ AtEnd(KindsOf(t), call[t], p, answers[t], answer[t], Lines(sd))
Progress ==
    \A t \in Threads : pc[t] \in {"write", "read"} /\ ~ Broken(sd) /\ ~ Blocked =>
        \E p \in 0 .. Len(call[t]) : HasHandled(t, p, pc[t] = "write")
Between ==
    sd # 0 /\ lock = NoThread =>
        /\ Lines(sd) = <<>>
        /\ ~ Broken(sd) /\ ~ Blocked => Stream(sd) = <<>> /\ ~ conn[sd].batch_start

AnswerInv == Reading /\ Progress /\ Between

LEMMA InABatchNext ==
    ASSUME NEW ks, NEW i \in Nat \ {0}
    PROVE  InABatch(ks, i + 1) <=> ks[i] = "batch" \/ (InABatch(ks, i) /\ ks[i] # "dot")
<1>1. ASSUME InABatch(ks, i + 1), ks[i] # "batch" PROVE InABatch(ks, i) /\ ks[i] # "dot"
  <2>1. PICK j \in 1 .. i : ks[j] = "batch" /\ \A k \in j + 1 .. i : ks[k] # "dot"
    BY <1>1 DEF InABatch
  <2>2. j \in 1 .. i - 1 /\ i \in j + 1 .. i
    BY <1>1, <2>1
  <2>3. \A k \in j + 1 .. i - 1 : k \in j + 1 .. i
    BY <2>2
  <2> QED BY <2>1, <2>2, <2>3 DEF InABatch
<1>2. ASSUME ks[i] = "batch" PROVE InABatch(ks, i + 1)
  <2>1. i \in 1 .. (i + 1) - 1 /\ \A k \in i + 1 .. (i + 1) - 1 : FALSE
    OBVIOUS
  <2> QED BY <1>2, <2>1 DEF InABatch
<1>3. ASSUME InABatch(ks, i), ks[i] # "dot" PROVE InABatch(ks, i + 1)
  <2>1. PICK j \in 1 .. i - 1 : ks[j] = "batch" /\ \A k \in j + 1 .. i - 1 : ks[k] # "dot"
    BY <1>3 DEF InABatch
  <2>2. j \in 1 .. (i + 1) - 1 /\ \A k \in j + 1 .. (i + 1) - 1 : k = i \/ k \in j + 1 .. i - 1
    OBVIOUS
  <2>3. \A k \in j + 1 .. (i + 1) - 1 : ks[k] # "dot"
    BY <1>3, <2>1, <2>2
  <2> QED BY <2>1, <2>2, <2>3 DEF InABatch
<1> QED BY <1>1, <1>2, <1>3

LEMMA OpensIsIn ==
    ASSUME NEW ks, NEW i \in Nat, NEW start, Opens(ks, i, start)
    PROVE  InABatch(ks, i) /\ start \in 1 .. i - 1
  BY DEF Opens, InABatch

LEMMA OpensOnce ==
    ASSUME NEW ks, NEW i \in Nat, NEW a, NEW b, Opens(ks, i, a), Opens(ks, i, b)
    PROVE  a = b
<1>1. ASSUME NEW x \in 1 .. i - 1, NEW y \in 1 .. i - 1, x < y, Opens(ks, i, x), Opens(ks, i, y)
      PROVE  FALSE
  <2>1. x \in 1 .. y - 1 /\ \A k \in x + 1 .. y - 1 : k \in x + 1 .. i - 1
    BY <1>1
  <2>2. InABatch(ks, y)
    BY <1>1, <2>1 DEF Opens, InABatch
  <2> QED BY <1>1, <2>2 DEF Opens
<1>2. a \in 1 .. i - 1 /\ b \in 1 .. i - 1
  BY DEF Opens
<1>3. ~ (a < b) /\ ~ (b < a)
  BY <1>1, <1>2
<1> QED BY <1>2, <1>3

\* The batch goes on, or begins.
LEMMA OpensNext ==
    ASSUME NEW ks, NEW p \in Nat, NEW start
    PROVE  /\ Opens(ks, p + 1, start) /\ ks[p + 1] # "dot" => Opens(ks, p + 2, start)
           /\ ks[p + 1] = "batch" /\ ~ InABatch(ks, p + 1) => Opens(ks, p + 2, p + 1)
<1>1. ASSUME Opens(ks, p + 1, start), ks[p + 1] # "dot" PROVE Opens(ks, p + 2, start)
  <2>1. start \in 1 .. p /\ start \in 1 .. (p + 2) - 1
    BY <1>1 DEF Opens
  <2>2. \A k \in start + 1 .. (p + 2) - 1 : k = p + 1 \/ k \in start + 1 .. (p + 1) - 1
    BY <2>1
  <2> QED BY <1>1, <2>1, <2>2 DEF Opens
<1>2. p + 1 \in 1 .. (p + 2) - 1 /\ (p + 1) + 1 .. (p + 2) - 1 = {}
  OBVIOUS
<1>3. ASSUME ks[p + 1] = "batch", ~ InABatch(ks, p + 1) PROVE Opens(ks, p + 2, p + 1)
  BY <1>2, <1>3 DEF Opens
<1> QED BY <1>1, <1>3

\* How many members of a set of numbers are not above p.
LEMMA Counting ==
    ASSUME NEW n \in Nat, NEW A \in SUBSET (1 .. n), NEW p \in Nat
    PROVE  /\ IsFiniteSet(UpTo(A, p)) /\ Cardinality(UpTo(A, p)) \in Nat
           /\ UpTo(A, 0) = {} /\ (n <= p => UpTo(A, p) = A)
           /\ p + 1 \in A => Cardinality(UpTo(A, p + 1)) = Cardinality(UpTo(A, p)) + 1
           /\ p + 1 \notin A => Cardinality(UpTo(A, p + 1)) = Cardinality(UpTo(A, p))
<1>1. \A j \in A : j \in Nat /\ 0 < j /\ j <= n
  OBVIOUS
<1>2. IsFiniteSet(A)
  <2>1. IsFiniteSet(1 .. n)
    BY FS_Interval
  <2> QED BY <2>1, FS_Subset, Zenon
<1>3. IsFiniteSet(UpTo(A, p)) /\ Cardinality(UpTo(A, p)) \in Nat
  <2>1. UpTo(A, p) \in SUBSET A
    BY DEF UpTo
  <2> QED BY <1>2, <2>1, FS_Subset, FS_CardinalityType
<1>4. UpTo(A, 0) = {} /\ (n <= p => UpTo(A, p) = A)
  <2>1. \A j \in A : ~ (j <= 0)
    BY <1>1
  <2>2. n <= p => \A j \in A : j <= p
    BY <1>1
  <2> QED BY <2>1, <2>2, Zenon DEF UpTo
<1>5. ASSUME p + 1 \in A PROVE Cardinality(UpTo(A, p + 1)) = Cardinality(UpTo(A, p)) + 1
  <2>1. UpTo(A, p + 1) = UpTo(A, p) \cup {p + 1} /\ p + 1 \notin UpTo(A, p)
    <3>1. \A j \in A : j <= p + 1 <=> j <= p \/ j = p + 1
      BY <1>1
    <3>2. ~ (p + 1 <= p)
      OBVIOUS
    <3> QED BY <1>5, <3>1, <3>2, Zenon DEF UpTo
  <2> QED BY <1>3, <2>1, FS_AddElement
<1>6. ASSUME p + 1 \notin A PROVE UpTo(A, p + 1) = UpTo(A, p)
  <2>1. \A j \in A : j <= p + 1 <=> j <= p
    BY <1>1, <1>6
  <2> QED BY <2>1, Zenon DEF UpTo
<1> QED BY <1>3, <1>4, <1>5, <1>6

LEMMA Ranks ==
    ASSUME NEW ks \in Seq(Kinds), NEW p \in Nat
    PROVE  /\ RankIn(ks, p) \in Nat /\ RankIn(ks, 0) = 0
           /\ p + 1 \in AnsweredOf(ks) => RankIn(ks, p + 1) = RankIn(ks, p) + 1
           /\ p + 1 \notin AnsweredOf(ks) => RankIn(ks, p + 1) = RankIn(ks, p)
           /\ Len(ks) <= p => RankIn(ks, p) = Cardinality(AnsweredOf(ks))
           /\ AnsweredOf(ks) \subseteq 1 .. Len(ks)
<1> DEFINE A == AnsweredOf(ks)
           n == Len(ks)
<1>1. A \in SUBSET (1 .. n) /\ n \in Nat
  BY DEF AnsweredOf
<1>0. \A i : RankIn(ks, i) = Cardinality(UpTo(A, i))
  BY DEF RankIn
<1> HIDE DEF A, n
<1>2. RankIn(ks, 0) = 0
  <2>1. UpTo(A, 0) = {}
    BY <1>1, Counting
  <2> QED BY <1>0, <2>1, FS_EmptySet, Zenon
<1>3. /\ RankIn(ks, p) \in Nat
      /\ p + 1 \in AnsweredOf(ks) => RankIn(ks, p + 1) = RankIn(ks, p) + 1
      /\ p + 1 \notin AnsweredOf(ks) => RankIn(ks, p + 1) = RankIn(ks, p)
      /\ Len(ks) <= p => RankIn(ks, p) = Cardinality(AnsweredOf(ks))
  <2>1. /\ Cardinality(UpTo(A, p)) \in Nat
        /\ n <= p => UpTo(A, p) = A
        /\ p + 1 \in A => Cardinality(UpTo(A, p + 1)) = Cardinality(UpTo(A, p)) + 1
        /\ p + 1 \notin A => Cardinality(UpTo(A, p + 1)) = Cardinality(UpTo(A, p))
    BY <1>1, Counting, Zenon
  <2> QED BY <1>0, <2>1 DEF A, n
<1> QED BY <1>1, <1>2, <1>3 DEF A, n

\* Whoever is answered has a rank of its own.
LEMMA RankRises ==
    ASSUME NEW ks \in Seq(Kinds), NEW i \in Nat, NEW j \in Nat, i < j
    PROVE  /\ RankIn(ks, i) <= RankIn(ks, j)
           /\ j \in AnsweredOf(ks) => RankIn(ks, i) < RankIn(ks, j)
<1> DEFINE A == AnsweredOf(ks)
           n == Len(ks)
<1>1. A \in SUBSET (1 .. n) /\ n \in Nat
  BY DEF AnsweredOf
<1> HIDE DEF A, n
<1>2. /\ IsFiniteSet(UpTo(A, i)) /\ IsFiniteSet(UpTo(A, j))
      /\ Cardinality(UpTo(A, i)) \in Nat /\ Cardinality(UpTo(A, j)) \in Nat
  BY <1>1, Counting, Zenon
<1>3. UpTo(A, i) \in SUBSET UpTo(A, j)
  <2>1. \A k \in A : k <= i => k <= j
    BY <1>1
  <2> QED BY <2>1 DEF UpTo
<1>4. Cardinality(UpTo(A, i)) <= Cardinality(UpTo(A, j))
  BY <1>2, <1>3, FS_Subset
<1>5. ASSUME j \in A PROVE Cardinality(UpTo(A, i)) < Cardinality(UpTo(A, j))
  <2>1. j \in UpTo(A, j) /\ j \notin UpTo(A, i)
    BY <1>5 DEF UpTo
  <2>2. Cardinality(UpTo(A, i)) # Cardinality(UpTo(A, j))
    BY <1>2, <1>3, <2>1, FS_Subset
  <2> QED BY <1>2, <1>4, <2>2
<1> QED BY <1>4, <1>5 DEF RankIn, A

LEMMA RankOnce ==
    ASSUME NEW ks \in Seq(Kinds), NEW i \in AnsweredOf(ks), NEW j \in AnsweredOf(ks),
           RankIn(ks, i) = RankIn(ks, j)
    PROVE  i = j
<1>1. i \in Nat /\ j \in Nat
  <2>1. AnsweredOf(ks) \subseteq 1 .. Len(ks) /\ Len(ks) \in Nat
    BY DEF AnsweredOf
  <2> QED BY <2>1
<1>2. RankIn(ks, i) \in Nat /\ RankIn(ks, j) \in Nat
  BY <1>1, Ranks
<1> QED BY <1>1, <1>2, RankRises

LEMMA RankPositive ==
    ASSUME NEW ks \in Seq(Kinds), NEW i \in AnsweredOf(ks)
    PROVE  RankIn(ks, i) \in Nat /\ RankIn(ks, i) > 0
<1>1. i - 1 \in Nat /\ (i - 1) + 1 = i /\ i \in Nat
  <2>1. AnsweredOf(ks) \subseteq 1 .. Len(ks) /\ Len(ks) \in Nat
    BY DEF AnsweredOf
  <2> QED BY <2>1
<1>2. RankIn(ks, i - 1) \in Nat /\ RankIn(ks, i) = RankIn(ks, i - 1) + 1
  BY <1>1, Ranks
<1> QED BY <1>2

-----------------------------------------------------------------------------
(* What is right stays right, and what is read of it is right.             *)

Outcomes == {"none", "ok", "error", "garbled"}
Later(os, new) ==
    DOMAIN new = DOMAIN os /\ \A i \in DOMAIN os : os[i] # "none" => new[i] = os[i]

LEMMA RightStays ==
    ASSUME NEW ks, NEW os, NEW new, NEW ids, NEW got, NEW n \in Nat, NEW i \in 1 .. n,
           DOMAIN os = 1 .. n, Later(os, new), RightAnswer(ks, os, ids, i, got)
    PROVE  RightAnswer(ks, new, ids, i, got)
<1>1. \A j \in 1 .. i : os[j] # "none" /\ new[j] = os[j]
  <2>1. \A j \in 1 .. i : j \in 1 .. n
    OBVIOUS
  <2> QED BY <2>1 DEF RightAnswer, Settled, Later
<1>2. ASSUME NEW start \in 1 .. i - 1 PROVE Failed(new, i, start) = Failed(os, i, start)
  <2>1. \A j \in start + 1 .. i - 1 : j \in 1 .. i
    OBVIOUS
  <2> QED BY <1>1, <2>1 DEF Failed
<1>3. \A start \in 1 .. i - 1 : ErrorsOf(new, ids, i, start) = ErrorsOf(os, ids, i, start)
  BY <1>2 DEF ErrorsOf
<1>4. new[i] = os[i] /\ Settled(new, i)
  BY <1>1 DEF Settled
<1> QED BY <1>3, <1>4 DEF RightAnswer

LEMMA WayStays ==
    ASSUME NEW ks \in Seq(Kinds), NEW os, NEW new, NEW ids, NEW got, NEW s,
           DOMAIN os = 1 .. Len(ks), Later(os, new)
    PROVE  /\ ReadRight(ks, os, ids, got) => ReadRight(ks, new, ids, got)
           /\ InOrder(ks, os, ids, s) => InOrder(ks, new, ids, s)
<1>1. AnsweredOf(ks) \subseteq 1 .. Len(ks) /\ Len(ks) \in Nat
  BY DEF AnsweredOf
<1>2. \A i \in AnsweredOf(ks) : \A x :
         RightAnswer(ks, os, ids, i, x) => RightAnswer(ks, new, ids, i, x)
  BY <1>1, RightStays
<1>3. \A line : RightLine(ks, os, ids, line) => RightLine(ks, new, ids, line)
  BY <1>2 DEF RightLine
<1> QED BY <1>2, <1>3 DEF ReadRight, InOrder

\* Lines are lost only from the end.
LEMMA PrefixInOrder ==
    ASSUME NEW S, NEW s \in Seq(S), NEW r \in Seq(S), Len(r) <= Len(s),
           \A l \in 1 .. Len(r) : r[l] = s[l],
           NEW ks, NEW os, NEW ids, NEW got, NEW partial
    PROVE  /\ InOrder(ks, os, ids, s) => InOrder(ks, os, ids, r)
           /\ GoesOn(ks, ids, got, partial, s) => GoesOn(ks, ids, got, partial, r)
<1>1. Len(s) \in Nat /\ Len(r) \in Nat /\ (r # <<>> => Len(r) > 0)
  BY EmptySeq, LenProperties
<1>2. /\ \A l \in 1 .. Len(r) : l \in 1 .. Len(s)
      /\ \A l \in 1 .. Len(r) - 1 : l \in 1 .. Len(s) - 1 /\ l \in 1 .. Len(r) /\ l + 1 \in 1 .. Len(r)
  BY <1>1
<1>3. InOrder(ks, os, ids, s) => InOrder(ks, os, ids, r)
  BY <1>2 DEF InOrder
<1>4. r # <<>> => s # <<>> /\ r[1] = s[1]
  <2>1. r # <<>> => 1 \in 1 .. Len(r) /\ Len(s) > 0
    BY <1>1
  <2>2. Len(s) > 0 => s # <<>>
    BY EmptySeq
  <2> QED BY <2>1, <2>2
<1>5. GoesOn(ks, ids, got, partial, s) => GoesOn(ks, ids, got, partial, r)
  BY <1>4 DEF GoesOn
<1> QED BY <1>3, <1>5

LEMMA TailIs ==
    ASSUME NEW S, NEW s \in Seq(S), s # <<>>
    PROVE  /\ Tail(s) \in Seq(S) /\ Len(Tail(s)) = Len(s) - 1 /\ Len(s) \in Nat /\ Len(s) > 0
           /\ \A l \in 1 .. Len(s) - 1 : Tail(s)[l] = s[l + 1]
           /\ Tail(s) = <<>> <=> Len(s) = 1
           /\ Head(s) = s[1] /\ s[1] \in S
<1>1. Len(s) \in Nat /\ Len(s) # 0
  BY EmptySeq, LenProperties
<1>2. Tail(s) \in Seq(S) /\ Len(Tail(s)) = Len(s) - 1 /\ \A l \in 1 .. Len(s) - 1 : Tail(s)[l] = s[l + 1]
  BY HeadTailProperties
<1>3. Tail(s) = <<>> <=> Len(s) = 1
  BY <1>1, <1>2, EmptySeq, SMTT(30)
<1>4. Head(s) = s[1] /\ s[1] \in S
  <2>1. 1 \in 1 .. Len(s)
    BY <1>1
  <2>2. s[1] \in S
    BY <2>1, ElementOfSeq
  <2>3. Head(s) = s[1]
    OBVIOUS
  <2> QED BY <2>2, <2>3
<1> QED BY <1>1, <1>2, <1>3, <1>4

LEMMA TailInOrder ==
    ASSUME NEW S, NEW s \in Seq(S), s # <<>>, NEW ks, NEW os, NEW ids, InOrder(ks, os, ids, s)
    PROVE  InOrder(ks, os, ids, Tail(s))
<1>1. /\ Len(Tail(s)) = Len(s) - 1 /\ Len(s) \in Nat
      /\ \A l \in 1 .. Len(s) - 1 : Tail(s)[l] = s[l + 1]
  BY TailIs
<1>2. \A l \in 1 .. Len(s) - 1 : l + 1 \in 1 .. Len(s)
  BY <1>1
<1>3. \A l \in 1 .. (Len(s) - 1) - 1 :
         l \in 1 .. Len(s) - 1 /\ l + 1 \in 1 .. Len(s) - 1
  BY <1>1
<1> QED BY <1>1, <1>2, <1>3 DEF InOrder

\* A response that has been read is one more right answer.
LEMMA OneMoreRight ==
    ASSUME NEW ks \in Seq(Kinds), NEW os, NEW ids, NEW S, NEW got \in Seq(S), NEW now \in S,
           ReadRight(ks, os, ids, got), NEW i \in AnsweredOf(ks),
           RankIn(ks, i) = Len(got) + 1, RightAnswer(ks, os, ids, i, now)
    PROVE  ReadRight(ks, os, ids, Append(got, now))
<1>1. /\ Len(got) \in Nat /\ Len(Append(got, now)) = Len(got) + 1
      /\ Append(got, now)[Len(got) + 1] = now
      /\ \A l \in 1 .. Len(got) : Append(got, now)[l] = got[l]
  BY AppendProperties, LenProperties
<1>2. ASSUME NEW j \in AnsweredOf(ks), RankIn(ks, j) <= Len(got) + 1
      PROVE  RightAnswer(ks, os, ids, j, Append(got, now)[RankIn(ks, j)])
  <2>1. RankIn(ks, j) \in Nat /\ RankIn(ks, j) > 0
    BY RankPositive
  <2>2. CASE RankIn(ks, j) <= Len(got)
    <3>1. RankIn(ks, j) \in 1 .. Len(got)
      BY <1>1, <2>1, <2>2
    <3> QED BY <1>1, <3>1, <2>2 DEF ReadRight
  <2>3. CASE RankIn(ks, j) = Len(got) + 1
    <3>1. j = i
      BY <2>3, RankOnce
    <3> QED BY <1>1, <2>3, <3>1
  <2> QED BY <1>1, <1>2, <2>1, <2>2, <2>3
<1> QED BY <1>1, <1>2, Zenon DEF ReadRight

Taken(partial, line) ==
    IF partial.status = 0 THEN [status |-> Text(line).n, lines |-> <<>>]
    ELSE [partial EXCEPT !.lines = Append(@, Text(line))]

\* The line that is next belongs to the response that is read.
LEMMA LineTaken ==
    ASSUME NEW ks, NEW os, NEW ids, NEW got, NEW partial \in AnswerType, NEW line \in LineType,
           RightLine(ks, os, ids, line),
           partial.status = 0 => partial = NoAnswer,
           partial.status # 0 => partial.status > 0 /\ Len(partial.lines) < partial.status,
           IF partial.status = 0 THEN line.part = 0
           ELSE /\ line.part = Len(partial.lines) + 1
                /\ partial.status = line.resp.status
                /\ \A l \in 1 .. Len(partial.lines) : partial.lines[l] = line.resp.lines[l]
    PROVE  LET now == Taken(partial, line) IN
           /\ now \in AnswerType /\ now.status = line.resp.status /\ Len(now.lines) = line.part
           /\ \A l \in 1 .. line.part : now.lines[l] = line.resp.lines[l]
           /\ Len(now.lines) >= now.status <=> IsLast(line)
           /\ IsLast(line) => now = [status |-> line.resp.status, lines |-> line.resp.lines]
           /\ ~ IsLast(line) => now.status > 0 /\ Len(now.lines) < now.status
<1> DEFINE now == Taken(partial, line)
           r == line.resp
           n == Len(r.lines)
<1>1. /\ Text(line) \in InfoType /\ r \in RespType /\ line.part \in Nat
      /\ line.part <= n /\ r.lines \in Seq(InfoType) /\ r.status \in Int /\ n \in Nat
  BY LineIs, Zenon DEF InfoType
<1>2. r.status >= -1 /\ n = (IF r.status < 0 THEN 0 ELSE r.status)
  BY DEF RightLine
<1>3. /\ now \in AnswerType /\ now.status = r.status /\ Len(now.lines) = line.part
      /\ \A l \in 1 .. line.part : now.lines[l] = r.lines[l]
      /\ now = [status |-> now.status, lines |-> now.lines] /\ now.lines \in Seq(InfoType)
  <2>1. CASE partial.status = 0
    <3>1. line.part = 0 /\ Text(line).n = r.status
      BY <2>1 DEF Text
    <3>2. now = [status |-> r.status, lines |-> <<>>] /\ <<>> \in Seq(InfoType) /\ Len(<<>>) = 0
      BY <2>1, <3>1, EmptySeq DEF Taken
    <3> HIDE DEF now, r
    <3> QED BY <1>1, <3>1, <3>2 DEF AnswerType
  <2>2. CASE partial.status # 0
    <3>1. /\ line.part = Len(partial.lines) + 1 /\ partial.status = r.status
          /\ \A l \in 1 .. Len(partial.lines) : partial.lines[l] = r.lines[l]
      BY <2>2
    <3>2. partial.lines \in Seq(InfoType) /\ Len(partial.lines) \in Nat
      BY LenProperties DEF AnswerType
    <3>3. line.part \in 1 .. n /\ Text(line) = r.lines[line.part]
      BY <1>1, <3>1, <3>2 DEF Text
    <3>4. now = [partial EXCEPT !.lines = Append(@, Text(line))]
      BY <2>2 DEF Taken
    <3>5. /\ now \in AnswerType /\ now.status = partial.status
          /\ now.lines = Append(partial.lines, Text(line))
          /\ now = [status |-> now.status, lines |-> now.lines]
      <4>1. Append(partial.lines, Text(line)) \in Seq(InfoType)
        BY <1>1, <3>2, AppendProperties
      <4> HIDE DEF now
      <4> QED BY <3>4, <4>1, Zenon DEF AnswerType
    <3>6. /\ Len(Append(partial.lines, Text(line))) = Len(partial.lines) + 1
          /\ Append(partial.lines, Text(line))[Len(partial.lines) + 1] = Text(line)
          /\ \A l \in 1 .. Len(partial.lines) :
                Append(partial.lines, Text(line))[l] = partial.lines[l]
          /\ Append(partial.lines, Text(line)) \in Seq(InfoType)
      BY <1>1, <3>2, AppendProperties
    <3>7. \A l \in 1 .. line.part : l = Len(partial.lines) + 1 \/ l \in 1 .. Len(partial.lines)
      BY <3>1, <3>2
    <3> HIDE DEF now, r, n
    <3> QED BY <3>1, <3>3, <3>5, <3>6, <3>7
  <2> QED BY <2>1, <2>2
<1> HIDE DEF now
<1>4. Len(now.lines) >= now.status <=> line.part = n
  BY <1>1, <1>2, <1>3
<1>5. ASSUME line.part = n PROVE now.lines = r.lines
  <2> DEFINE a == now.lines
             b == r.lines
  <2>1. a \in Seq(InfoType) /\ b \in Seq(InfoType) /\ Len(a) = Len(b) /\ \A l \in 1 .. Len(a) : a[l] = b[l]
    BY <1>1, <1>3, <1>5
  <2> HIDE DEF a, b
  <2>2. a = b
    BY <2>1, SeqEqual
  <2> QED BY <2>2 DEF a, b
<1>6. ASSUME line.part # n PROVE now.status > 0 /\ Len(now.lines) < now.status
  BY <1>1, <1>2, <1>3, <1>6
<1> QED BY <1>3, <1>4, <1>5, <1>6 DEF IsLast, now

LEMMA ReadOne ==
    ASSUME NEW ks \in Seq(Kinds), NEW os, NEW ids, NEW p,
           NEW got \in Seq(AnswerType), NEW partial \in AnswerType, NEW s \in Seq(LineType), s # <<>>,
           ReadRight(ks, os, ids, got), InOrder(ks, os, ids, s), GoesOn(ks, ids, got, partial, s)
    PROVE  LET now == Taken(partial, s[1])
               whole == Append(got, now)
           IN  /\ InOrder(ks, os, ids, Tail(s))
               /\ Len(now.lines) >= now.status =>
                     /\ ReadRight(ks, os, ids, whole) /\ GoesOn(ks, ids, whole, NoAnswer, Tail(s))
                     /\ AtEnd(ks, ids, p, got, partial, s) => AtEnd(ks, ids, p, whole, NoAnswer, Tail(s))
               /\ ~ (Len(now.lines) >= now.status) =>
                     /\ GoesOn(ks, ids, got, now, Tail(s))
                     /\ AtEnd(ks, ids, p, got, partial, s) => AtEnd(ks, ids, p, got, now, Tail(s))
<1> DEFINE line == s[1]
           now == Taken(partial, line)
           whole == Append(got, now)
           i == Index(ids, line)
           r == Tail(s)
<1>1. /\ r \in Seq(LineType) /\ Len(r) = Len(s) - 1 /\ Len(s) \in Nat /\ Len(s) > 0
      /\ \A l \in 1 .. Len(s) - 1 : r[l] = s[l + 1]
      /\ r = <<>> <=> Len(s) = 1
      /\ line \in LineType
  BY TailIs
<1>2. RightLine(ks, os, ids, line)
  <2>1. 1 \in 1 .. Len(s)
    BY <1>1
  <2> QED BY <2>1 DEF InOrder
<1>3. /\ RankIn(ks, i) = Len(got) + 1
      /\ now \in AnswerType /\ now.status = line.resp.status /\ Len(now.lines) = line.part
      /\ \A l \in 1 .. line.part : now.lines[l] = line.resp.lines[l]
      /\ Len(now.lines) >= now.status <=> IsLast(line)
      /\ IsLast(line) => now = [status |-> line.resp.status, lines |-> line.resp.lines]
      /\ ~ IsLast(line) => now.status > 0 /\ Len(now.lines) < now.status
  <2>1. /\ partial.status = 0 => partial = NoAnswer
        /\ partial.status # 0 => partial.status > 0 /\ Len(partial.lines) < partial.status
        /\ RankIn(ks, i) = Len(got) + 1
        /\ IF partial.status = 0 THEN line.part = 0
           ELSE /\ line.part = Len(partial.lines) + 1
                /\ partial.status = line.resp.status
                /\ \A l \in 1 .. Len(partial.lines) : partial.lines[l] = line.resp.lines[l]
    BY DEF GoesOn
  <2> HIDE DEF line, i
  <2> QED BY <1>1, <1>2, <2>1, LineTaken, Zenon
<1>4. InOrder(ks, os, ids, r)
  BY TailInOrder
<1>5. r # <<>> => /\ r[1] = s[2] /\ Follows(ks, ids, line, r[1]) /\ r[1] \in LineType
                  /\ r[1].part \in Nat /\ r[1].part <= Len(r[1].resp.lines)
  <2> SUFFICES ASSUME r # <<>> PROVE r[1] = s[2] /\ Follows(ks, ids, line, r[1]) /\ r[1] \in LineType
    BY DEF LineType
  <2>1. 1 \in 1 .. Len(s) - 1 /\ 1 \in 1 .. Len(r)
    BY <1>1
  <2>2. r[1] = s[2] /\ r[1] \in LineType
    BY <1>1, <2>1, ElementOfSeq
  <2>3. Follows(ks, ids, s[1], s[1 + 1])
    BY <2>1 DEF InOrder
  <2> QED BY <2>2, <2>3
<1>6. i \in AnsweredOf(ks) /\ RightAnswer(ks, os, ids, i, [status |-> line.resp.status, lines |-> line.resp.lines])
  BY <1>2 DEF RightLine
<1>7. /\ NoAnswer.status = 0 /\ Len(got) \in Nat /\ Len(whole) = Len(got) + 1
      /\ line.part \in Nat /\ line.part <= Len(line.resp.lines)
  <2>1. Len(got) \in Nat /\ Len(whole) = Len(got) + 1
    BY <1>3, AppendProperties, LenProperties
  <2> QED BY <1>1, <2>1 DEF NoAnswer, LineType
<1>8. r # <<>> => r[Len(r)] = s[Len(s)]
  <2> SUFFICES ASSUME r # <<>> PROVE r[Len(r)] = s[Len(s)]
    OBVIOUS
  <2>1. Len(s) - 1 \in 1 .. Len(s) - 1 /\ (Len(s) - 1) + 1 = Len(s)
    BY <1>1
  <2> QED BY <1>1, <2>1
<1>9. r = <<>> => s[Len(s)] = line
  BY <1>1
<1>10. ASSUME IsLast(line)
       PROVE  /\ ReadRight(ks, os, ids, whole) /\ GoesOn(ks, ids, whole, NoAnswer, r)
              /\ AtEnd(ks, ids, p, got, partial, s) => AtEnd(ks, ids, p, whole, NoAnswer, r)
  <2>1. ReadRight(ks, os, ids, whole)
    <3> HIDE DEF now, i, line
    <3> QED BY <1>3, <1>6, <1>10, OneMoreRight
  <2>2. GoesOn(ks, ids, whole, NoAnswer, r)
    <3> SUFFICES ASSUME r # <<>> PROVE r[1].part = 0 /\ RankIn(ks, Index(ids, r[1])) = Len(whole) + 1
      BY <1>7 DEF GoesOn
    <3> HIDE DEF r, line, whole, i
    <3>1. r[1].part = 0
      BY <1>5, <1>7, <1>10 DEF Follows, IsLast
    <3>2. RankIn(ks, Index(ids, r[1])) = RankIn(ks, i) + 1
      BY <1>5, <3>1 DEF Follows, i
    <3> QED BY <1>3, <1>7, <3>1, <3>2
  <2>3. ASSUME AtEnd(ks, ids, p, got, partial, s) PROVE AtEnd(ks, ids, p, whole, NoAnswer, r)
    <3>1. IsLast(s[Len(s)]) /\ RankIn(ks, Index(ids, s[Len(s)])) = RankIn(ks, p)
      BY <2>3 DEF AtEnd
    <3> HIDE DEF r, line, whole
    <3>2. CASE r = <<>>
      <4>1. Len(whole) = RankIn(ks, p)
        BY <1>3, <1>7, <1>9, <3>1, <3>2 DEF i
      <4> QED BY <3>2, <4>1 DEF AtEnd
    <3>3. CASE r # <<>>
      BY <1>8, <3>1, <3>3 DEF AtEnd
    <3> QED BY <3>2, <3>3
  <2> QED BY <2>1, <2>2, <2>3
<1>11. ASSUME ~ IsLast(line)
       PROVE  /\ GoesOn(ks, ids, got, now, r)
              /\ AtEnd(ks, ids, p, got, partial, s) => AtEnd(ks, ids, p, got, now, r)
  <2>1. GoesOn(ks, ids, got, now, r)
    <3>0. now.status > 0 /\ Len(now.lines) < now.status /\ now.status # 0
      BY <1>3, <1>11 DEF AnswerType
    <3> SUFFICES ASSUME r # <<>>
                 PROVE  /\ RankIn(ks, Index(ids, r[1])) = Len(got) + 1
                        /\ r[1].part = Len(now.lines) + 1 /\ now.status = r[1].resp.status
                        /\ \A l \in 1 .. Len(now.lines) : now.lines[l] = r[1].resp.lines[l]
      BY <3>0 DEF GoesOn
    <3> HIDE DEF r, line, i, now
    <3>1. r[1].part # 0 /\ r[1].resp = line.resp /\ r[1].part = line.part + 1
      BY <1>5, <1>11 DEF Follows
    <3>2. Index(ids, r[1]) = i
      BY <3>1 DEF Index, i
    <3> QED BY <1>3, <3>1, <3>2
  <2>2. ASSUME AtEnd(ks, ids, p, got, partial, s) PROVE AtEnd(ks, ids, p, got, now, r)
    <3>1. IsLast(s[Len(s)]) /\ RankIn(ks, Index(ids, s[Len(s)])) = RankIn(ks, p)
      BY <2>2 DEF AtEnd
    <3> HIDE DEF r, line, now
    <3>2. r # <<>>
      BY <1>9, <1>11, <3>1
    <3> QED BY <1>8, <3>1, <3>2 DEF AtEnd
  <2> QED BY <2>1, <2>2
<1> HIDE DEF now, r, line
<1>12. Len(now.lines) >= now.status <=> IsLast(line)
  BY <1>3
<1> QED BY <1>4, <1>10, <1>11, <1>12, Zenon DEF now, r, line

-----------------------------------------------------------------------------
(* A command is handled: its response comes after all others.              *)

LEMMA ReplyAdded ==
    ASSUME NEW ks \in Seq(Kinds), NEW os, NEW ids, NEW p \in Nat,
           NEW got \in Seq(AnswerType), NEW partial \in AnswerType, NEW s \in Seq(LineType),
           NEW id \in Ids, NEW status \in Int, NEW info \in Seq(InfoType),
           id - ids[1] + 1 = p + 1, p + 1 \in AnsweredOf(ks),
           RightAnswer(ks, os, ids, p + 1, [status |-> status, lines |-> info]),
           status >= -1, Len(info) = (IF status < 0 THEN 0 ELSE status),
           InOrder(ks, os, ids, s), GoesOn(ks, ids, got, partial, s),
           AtEnd(ks, ids, p, got, partial, s)
    PROVE  LET a == s \o Response(id, status, info) IN
           /\ InOrder(ks, os, ids, a) /\ GoesOn(ks, ids, got, partial, a)
           /\ AtEnd(ks, ids, p + 1, got, partial, a)
<1> DEFINE r == Response(id, status, info)
           resp == [id |-> id, status |-> status, lines |-> info]
           a == s \o r
           m == Len(info)
           n == Len(s)
<1>1. /\ r \in Seq(LineType) /\ Len(r) = m + 1 /\ m \in Nat /\ n \in Nat
      /\ \A l \in 1 .. m + 1 : r[l] = [resp |-> resp, part |-> l - 1]
  BY ResponseTypes, LenProperties, Zenon
<1> HIDE DEF r
<1>2. /\ a \in Seq(LineType) /\ Len(a) = n + (m + 1)
      /\ \A l \in 1 .. n + (m + 1) : a[l] = IF l <= n THEN s[l] ELSE r[l - n]
  <2>1. /\ a \in Seq(LineType) /\ Len(a) = n + Len(r)
        /\ \A l \in 1 .. n + Len(r) : a[l] = IF l <= n THEN s[l] ELSE r[l - n]
    BY <1>1, ConcatProperties, Zenon
  <2> HIDE DEF a, n, m
  <2> QED BY <1>1, <2>1
<1> HIDE DEF a, n, m
<1>3. ASSUME NEW l \in 1 .. m + 1
      PROVE  /\ r[l].resp = resp /\ r[l].part = l - 1 /\ Index(ids, r[l]) = p + 1
             /\ RightLine(ks, os, ids, r[l])
  <2>1. r[l] = [resp |-> resp, part |-> l - 1]
    BY <1>1
  <2>2. r[l].resp = resp /\ r[l].part = l - 1
    BY <2>1
  <2>3. resp.id = id /\ resp.status = status /\ resp.lines = info
    OBVIOUS
  <2> HIDE DEF resp
  <2>4. Index(ids, r[l]) = p + 1
    BY <2>2, <2>3 DEF Index
  <2> QED BY <2>2, <2>3, <2>4 DEF RightLine
<1>4. m = Len(resp.lines)
  BY DEF m
<1> HIDE DEF resp
<1>5. /\ RankIn(ks, p + 1) = RankIn(ks, p) + 1 /\ RankIn(ks, p) \in Nat
  BY Ranks
<1>6. s # <<>> => n > 0 /\ IsLast(s[n]) /\ RankIn(ks, Index(ids, s[n])) = RankIn(ks, p)
  <2>1. s # <<>> => n > 0
    BY <1>1, EmptySeq DEF n
  <2> QED BY <2>1 DEF AtEnd, n
<1>7. s = <<>> => n = 0 /\ partial = NoAnswer /\ Len(got) = RankIn(ks, p)
  BY EmptySeq DEF AtEnd, n
<1>8. InOrder(ks, os, ids, a)
  <2>1. ASSUME NEW l \in 1 .. Len(a) PROVE RightLine(ks, os, ids, a[l])
    <3>1. CASE l <= n
      <4>1. l \in 1 .. n /\ a[l] = s[l]
        BY <1>1, <1>2, <3>1
      <4> QED BY <4>1 DEF InOrder, n
    <3>2. CASE ~ (l <= n)
      <4>1. l - n \in 1 .. m + 1 /\ a[l] = r[l - n]
        BY <1>1, <1>2, <3>2
      <4> QED BY <1>3, <4>1
    <3> QED BY <3>1, <3>2
  <2>2. ASSUME NEW l \in 1 .. n + m PROVE Follows(ks, ids, a[l], a[l + 1])
    <3>1. CASE l < n
      <4>1. l \in 1 .. n - 1 /\ a[l] = s[l] /\ a[l + 1] = s[l + 1]
        <5>1. l \in 1 .. n + (m + 1) /\ l + 1 \in 1 .. n + (m + 1) /\ l <= n /\ l + 1 <= n /\ l \in 1 .. n - 1
          BY <1>1, <3>1
        <5> QED BY <1>2, <5>1
      <4> QED BY <4>1 DEF InOrder, n
    <3>2. CASE l = n
      <4>1. a[l] = s[n] /\ a[l + 1] = r[1] /\ n > 0
        <5>1. l \in 1 .. n + (m + 1) /\ l + 1 \in 1 .. n + (m + 1) /\ ~ (l + 1 <= n) /\ (l + 1) - n = 1
          BY <1>1, <3>2
        <5> QED BY <1>2, <3>2, <5>1
      <4>2. s # <<>>
        BY <1>7, <4>1
      <4>3. r[1].part = 0 /\ Index(ids, r[1]) = p + 1
        <5>1. 1 \in 1 .. m + 1
          BY <1>1
        <5> QED BY <1>3, <5>1
      <4> QED BY <1>5, <1>6, <4>1, <4>2, <4>3 DEF Follows
    <3>3. CASE l > n
      <4>1. a[l] = r[l - n] /\ a[l + 1] = r[(l - n) + 1] /\ l - n \in 1 .. m + 1 /\ (l - n) + 1 \in 1 .. m + 1
        <5>1. l \in 1 .. n + (m + 1) /\ l + 1 \in 1 .. n + (m + 1) /\ ~ (l + 1 <= n) /\ ~ (l <= n)
              /\ (l + 1) - n = (l - n) + 1 /\ l - n \in 1 .. m + 1 /\ (l - n) + 1 \in 1 .. m + 1
          BY <1>1, <3>3
        <5>2. a[l] = r[l - n]
          BY <1>2, <5>1, Zenon
        <5>3. a[l + 1] = r[(l + 1) - n]
          BY <1>2, <5>1, Zenon
        <5> QED BY <5>1, <5>2, <5>3
      <4>2. /\ r[(l - n) + 1].resp = r[l - n].resp /\ r[l - n].part = (l - n) - 1
            /\ r[(l - n) + 1].part = ((l - n) + 1) - 1
        BY <1>3, <4>1
      <4>3. r[(l - n) + 1].part = r[l - n].part + 1 /\ r[(l - n) + 1].part # 0
        BY <1>1, <3>3, <4>1, <4>2
      <4> QED BY <4>1, <4>2, <4>3 DEF Follows
    <3>4. l \in Int /\ n \in Int
      BY <1>1
    <3> QED BY <3>1, <3>2, <3>3, <3>4
  <2>3. Len(a) - 1 = n + m
    BY <1>1, <1>2
  <2> QED BY <2>1, <2>2, <2>3 DEF InOrder
<1>9. GoesOn(ks, ids, got, partial, a)
  <2>1. CASE s # <<>>
    <3>1. a[1] = s[1]
      <4>1. 1 \in 1 .. n + (m + 1) /\ 1 <= n
        BY <1>1, <1>6, <2>1
      <4> QED BY <1>2, <4>1
    <3> QED BY <2>1, <3>1 DEF GoesOn
  <2>2. CASE s = <<>>
    <3>1. a[1] = r[1] /\ 1 \in 1 .. m + 1
      <4>1. 1 \in 1 .. n + (m + 1) /\ ~ (1 <= n) /\ 1 - n = 1 /\ 1 \in 1 .. m + 1
        BY <1>1, <1>7, <2>2
      <4> QED BY <1>2, <4>1
    <3>2. a[1].part = 0 /\ Index(ids, a[1]) = p + 1
      <4>1. r[1].part = 1 - 1 /\ Index(ids, r[1]) = p + 1
        BY <1>3, <3>1
      <4> QED BY <3>1, <4>1
    <3>3. partial.status = 0
      BY <1>7, <2>2 DEF NoAnswer
    <3> QED BY <1>5, <1>7, <2>2, <3>2, <3>3 DEF GoesOn
  <2> QED BY <2>1, <2>2
<1>10. AtEnd(ks, ids, p + 1, got, partial, a)
  <2>1. a # <<>>
    BY <1>1, <1>2, EmptySeq
  <2>2. a[Len(a)] = r[m + 1] /\ m + 1 \in 1 .. m + 1
    <3>1. n + (m + 1) \in 1 .. n + (m + 1) /\ ~ (n + (m + 1) <= n) /\ (n + (m + 1)) - n = m + 1
          /\ m + 1 \in 1 .. m + 1
      BY <1>1
    <3> QED BY <1>2, <3>1
  <2>3. IsLast(a[Len(a)]) /\ Index(ids, a[Len(a)]) = p + 1
    <3>1. r[m + 1].part = m /\ r[m + 1].resp = resp /\ Index(ids, r[m + 1]) = p + 1
      BY <1>1, <1>3, <2>2
    <3> QED BY <1>4, <2>2, <3>1 DEF IsLast
  <2> QED BY <2>1, <2>3 DEF AtEnd
<1> QED BY <1>8, <1>9, <1>10 DEF a, r

LEMMA NoReply ==
    ASSUME NEW ks \in Seq(Kinds), NEW ids, NEW p \in Nat, NEW got, NEW partial, NEW s,
           p + 1 \notin AnsweredOf(ks), AtEnd(ks, ids, p, got, partial, s)
    PROVE  AtEnd(ks, ids, p + 1, got, partial, s)
<1>1. RankIn(ks, p + 1) = RankIn(ks, p)
  BY Ranks
<1> QED BY <1>1 DEF AtEnd

-----------------------------------------------------------------------------
(* What the daemon notes of a command, and what it answers.                *)

\* The batch of the next command, and the response to this one, if it has any.
Reply(ks, os, ids, p, k) ==
    /\ BatchState(ks, os, ids, p, k)
    /\ \/ p \notin AnsweredOf(ks) /\ k.out = <<>>
       \/ /\ p \in AnsweredOf(ks)
          /\ \E status \in Int, info \in Seq(InfoType) :
                /\ k.out = Response(ids[p], status, info)
                /\ status >= -1 /\ Len(info) = (IF status < 0 THEN 0 ELSE status)
                /\ RightAnswer(ks, os, ids, p, [status |-> status, lines |-> info])

LEMMA NoErrors ==
    ASSUME NEW os, NEW ids, NEW p \in Nat
    PROVE  ErrorsOf(os, ids, p + 1, p) = {} /\ Noted(<<>>, {})
<1>1. Failed(os, p + 1, p) = {}
  <2>1. p + 1 .. (p + 1) - 1 = {}
    OBVIOUS
  <2> QED BY <2>1 DEF Failed
<1>2. ErrorsOf(os, ids, p + 1, p) = {}
  BY <1>1 DEF ErrorsOf
<1>3. Len(<<>>) = 0 /\ DOMAIN <<>> = {} /\ Cardinality({}) = 0
  BY FS_EmptySet
<1> QED BY <1>2, <1>3 DEF Noted

\* One outcome changes.
Becomes(os, new, n, p, result) ==
    /\ DOMAIN new = 1 .. n /\ new[p + 1] = result
    /\ \A i \in 1 .. n : i # p + 1 => new[i] = os[i]

ErrorsBecome(os, new, ids, p, result, start) ==
    /\ ErrorsOf(new, ids, p + 1, start) = ErrorsOf(os, ids, p + 1, start)
    /\ result # "error" => ErrorsOf(new, ids, p + 2, start) = ErrorsOf(os, ids, p + 1, start)
    /\ result = "error" =>
          ErrorsOf(new, ids, p + 2, start)
            = ErrorsOf(os, ids, p + 1, start) \cup {<<(p + 1) - start, ids[p + 1]>>}

LEMMA SameErrors ==
    ASSUME NEW n \in Nat, NEW os, DOMAIN os = 1 .. n, NEW ids, NEW p \in Nat, p < n,
           NEW result, NEW start \in 1 .. p,
           NEW new, Becomes(os, new, n, p, result)
    PROVE  ErrorsBecome(os, new, ids, p, result, start)
<1>1. \A j \in 1 .. p : new[j] = os[j]
  BY DEF Becomes
<1>2. new[p + 1] = result
  BY DEF Becomes
<1>3. /\ \A j \in start + 1 .. (p + 1) - 1 : j \in 1 .. p
      /\ \A j \in start + 1 .. (p + 2) - 1 : j = p + 1 \/ j \in start + 1 .. (p + 1) - 1
      /\ \A j \in start + 1 .. (p + 1) - 1 : j \in start + 1 .. (p + 2) - 1
      /\ p + 1 \in start + 1 .. (p + 2) - 1
  OBVIOUS
<1>4. Failed(new, p + 1, start) = Failed(os, p + 1, start)
  BY <1>1, <1>3 DEF Failed
<1>5. result # "error" => Failed(new, p + 2, start) = Failed(os, p + 1, start)
  BY <1>1, <1>2, <1>3 DEF Failed
<1>6. result = "error" => Failed(new, p + 2, start) = Failed(os, p + 1, start) \cup {p + 1}
  BY <1>1, <1>2, <1>3 DEF Failed
<1> QED BY <1>4, <1>5, <1>6 DEF ErrorsOf, ErrorsBecome

LEMMA ErrorsFinite ==
    ASSUME NEW os, NEW m \in Nat, NEW ids \in Seq(1 .. m),
           NEW p \in Nat, p < Len(ids), NEW start \in 1 .. p
    PROVE  /\ IsFiniteSet(ErrorsOf(os, ids, p + 1, start))
           /\ <<(p + 1) - start, ids[p + 1]>> \notin ErrorsOf(os, ids, p + 1, start)
<1>1. \A j \in Failed(os, p + 1, start) : j \in 1 .. p /\ start < j
  BY DEF Failed
<1>2. IsFiniteSet((1 .. p) \X (1 .. m))
  <2>1. IsFiniteSet(1 .. p) /\ IsFiniteSet(1 .. m)
    BY FS_Interval
  <2> QED BY <2>1, FS_Product, Zenon
<1>3. ErrorsOf(os, ids, p + 1, start) \in SUBSET ((1 .. p) \X (1 .. m))
  <2>1. ASSUME NEW j \in Failed(os, p + 1, start) PROVE <<j - start, ids[j]>> \in (1 .. p) \X (1 .. m)
    <3>1. j \in 1 .. Len(ids) /\ j - start \in 1 .. p
      BY <1>1, LenProperties, SMTT(30)
    <3> QED BY <3>1, ElementOfSeq
  <2> QED BY <2>1 DEF ErrorsOf
<1>4. <<(p + 1) - start, ids[p + 1]>> \notin ErrorsOf(os, ids, p + 1, start)
  <2>1. \A j \in Failed(os, p + 1, start) : j - start # (p + 1) - start
    BY <1>1
  <2> QED BY <2>1 DEF ErrorsOf
<1> QED BY <1>2, <1>3, <1>4, FS_Subset

LEMMA OneMoreNoted ==
    ASSUME NEW w \in Seq(InfoType), NEW E, IsFiniteSet(E), NEW n \in Int, NEW id \in Ids,
           <<n, id>> \notin E, Noted(w, E)
    PROVE  Noted(Append(w, [n |-> n, id |-> id]), E \cup {<<n, id>>})
<1> DEFINE x == [n |-> n, id |-> id]
           a == Append(w, x)
           m == Len(w)
<1>1. x \in InfoType
  BY DEF InfoType
<1>2. /\ a \in Seq(InfoType) /\ Len(a) = m + 1 /\ m \in Nat /\ a[m + 1] = x
      /\ \A l \in 1 .. m : a[l] = w[l]
      /\ DOMAIN a = 1 .. m + 1 /\ DOMAIN w = 1 .. m
  BY <1>1, AppendProperties, LenProperties
<1>3. Cardinality(E \cup {<<n, id>>}) = Cardinality(E) + 1
  BY FS_AddElement, Zenon
<1>4. {<<a[l].n, a[l].id>> : l \in 1 .. m + 1} = {<<w[l].n, w[l].id>> : l \in 1 .. m} \cup {<<n, id>>}
  <2>1. x.n = n /\ x.id = id
    OBVIOUS
  <2>2. /\ \A l \in 1 .. m + 1 : l = m + 1 \/ l \in 1 .. m
        /\ \A l \in 1 .. m : l \in 1 .. m + 1
        /\ m + 1 \in 1 .. m + 1
    BY <1>2
  <2> HIDE DEF a, x, m
  <2> QED BY <1>2, <2>1, <2>2
<1>5. Len(w) = Cardinality(E) /\ {<<w[l].n, w[l].id>> : l \in 1 .. m} = E
  BY <1>2 DEF Noted
<1> HIDE DEF a
<1> QED BY <1>2, <1>3, <1>4, <1>5 DEF Noted, a

\* What the next command does to the outcomes, whatever it is.
Outcome(os, new, ids, n, p, result) ==
    /\ DOMAIN new = 1 .. n /\ Later(os, new) /\ HandledUpTo(new, p + 1)
    /\ Settled(new, p + 1) /\ new[p + 1] = result
    /\ \A start \in 1 .. p : ErrorsBecome(os, new, ids, p, result, start)

LEMMA SettledNext ==
    ASSUME NEW n \in Nat, NEW os, DOMAIN os = 1 .. n, NEW p \in Nat, p < n, HandledUpTo(os, p),
           NEW result, result # "none", NEW new, Becomes(os, new, n, p, result)
    PROVE  /\ DOMAIN new = 1 .. n /\ Later(os, new) /\ HandledUpTo(new, p + 1)
           /\ Settled(new, p + 1) /\ new[p + 1] = result
<1>1. DOMAIN new = 1 .. n /\ p + 1 \in 1 .. n
  BY DEF Becomes
<1>2. new[p + 1] = result /\ \A i \in (1 .. n) \ {p + 1} : new[i] = os[i]
  BY DEF Becomes
<1>3. \A i \in 1 .. n : os[i] # "none" <=> i <= p
  BY DEF HandledUpTo
<1>4. ASSUME NEW i \in 1 .. n PROVE new[i] # "none" <=> i <= p + 1
  BY <1>2, <1>3
<1>5. Later(os, new)
  BY <1>1, <1>2, <1>3 DEF Later
<1>6. Settled(new, p + 1)
  BY <1>4 DEF Settled
<1> QED BY <1>1, <1>2, <1>4, <1>5, <1>6 DEF HandledUpTo

LEMMA BecomesOutcome ==
    ASSUME NEW n \in Nat, NEW os, DOMAIN os = 1 .. n, NEW ids, NEW p \in Nat, p < n, HandledUpTo(os, p),
           NEW result, result # "none", NEW new, Becomes(os, new, n, p, result)
    PROVE  Outcome(os, new, ids, n, p, result)
<1>1. ASSUME NEW start \in 1 .. p PROVE ErrorsBecome(os, new, ids, p, result, start)
  BY SameErrors
<1>2. /\ DOMAIN new = 1 .. n /\ Later(os, new) /\ HandledUpTo(new, p + 1)
      /\ Settled(new, p + 1) /\ new[p + 1] = result
  BY SettledNext
<1> QED BY <1>1, <1>2 DEF Outcome

LEMMA ErrorReply ==
    ASSUME NEW ks \in Seq(Kinds), NEW m \in Nat, NEW ids \in Seq(1 .. m), Len(ids) = Len(ks),
           NEW os, NEW new, NEW p \in Nat, p < Len(ks), Outcome(os, new, ids, Len(ks), p, "error"),
           NEW o \in ConnType, BatchState(ks, os, ids, p, o),
           NEW id \in Ids, ids[p + 1] = id, ks[p + 1] # "quit",
           o.batch_start => ks[p + 1] # "dot", ~ o.batch_start => ks[p + 1] # "batch",
           NEW r, r.batch_start = o.batch_start,
           o.batch_start => /\ r.batch_cmd = o.batch_cmd + 1 /\ r.out = <<>>
                            /\ r.wbuf = Append(o.wbuf, [n |-> o.batch_cmd + 1, id |-> id]),
           ~ o.batch_start => r.out = Response(id, -1, <<>>)
    PROVE  Reply(ks, new, ids, p + 1, r)
<1>0. <<>> \in Seq(InfoType) /\ Len(<<>>) = 0
  BY EmptySeq
<1>2. Settled(new, p + 1) /\ new[p + 1] = "error"
  BY DEF Outcome
<1>3. InABatch(ks, p + 2) <=> ks[p + 1] = "batch" \/ (InABatch(ks, p + 1) /\ ks[p + 1] # "dot")
  <2>1. p + 1 \in Nat \ {0} /\ (p + 1) + 1 = p + 2
    OBVIOUS
  <2> QED BY <2>1, InABatchNext, Zenon
<1>4. p + 1 \in DOMAIN ks
  BY LenProperties
<1>5. o.batch_start \in BOOLEAN /\ o.wbuf \in Seq(InfoType) /\ o.batch_cmd \in Nat
  BY ConnIs, Zenon
<1>6. CASE o.batch_start
  <2>1. PICK start \in 1 .. p : /\ Opens(ks, p + 1, start) /\ o.batch_cmd = p - start
                                /\ Noted(o.wbuf, ErrorsOf(os, ids, p + 1, start))
    BY <1>6 DEF BatchState
  <2>2. InABatch(ks, p + 1) /\ Opens(ks, p + 2, start)
    BY <1>6, <2>1, OpensIsIn, OpensNext, SMTT(30)
  <2>3. r.batch_cmd = (p + 1) - start /\ r.wbuf = Append(o.wbuf, [n |-> (p + 1) - start, id |-> id])
    <3>1. o.batch_cmd + 1 = (p + 1) - start
      BY <2>1
    <3> QED BY <1>6, <3>1
  <2>4. ErrorsOf(new, ids, p + 2, start) = ErrorsOf(os, ids, p + 1, start) \cup {<<(p + 1) - start, id>>}
    <3>1. ErrorsBecome(os, new, ids, p, "error", start)
      BY <2>1 DEF Outcome
    <3> QED BY <3>1 DEF ErrorsBecome
  <2>5. Noted(r.wbuf, ErrorsOf(new, ids, p + 2, start))
    <3>1. /\ IsFiniteSet(ErrorsOf(os, ids, p + 1, start))
          /\ <<(p + 1) - start, id>> \notin ErrorsOf(os, ids, p + 1, start)
          /\ (p + 1) - start \in Int
      <4>1. /\ IsFiniteSet(ErrorsOf(os, ids, p + 1, start))
            /\ <<(p + 1) - start, ids[p + 1]>> \notin ErrorsOf(os, ids, p + 1, start)
        BY ErrorsFinite, Zenon
      <4> QED BY <4>1
    <3>2. Noted(Append(o.wbuf, [n |-> (p + 1) - start, id |-> id]),
                ErrorsOf(os, ids, p + 1, start) \cup {<<(p + 1) - start, id>>})
      BY <1>5, <2>1, <3>1, OneMoreNoted, Zenon
    <3> QED BY <2>3, <2>4, <3>2, Zenon
  <2>6. BatchState(ks, new, ids, p + 1, r)
    <3>1. start \in 1 .. p + 1 /\ (p + 1) + 1 = p + 2
      OBVIOUS
    <3> QED BY <1>6, <2>2, <2>3, <2>5, <3>1 DEF BatchState
  <2>7. p + 1 \notin AnsweredOf(ks) /\ r.out = <<>>
    BY <1>6, <2>2 DEF AnsweredOf
  <2> QED BY <2>6, <2>7 DEF Reply
<1>7. CASE ~ o.batch_start
  <2>1. ~ InABatch(ks, p + 1) /\ ~ InABatch(ks, p + 2)
    BY <1>3, <1>7 DEF BatchState
  <2>2. BatchState(ks, new, ids, p + 1, r)
    <3>1. (p + 1) + 1 = p + 2
      OBVIOUS
    <3> QED BY <1>7, <2>1, <3>1 DEF BatchState
  <2>3. p + 1 \in AnsweredOf(ks)
    BY <1>4, <2>1 DEF AnsweredOf
  <2>4. r.out = Response(id, -1, <<>>) /\ -1 \in Int
    BY <1>7
  <2>5. RightAnswer(ks, new, ids, p + 1, [status |-> -1, lines |-> <<>>])
    <3> DEFINE g == [status |-> -1, lines |-> <<>>]
    <3>1. g.status = -1
      OBVIOUS
    <3> HIDE DEF g
    <3>2. RightAnswer(ks, new, ids, p + 1, g)
      BY <1>2, <3>1 DEF RightAnswer
    <3> QED BY <3>2 DEF g
  <2>6. -1 >= -1 /\ Len(<<>>) = (IF -1 < 0 THEN 0 ELSE -1)
    BY <1>0
  <2> QED BY <1>0, <2>2, <2>3, <2>4, <2>5, <2>6, Zenon DEF Reply
<1> QED BY <1>5, <1>6, <1>7

\* In a batch, what succeeds is not noted.
LEMMA SilentReply ==
    ASSUME NEW ks \in Seq(Kinds), NEW ids, NEW os, NEW new, NEW p \in Nat, p < Len(ks),
           NEW result, result # "error", Outcome(os, new, ids, Len(ks), p, result),
           NEW o \in ConnType, BatchState(ks, os, ids, p, o), o.batch_start, ks[p + 1] # "dot",
           NEW r, r.batch_start = o.batch_start, r.batch_cmd = o.batch_cmd + 1, r.out = <<>>,
           r.wbuf = o.wbuf
    PROVE  Reply(ks, new, ids, p + 1, r)
<1>1. PICK start \in 1 .. p : /\ Opens(ks, p + 1, start) /\ o.batch_cmd = p - start
                              /\ Noted(o.wbuf, ErrorsOf(os, ids, p + 1, start))
  BY DEF BatchState
<1>2. InABatch(ks, p + 1) /\ Opens(ks, p + 2, start)
  BY <1>1, OpensIsIn, OpensNext
<1>3. ErrorsOf(new, ids, p + 2, start) = ErrorsOf(os, ids, p + 1, start)
  <2>1. ErrorsBecome(os, new, ids, p, result, start)
    BY <1>1 DEF Outcome
  <2> QED BY <2>1 DEF ErrorsBecome
<1>4. BatchState(ks, new, ids, p + 1, r)
  <2>1. start \in 1 .. p + 1 /\ (p + 1) + 1 = p + 2 /\ r.batch_cmd = (p + 1) - start
    BY <1>1
  <2> QED BY <1>1, <1>2, <1>3, <2>1 DEF BatchState
<1>5. p + 1 \notin AnsweredOf(ks)
  BY <1>2 DEF AnsweredOf
<1> QED BY <1>4, <1>5 DEF Reply

\* Outside a batch there is a response at once.
LEMMA OutsideReply ==
    ASSUME NEW ks \in Seq(Kinds), NEW ids, NEW os, NEW new, NEW p \in Nat, p < Len(ks),
           NEW o, BatchState(ks, os, ids, p, o), ~ o.batch_start,
           ks[p + 1] \notin {"quit", "batch", "dot"},
           NEW r, ~ r.batch_start, NEW info \in Seq(InfoType),
           r.out = Response(ids[p + 1], Len(info), info),
           RightAnswer(ks, new, ids, p + 1, [status |-> Len(info), lines |-> info])
    PROVE  Reply(ks, new, ids, p + 1, r)
<1>1. ~ InABatch(ks, p + 1)
  BY DEF BatchState
<1>2. ~ InABatch(ks, p + 2)
  <2>1. p + 1 \in Nat \ {0} /\ (p + 1) + 1 = p + 2
    OBVIOUS
  <2> QED BY <1>1, <2>1, InABatchNext, Zenon
<1>3. BatchState(ks, new, ids, p + 1, r)
  <2>1. (p + 1) + 1 = p + 2
    OBVIOUS
  <2> QED BY <1>2, <2>1 DEF BatchState
<1>4. p + 1 \in AnsweredOf(ks)
  BY <1>1, LenProperties DEF AnsweredOf
<1>5. /\ Len(info) \in Int /\ Len(info) >= -1
      /\ Len(info) = (IF Len(info) < 0 THEN 0 ELSE Len(info))
  <2>1. Len(info) \in Nat
    BY LenProperties
  <2> QED BY <2>1
<1> QED BY <1>3, <1>4, <1>5 DEF Reply

LEMMA UpdateReply ==
    ASSUME NEW ks \in Seq(Kinds), NEW ids, NEW os, NEW new, NEW p \in Nat, p < Len(ks),
           Outcome(os, new, ids, Len(ks), p, "ok"),
           NEW o, BatchState(ks, os, ids, p, o), ~ o.batch_start, ks[p + 1] = "update",
           NEW r, ~ r.batch_start, r.out = Response(ids[p + 1], Len(<<>>), <<>>)
    PROVE  Reply(ks, new, ids, p + 1, r)
<1>1. <<>> \in Seq(InfoType) /\ Len(<<>>) = 0
  BY EmptySeq
<1>2. ASSUME NEW g, g.status = 0 PROVE RightAnswer(ks, new, ids, p + 1, g)
  BY <1>2 DEF Outcome, RightAnswer
<1>3. RightAnswer(ks, new, ids, p + 1, [status |-> Len(<<>>), lines |-> <<>>])
  <2> DEFINE g == [status |-> Len(<<>>), lines |-> <<>>]
  <2>1. g.status = 0
    BY <1>1
  <2> HIDE DEF g
  <2>2. RightAnswer(ks, new, ids, p + 1, g)
    BY <1>2, <2>1
  <2> QED BY <2>2 DEF g
<1> QED BY <1>1, <1>3, OutsideReply, Zenon

LEMMA StatsReply ==
    ASSUME NEW ks \in Seq(Kinds), NEW ids, NEW os, NEW new, NEW p \in Nat, p < Len(ks),
           Outcome(os, new, ids, Len(ks), p, "ok"),
           NEW o, BatchState(ks, os, ids, p, o), ~ o.batch_start, ks[p + 1] = "stats",
           NEW info \in Seq(InfoType), Len(info) = StatsLines,
           \A l \in DOMAIN info : info[l].id = ids[p + 1],
           NEW r, ~ r.batch_start, r.out = Response(ids[p + 1], Len(info), info)
    PROVE  Reply(ks, new, ids, p + 1, r)
<1>1. ASSUME NEW g, g.status = StatsLines, g.lines = info PROVE RightAnswer(ks, new, ids, p + 1, g)
  BY <1>1 DEF Outcome, RightAnswer
<1>2. RightAnswer(ks, new, ids, p + 1, [status |-> Len(info), lines |-> info])
  <2> DEFINE g == [status |-> Len(info), lines |-> info]
  <2>1. g.status = StatsLines /\ g.lines = info
    OBVIOUS
  <2> HIDE DEF g
  <2>2. RightAnswer(ks, new, ids, p + 1, g)
    BY <1>1, <2>1
  <2> QED BY <2>2 DEF g
<1> QED BY <1>2, OutsideReply

LEMMA BatchReply ==
    ASSUME NEW ks \in Seq(Kinds), NEW ids, NEW os, NEW new, NEW p \in Nat, p < Len(ks),
           Outcome(os, new, ids, Len(ks), p, "ok"),
           NEW o, BatchState(ks, os, ids, p, o), ~ o.batch_start, ks[p + 1] = "batch",
           NEW r, r.batch_start, r.batch_cmd = 0, r.wbuf = <<>>,
           r.out = Response(ids[p + 1], Len(<<>>), <<>>)
    PROVE  Reply(ks, new, ids, p + 1, r)
<1>1. <<>> \in Seq(InfoType) /\ Len(<<>>) = 0
  BY EmptySeq
<1>2. ~ InABatch(ks, p + 1)
  BY DEF BatchState
<1>3. Opens(ks, p + 2, p + 1)
  BY <1>2, OpensNext
<1>4. BatchState(ks, new, ids, p + 1, r)
  <2>1. p + 1 \in Nat /\ p + 1 \in 1 .. p + 1 /\ (p + 1) + 1 = p + 2 /\ (p + 1) - (p + 1) = 0
    OBVIOUS
  <2>2. ErrorsOf(new, ids, (p + 1) + 1, p + 1) = {} /\ Noted(<<>>, {})
    BY <2>1, NoErrors
  <2> QED BY <1>3, <2>1, <2>2, Zenon DEF BatchState
<1>5. p + 1 \in AnsweredOf(ks)
  BY <1>2, LenProperties DEF AnsweredOf
<1>6. ASSUME NEW g, g.status = 0 PROVE RightAnswer(ks, new, ids, p + 1, g)
  BY <1>6 DEF Outcome, RightAnswer
<1>7. RightAnswer(ks, new, ids, p + 1, [status |-> 0, lines |-> <<>>])
  <2> DEFINE g == [status |-> 0, lines |-> <<>>]
  <2>1. g.status = 0
    OBVIOUS
  <2> HIDE DEF g
  <2>2. RightAnswer(ks, new, ids, p + 1, g)
    BY <1>6, <2>1
  <2> QED BY <2>2 DEF g
<1>8. r.out = Response(ids[p + 1], 0, <<>>)
  BY <1>1
<1>9. 0 \in Int /\ 0 >= -1 /\ Len(<<>>) = (IF 0 < 0 THEN 0 ELSE 0)
  BY <1>1
<1>10. \E status \in Int, info \in Seq(InfoType) :
          /\ r.out = Response(ids[p + 1], status, info)
          /\ status >= -1 /\ Len(info) = (IF status < 0 THEN 0 ELSE status)
          /\ RightAnswer(ks, new, ids, p + 1, [status |-> status, lines |-> info])
  BY <1>1, <1>7, <1>8, <1>9, Zenon
<1> QED BY <1>4, <1>5, <1>10 DEF Reply

\* The end of a batch is answered with all that was noted.
LEMMA DotReply ==
    ASSUME NEW ks \in Seq(Kinds), NEW ids, NEW os, NEW new, NEW p \in Nat, p < Len(ks),
           Outcome(os, new, ids, Len(ks), p, "ok"),
           NEW o \in ConnType, BatchState(ks, os, ids, p, o), o.batch_start, ks[p + 1] = "dot",
           NEW r, ~ r.batch_start, r.out = Response(ids[p + 1], Len(o.wbuf), o.wbuf)
    PROVE  Reply(ks, new, ids, p + 1, r)
<1>1. PICK start \in 1 .. p : /\ Opens(ks, p + 1, start)
                              /\ Noted(o.wbuf, ErrorsOf(os, ids, p + 1, start))
  BY DEF BatchState
<1>2. o.wbuf \in Seq(InfoType) /\ Len(o.wbuf) \in Nat
  BY ConnIs, Zenon
<1>3. ErrorsOf(new, ids, p + 1, start) = ErrorsOf(os, ids, p + 1, start)
  <2>1. ErrorsBecome(os, new, ids, p, "ok", start)
    BY <1>1 DEF Outcome
  <2> QED BY <2>1 DEF ErrorsBecome
<1>4. ASSUME NEW g, g.status = Len(g.lines), g.lines = o.wbuf PROVE RightAnswer(ks, new, ids, p + 1, g)
  <2>1. start \in 1 .. (p + 1) - 1
    BY <1>1
  <2>2. Noted(g.lines, ErrorsOf(new, ids, p + 1, start))
    BY <1>1, <1>3, <1>4
  <2> QED BY <1>1, <1>4, <2>1, <2>2 DEF Outcome, RightAnswer
<1>5. RightAnswer(ks, new, ids, p + 1, [status |-> Len(o.wbuf), lines |-> o.wbuf])
  <2> DEFINE g == [status |-> Len(o.wbuf), lines |-> o.wbuf]
  <2>1. g.status = Len(g.lines) /\ g.lines = o.wbuf
    OBVIOUS
  <2> HIDE DEF g
  <2>2. RightAnswer(ks, new, ids, p + 1, g)
    BY <1>4, <2>1
  <2> QED BY <2>2 DEF g
<1>6. ~ InABatch(ks, p + 2)
  <2>1. p + 1 \in Nat \ {0} /\ (p + 1) + 1 = p + 2
    OBVIOUS
  <2> QED BY <2>1, InABatchNext
<1>7. BatchState(ks, new, ids, p + 1, r)
  <2>1. (p + 1) + 1 = p + 2
    OBVIOUS
  <2> QED BY <1>6, <2>1 DEF BatchState
<1>8. p + 1 \in AnsweredOf(ks)
  BY LenProperties DEF AnsweredOf
<1>9. Len(o.wbuf) >= -1 /\ Len(o.wbuf) = (IF Len(o.wbuf) < 0 THEN 0 ELSE Len(o.wbuf))
  BY <1>2
<1> QED BY <1>2, <1>5, <1>7, <1>8, <1>9, SMTT(30) DEF Reply

-----------------------------------------------------------------------------
(* The answers, step by step.                                              *)

LEMMA ViewTypes ==
    ASSUME Types, NEW t \in Threads
    PROVE  /\ KindsOf(t) \in Seq(Kinds) /\ Len(KindsOf(t)) = Len(call[t]) /\ Len(call[t]) \in Nat
           /\ DOMAIN OutcomesOf(t) = 1 .. Len(KindsOf(t))
           /\ DOMAIN call[t] = 1 .. Len(call[t]) /\ call[t] \in Seq(1 .. Len(commands))
           /\ \A i \in 1 .. Len(call[t]) : /\ KindsOf(t)[i] = Kind(call[t][i])
                                           /\ OutcomesOf(t)[i] = outcome[call[t][i]]
                                           /\ call[t][i] \in Ids
           /\ answers[t] \in Seq(AnswerType) /\ answer[t] \in AnswerType
<1>1. /\ call[t] \in Seq(Ids) /\ DOMAIN call[t] = 1 .. Len(call[t]) /\ Len(call[t]) \in Nat
      /\ \A i \in 1 .. Len(call[t]) : call[t][i] \in Ids
  BY CallTypes
<1>2. \A i \in 1 .. Len(call[t]) : Kind(call[t][i]) \in Kinds
  BY <1>1, SizePositive
<1>3. KindsOf(t) = [i \in 1 .. Len(call[t]) |-> Kind(call[t][i])]
  BY <1>1 DEF KindsOf
<1>4. KindsOf(t) \in Seq(Kinds) /\ Len(KindsOf(t)) = Len(call[t])
  BY <1>1, <1>2, <1>3
<1>5. OutcomesOf(t) = [i \in 1 .. Len(call[t]) |-> outcome[call[t][i]]]
  BY <1>1 DEF OutcomesOf
<1>6. answers[t] \in Seq(AnswerType) /\ answer[t] \in AnswerType
  BY DEF Types, ClientTypes
<1> QED BY <1>1, <1>3, <1>4, <1>5, <1>6 DEF Ids

LEMMA LinesTypes ==
    ASSUME Types, NEW c \in Conns
    PROVE  /\ Lines(c) \in Seq(LineType)
           /\ Broken(c) => Lines(c) = conn[c].from
           /\ ~ Broken(c) => Lines(c) = conn[c].from \o conn[c].out
  BY StreamTypes, ConnIs, ConcatProperties, Zenon DEF Lines

\* The commands of a call keep their kinds.
LEMMA SameKinds ==
    ASSUME NEW t \in Threads, call'[t] = call[t],
           \A i \in DOMAIN call[t] : /\ commands'[call[t][i]] = commands[call[t][i]]
                                     /\ outcome'[call[t][i]] = outcome[call[t][i]]
    PROVE  KindsOf(t)' = KindsOf(t) /\ OutcomesOf(t)' = OutcomesOf(t)
  BY DEF KindsOf, OutcomesOf, Kind

\* An outcome is not changed any more.
LEMMA LaterOutcomes ==
    ASSUME Types, NEW t \in Threads, UNCHANGED <<call, commands>>, NEW id \in Ids, outcome[id] = "none",
           NEW result, outcome' = [outcome EXCEPT ![id] = result]
    PROVE  /\ KindsOf(t)' = KindsOf(t) /\ Later(OutcomesOf(t), OutcomesOf(t)')
           /\ (\A i \in DOMAIN call[t] : call[t][i] # id) => OutcomesOf(t)' = OutcomesOf(t)
<1>1. KindsOf(t)' = KindsOf(t)
  BY DEF KindsOf, Kind
<1>2. \A i \in DOMAIN call[t] : call[t][i] \in Ids
  BY CallTypes
<1>3. \A j \in Ids : j # id => outcome'[j] = outcome[j]
  <2>1. DOMAIN outcome = Ids
    BY DEF Types, HistoryTypes, Ids
  <2> QED BY <2>1
<1>4. Later(OutcomesOf(t), OutcomesOf(t)')
  BY <1>2, <1>3 DEF Later, OutcomesOf
<1>5. (\A i \in DOMAIN call[t] : call[t][i] # id) => OutcomesOf(t)' = OutcomesOf(t)
  BY <1>2, <1>3 DEF OutcomesOf
<1> QED BY <1>1, <1>4, <1>5

\* The next command is handled.
LEMMA HandledOne ==
    ASSUME NEW ks \in Seq(Kinds), NEW os, NEW new, DOMAIN os = 1 .. Len(ks), Later(os, new),
           NEW ids, NEW p \in Nat, ids[p + 1] \in Ids, ids[p + 1] - ids[1] + 1 = p + 1,
           NEW got \in Seq(AnswerType), NEW partial \in AnswerType, NEW s \in Seq(LineType),
           NEW k, Reply(ks, new, ids, p + 1, k),
           ReadRight(ks, os, ids, got), InOrder(ks, os, ids, s), GoesOn(ks, ids, got, partial, s),
           AtEnd(ks, ids, p, got, partial, s)
    PROVE  /\ ReadRight(ks, new, ids, got) /\ InOrder(ks, new, ids, s \o k.out)
           /\ GoesOn(ks, ids, got, partial, s \o k.out)
           /\ AtEnd(ks, ids, p + 1, got, partial, s \o k.out)
           /\ BatchState(ks, new, ids, p + 1, k)
<1>1. ReadRight(ks, new, ids, got) /\ InOrder(ks, new, ids, s)
  BY WayStays, Zenon
<1>2. BatchState(ks, new, ids, p + 1, k)
  BY DEF Reply
<1>3. CASE p + 1 \notin AnsweredOf(ks) /\ k.out = <<>>
  <2>1. s \o k.out = s
    BY <1>3, ConcatEmptySeq
  <2>2. AtEnd(ks, ids, p + 1, got, partial, s)
    BY <1>3, NoReply
  <2> QED BY <1>1, <1>2, <2>1, <2>2
<1>4. CASE p + 1 \in AnsweredOf(ks)
           /\ \E status \in Int, info \in Seq(InfoType) :
                 /\ k.out = Response(ids[p + 1], status, info)
                 /\ status >= -1 /\ Len(info) = (IF status < 0 THEN 0 ELSE status)
                 /\ RightAnswer(ks, new, ids, p + 1, [status |-> status, lines |-> info])
  <2>1. PICK status \in Int, info \in Seq(InfoType) :
                 /\ k.out = Response(ids[p + 1], status, info)
                 /\ status >= -1 /\ Len(info) = (IF status < 0 THEN 0 ELSE status)
                 /\ RightAnswer(ks, new, ids, p + 1, [status |-> status, lines |-> info])
    BY <1>4
  <2>2. /\ InOrder(ks, new, ids, s \o Response(ids[p + 1], status, info))
        /\ GoesOn(ks, ids, got, partial, s \o Response(ids[p + 1], status, info))
        /\ AtEnd(ks, ids, p + 1, got, partial, s \o Response(ids[p + 1], status, info))
    BY <1>1, <1>4, <2>1, ReplyAdded, Zenon
  <2> QED BY <1>1, <1>2, <2>1, <2>2
<1> QED BY <1>3, <1>4, Zenon DEF Reply

\* The numbers of the commands of a call.
Successive(ids) == \A i \in DOMAIN ids : ids[i] = ids[1] + i - 1

\* One more unit is written.
LEMMA ComesWriting ==
    ASSUME Types, NEW ids \in Seq(Ids), Successive(ids), NEW p \in Nat,
           NEW s \in Seq(UnitType), NEW r \in Seq(UnitType), Len(r) = Len(s) + 1,
           \A i \in 1 .. Len(s) : r[i] = s[i],
           NEW u, u.cmd \in DOMAIN ids, u.part \in Nat \ {0},
           r[Len(s) + 1].id = ids[u.cmd], r[Len(s) + 1].part = u.part,
           Comes(ids, p, s, u, TRUE),
           NEW v, NEW writing \in BOOLEAN,
           \/ writing /\ v.part # 1
           \/ writing /\ u.cmd # Len(ids) /\ v.cmd = u.cmd + 1 /\ v.part = 1
           \/ ~ writing /\ u.cmd = Len(ids)
    PROVE  Comes(ids, p, r, v, writing)
<1> DEFINE n == Len(s)
           last == ids[Len(ids)]
<1>0. \A a \in Int, x \in Int : a + (x + 1) - 1 = (a + x - 1) + 1
  OBVIOUS
<1>1. /\ n \in Nat /\ (s # <<>> => n > 0) /\ (s = <<>> => n = 0) /\ DOMAIN ids = 1 .. Len(ids)
      /\ Len(ids) \in Nat /\ u.cmd \in 1 .. Len(ids)
  BY EmptySeq, LenProperties
<1>2. /\ \A i \in 1 .. Len(ids) : ids[i] = ids[1] + i - 1 /\ ids[i] \in Int
      /\ ids[1] \in Int /\ last = ids[1] + Len(ids) - 1
  <2>1. \A i \in 1 .. Len(ids) : ids[i] \in Int
    BY ElementOfSeq DEF Ids
  <2>2. 1 \in 1 .. Len(ids) /\ Len(ids) \in 1 .. Len(ids)
    BY <1>1
  <2> QED BY <1>1, <2>1, <2>2, Zenon DEF Successive
<1>3. ids[u.cmd] <= last /\ ids[u.cmd] \in Int
  BY <1>1, <1>2
<1>4. \A i \in 1 .. n : s[i].id \in Int
  <2>1. \A i \in 1 .. n : s[i] \in UnitType
    BY ElementOfSeq
  <2> QED BY <2>1 DEF UnitType, Ids
<1> HIDE DEF n, last
<1>5. r # <<>> /\ Len(r) = n + 1 /\ r[n + 1].id = ids[u.cmd] /\ r[n + 1].part = u.part
  <2>1. Len(r) = n + 1
    BY DEF n
  <2> QED BY <1>1, <2>1, EmptySeq DEF n
<1>6. \A i \in 1 .. n : r[i] = s[i]
  BY DEF n
<1>7. p < Len(ids) /\ r[1].id = ids[p + 1]
  <2>1. CASE s = <<>>
    <3>1. u.cmd = p + 1 /\ n = 0
      BY <1>1, <2>1 DEF Comes
    <3>2. n + 1 = 1
      BY <3>1
    <3>3. p + 1 \in 1 .. Len(ids)
      BY <1>1, <3>1
    <3>4. p < Len(ids)
      BY <1>1, <3>3
    <3> QED BY <1>5, <3>1, <3>2, <3>4
  <2>2. CASE s # <<>>
    <3>1. 1 \in 1 .. n
      BY <1>1, <2>2
    <3> QED BY <1>6, <2>2, <3>1 DEF Comes
  <2> QED BY <2>1, <2>2
<1>8. \A i \in 1 .. Len(r) : r[i].id <= last
  <2>1. \A i \in 1 .. n + 1 : i \in 1 .. n \/ i = n + 1
    BY <1>1
  <2>2. \A i \in 1 .. n : s[i].id <= last
    BY DEF Comes, n, last
  <2> QED BY <1>3, <1>5, <1>6, <2>1, <2>2
<1>9. \A i \in 1 .. Len(r) - 1 : r[i + 1].part = 1 => r[i + 1].id = r[i].id + 1
  <2>1. \A i \in 1 .. (n + 1) - 1 : i \in 1 .. n /\ ((i + 1 \in 1 .. n /\ i \in 1 .. n - 1) \/ i = n)
    BY <1>1
  <2>2. \A i \in 1 .. n - 1 : s[i + 1].part = 1 => s[i + 1].id = s[i].id + 1
    BY DEF Comes, n
  <2>3. ASSUME n > 0, r[n + 1].part = 1 PROVE r[n + 1].id = r[n].id + 1
    <3>1. s # <<>> /\ n \in 1 .. n
      BY <1>1, <2>3
    <3>2. u.part = 1 => ids[u.cmd] = s[n].id + 1
      BY <3>1 DEF Comes, n
    <3> QED BY <1>5, <1>6, <2>3, <3>1, <3>2
  <2>4. ASSUME NEW i \in 1 .. (n + 1) - 1, r[i + 1].part = 1 PROVE r[i + 1].id = r[i].id + 1
    <3>1. CASE i = n
      BY <1>1, <2>3, <2>4, <3>1
    <3>2. CASE i # n
      <4>1. i + 1 \in 1 .. n /\ i \in 1 .. n - 1 /\ i \in 1 .. n
        BY <2>1, <3>2
      <4> QED BY <1>6, <2>2, <2>4, <4>1
    <3> QED BY <3>1, <3>2
  <2> QED BY <1>5, <2>4
<1>10. IF writing THEN v.part = 1 => ids[v.cmd] = r[Len(r)].id + 1 ELSE r[Len(r)].id = last
  <2>1. CASE writing /\ u.cmd # Len(ids) /\ v.cmd = u.cmd + 1 /\ v.part = 1
    <3>1. u.cmd + 1 \in 1 .. Len(ids)
      BY <1>1, <2>1
    <3>2. ids[u.cmd + 1] = ids[1] + (u.cmd + 1) - 1 /\ ids[u.cmd] = ids[1] + u.cmd - 1
      BY <1>1, <1>2, <3>1, Zenon
    <3>3. ids[1] + (u.cmd + 1) - 1 = (ids[1] + u.cmd - 1) + 1
      <4>1. ids[1] \in Int /\ u.cmd \in Int
        BY <1>1, <1>2
      <4> QED BY <1>0, <4>1, Zenon
    <3> QED BY <1>5, <2>1, <3>2, <3>3
  <2>2. CASE ~ writing /\ u.cmd = Len(ids)
    BY <1>5, <2>2 DEF last
  <2> QED BY <2>1, <2>2
<1> QED BY <1>5, <1>7, <1>8, <1>9, <1>10 DEF Comes, last

LEMMA ComesWritingOn ==
    ASSUME Types, NEW ids \in Seq(Ids), Successive(ids), NEW p \in Nat,
           NEW s \in Seq(UnitType), NEW r \in Seq(UnitType), Len(r) = Len(s) + 1,
           \A i \in 1 .. Len(s) : r[i] = s[i],
           NEW u, u.cmd \in DOMAIN ids, u.part \in Nat \ {0},
           r[Len(s) + 1].id = ids[u.cmd], r[Len(s) + 1].part = u.part,
           Comes(ids, p, s, u, TRUE),
           NEW v, v.part # 1 \/ (u.cmd # Len(ids) /\ v.cmd = u.cmd + 1 /\ v.part = 1)
    PROVE  Comes(ids, p, r, v, TRUE)
  BY ComesWriting, Zenon

LEMMA ComesWritten ==
    ASSUME Types, NEW ids \in Seq(Ids), Successive(ids), NEW p \in Nat,
           NEW s \in Seq(UnitType), NEW r \in Seq(UnitType), Len(r) = Len(s) + 1,
           \A i \in 1 .. Len(s) : r[i] = s[i],
           NEW u, u.cmd \in DOMAIN ids, u.part \in Nat \ {0},
           r[Len(s) + 1].id = ids[u.cmd], r[Len(s) + 1].part = u.part,
           Comes(ids, p, s, u, TRUE), u.cmd = Len(ids), NEW v
    PROVE  Comes(ids, p, r, v, FALSE)
  BY ComesWriting, Zenon

\* A whole command is taken from the stream.
LEMMA ComesNext ==
    ASSUME Types, NEW ids \in Seq(Ids), Successive(ids), NEW p \in Nat,
           NEW s \in Seq(UnitType), Whole(s), Once(s), NEW e \in 1 .. Len(s), IsEol(s[e]),
           s # <<>>, s[1].id = s[e].id,
           NEW r \in Seq(UnitType), Len(r) = Len(s) - e, \A i \in 1 .. Len(s) - e : r[i] = s[e + i],
           NEW u, NEW writing \in BOOLEAN, Comes(ids, p, s, u, writing),
           writing => u.cmd \in DOMAIN ids
                      /\ (u.part # 1 => ~ IsEol(s[Len(s)]))
    PROVE  Comes(ids, p + 1, r, u, writing)
<1> DEFINE n == Len(s)
           m == Len(ids)
           last == ids[Len(ids)]
<1>0. /\ \A a \in Int : a + ((p + 1) + 1) - 1 = (a + (p + 1) - 1) + 1
      /\ \A a \in Int, x \in Int : a + x - 1 = (a + (p + 1) - 1) + 1 => x = (p + 1) + 1
  BY SMTT(30)
<1>1. n \in Nat /\ n > 0 /\ e \in 1 .. n /\ m \in Nat /\ DOMAIN ids = 1 .. m
  BY EmptySeq, LenProperties
<1>2. p + 1 \in 1 .. m /\ s[1].id = ids[p + 1] /\ s[e].id = ids[p + 1]
  BY LenProperties DEF Comes
<1>3. /\ \A i \in 1 .. m : ids[i] = ids[1] + i - 1 /\ ids[i] \in Int
      /\ ids[1] \in Int /\ last = ids[1] + m - 1
  <2>1. \A i \in 1 .. m : ids[i] \in Int
    BY ElementOfSeq DEF Ids
  <2>2. 1 \in 1 .. m /\ m \in 1 .. m
    BY <1>1, <1>2
  <2> QED BY <1>1, <2>1, <2>2, Zenon DEF Successive
<1>4. Whole(r)
  BY SuffixWhole, Zenon
<1>5. Len(r) = n - e /\ (r = <<>> <=> n = e)
  <2>1. r = <<>> <=> Len(r) = 0
    BY EmptySeq
  <2>2. Len(r) = n - e
    BY DEF n
  <2> HIDE DEF n
  <2> QED BY <1>1, <2>1, <2>2
<1>6. \A i \in 1 .. n - e : r[i] = s[e + i]
  BY DEF n
<1>7. /\ \A i \in 1 .. n : s[i].id <= last
      /\ \A i \in 1 .. n - 1 : s[i + 1].part = 1 => s[i + 1].id = s[i].id + 1
      /\ IF writing THEN u.part = 1 => ids[u.cmd] = s[n].id + 1 ELSE s[n].id = last
  BY DEF Comes
<1> HIDE DEF n, m, last
<1>8. ASSUME r # <<>> PROVE p + 1 < m /\ r[1].id = ids[(p + 1) + 1]
  <2>1. 1 \in 1 .. n - e /\ e \in 1 .. n - 1 /\ e + 1 \in 1 .. n /\ 1 \in 1 .. Len(r)
    BY <1>1, <1>5, <1>8
  <2>2. r[1] = s[e + 1]
    BY <1>6, <2>1
  <2>3. r[1].part = 1
    <3>1. r[1].part <= 1
      BY <1>4, <2>1 DEF Whole
    <3>2. r[1].part \in 1 .. Size[Kind(r[1].id)] /\ Size[Kind(r[1].id)] \in Nat
      BY <2>1, UnitIs, Zenon
    <3> QED BY <3>1, <3>2
  <2>4. s[e + 1].id = ids[p + 1] + 1 /\ s[e + 1].id <= last
    BY <1>2, <1>7, <2>1, <2>2, <2>3
  <2>5. ids[p + 1] = ids[1] + (p + 1) - 1
    BY <1>2, <1>3
  <2>6. p + 1 < m
    BY <1>1, <1>2, <1>3, <2>4, <2>5
  <2>7. (p + 1) + 1 \in 1 .. m
    BY <1>1, <2>6
  <2>8. ids[(p + 1) + 1] = ids[1] + ((p + 1) + 1) - 1
    BY <1>3, <2>7
  <2>9. ids[1] + ((p + 1) + 1) - 1 = (ids[1] + (p + 1) - 1) + 1
    BY <1>0, <1>3, Zenon
  <2> QED BY <2>2, <2>4, <2>5, <2>6, <2>8, <2>9
<1>9. \A i \in 1 .. Len(r) : r[i].id <= last
  <2>1. \A i \in 1 .. n - e : e + i \in 1 .. n
    BY <1>1
  <2> QED BY <1>5, <1>6, <1>7, <2>1
<1>10. ASSUME NEW i \in 1 .. Len(r) - 1, r[i + 1].part = 1 PROVE r[i + 1].id = r[i].id + 1
  <2>1. /\ i \in 1 .. n - e /\ i + 1 \in 1 .. n - e /\ e + i \in 1 .. n - 1
        /\ e + (i + 1) = (e + i) + 1
    BY <1>1, <1>5
  <2>2. r[i] = s[e + i] /\ r[i + 1] = s[(e + i) + 1]
    BY <1>6, <2>1
  <2> QED BY <1>7, <1>10, <2>1, <2>2
<1>11. r # <<>> => r[Len(r)] = s[n]
  <2> SUFFICES ASSUME r # <<>> PROVE r[Len(r)] = s[n]
    OBVIOUS
  <2>1. n - e \in 1 .. n - e /\ e + (n - e) = n
    BY <1>1, <1>5
  <2> QED BY <1>5, <1>6, <2>1
<1>12. ASSUME writing PROVE IF r = <<>> THEN u.cmd = (p + 1) + 1
                            ELSE u.part = 1 => ids[u.cmd] = r[Len(r)].id + 1
  <2>1. CASE r # <<>>
    BY <1>7, <1>11, <1>12, <2>1
  <2>2. CASE r = <<>>
    <3>1. IsEol(s[Len(s)])
      BY <1>5, <2>2 DEF n
    <3>2. ids[u.cmd] = ids[p + 1] + 1
      BY <1>2, <1>5, <1>7, <1>12, <2>2, <3>1
    <3>3. /\ u.cmd \in 1 .. m /\ ids[u.cmd] = ids[1] + u.cmd - 1
          /\ ids[p + 1] = ids[1] + (p + 1) - 1
      BY <1>1, <1>2, <1>3, <1>12
    <3>4. u.cmd = (p + 1) + 1
      <4>1. ids[1] + u.cmd - 1 = (ids[1] + (p + 1) - 1) + 1
        BY <3>2, <3>3
      <4>2. u.cmd \in Int
        BY <1>1, <3>3
      <4> QED BY <1>0, <1>3, <4>1, <4>2, Zenon
    <3> QED BY <2>2, <3>4
  <2> QED BY <2>1, <2>2
<1>13. ASSUME ~ writing PROVE IF r = <<>> THEN p + 1 = m ELSE r[Len(r)].id = last
  <2>1. CASE r # <<>>
    BY <1>7, <1>11, <1>13, <2>1
  <2>2. CASE r = <<>>
    <3>1. ids[p + 1] = last
      BY <1>2, <1>5, <1>7, <1>13, <2>2
    <3>2. ids[p + 1] = ids[1] + (p + 1) - 1
      BY <1>2, <1>3
    <3>3. p + 1 = m
      BY <1>1, <1>3, <3>1, <3>2
    <3> QED BY <2>2, <3>3
  <2> QED BY <2>1, <2>2
<1> QED BY <1>8, <1>9, <1>10, <1>12, <1>13 DEF Comes, m, last

LEMMA ComesNextWriting ==
    ASSUME Types, NEW ids \in Seq(Ids), Successive(ids), NEW p \in Nat,
           NEW s \in Seq(UnitType), Whole(s), Once(s), NEW e \in 1 .. Len(s), IsEol(s[e]),
           s # <<>>, s[1].id = s[e].id,
           NEW r \in Seq(UnitType), Len(r) = Len(s) - e, \A i \in 1 .. Len(s) - e : r[i] = s[e + i],
           NEW u, Comes(ids, p, s, u, TRUE), u.cmd \in DOMAIN ids,
           u.part # 1 => ~ IsEol(s[Len(s)])
    PROVE  Comes(ids, p + 1, r, u, TRUE)
  BY ComesNext, Zenon

LEMMA ComesNextWritten ==
    ASSUME Types, NEW ids \in Seq(Ids), Successive(ids), NEW p \in Nat,
           NEW s \in Seq(UnitType), Whole(s), Once(s), NEW e \in 1 .. Len(s), IsEol(s[e]),
           s # <<>>, s[1].id = s[e].id,
           NEW r \in Seq(UnitType), Len(r) = Len(s) - e, \A i \in 1 .. Len(s) - e : r[i] = s[e + i],
           NEW u, Comes(ids, p, s, u, FALSE)
    PROVE  Comes(ids, p + 1, r, u, FALSE)
  BY ComesNext, Zenon

\* When all is answered there are no lines any more, no commands, and no batch.
LEMMA NothingLeft ==
    ASSUME NEW ks \in Seq(Kinds), NEW os, NEW ids, NEW got, NEW partial, NEW s \in Seq(LineType),
           InOrder(ks, os, ids, s), GoesOn(ks, ids, got, partial, s),
           Len(got) = Cardinality(AnsweredOf(ks))
    PROVE  s = <<>>
<1> SUFFICES ASSUME s # <<>> PROVE FALSE
  OBVIOUS
<1> DEFINE i == Index(ids, s[1])
<1>1. 1 \in 1 .. Len(s)
  BY EmptySeq, LenProperties
<1>2. i \in AnsweredOf(ks) /\ RankIn(ks, i) = Len(got) + 1
  BY <1>1, Zenon DEF InOrder, RightLine, GoesOn
<1> HIDE DEF i
<1>3. /\ AnsweredOf(ks) \subseteq 1 .. Len(ks) /\ Len(ks) \in Nat
  BY DEF AnsweredOf
<1>4. i \in Nat /\ i <= Len(ks)
  BY <1>2, <1>3
<1>5. RankIn(ks, i) \in Nat /\ RankIn(ks, Len(ks)) \in Nat
  BY <1>3, <1>4, Ranks
<1>6. RankIn(ks, Len(ks)) = Cardinality(AnsweredOf(ks))
  BY <1>3, Ranks
<1>7. RankIn(ks, i) <= RankIn(ks, Len(ks))
  <2>1. i < Len(ks) \/ i = Len(ks)
    BY <1>3, <1>4
  <2>2. i < Len(ks) => RankIn(ks, i) <= RankIn(ks, Len(ks))
    BY <1>3, <1>4, RankRises
  <2> QED BY <1>5, <2>1, <2>2
<1> QED BY <1>2, <1>5, <1>6, <1>7

LEMMA AllHandled ==
    ASSUME NEW ks \in Seq(Kinds), NEW os, NEW ids, NEW p \in 0 .. Len(ks), Len(ids) = Len(ks),
           NEW s, NEW u, NEW k, Comes(ids, p, s, u, FALSE), BatchState(ks, os, ids, p, k),
           RankIn(ks, p) = Cardinality(AnsweredOf(ks)),
           s # <<>> /\ p < Len(ks) /\ s[1].id = ids[p + 1] => ks[p + 1] # "quit",
           \A i \in 1 .. Len(ks) : ks[i] = "batch" => \E j \in 1 .. Len(ks) : i < j /\ ks[j] = "dot"
    PROVE  s = <<>> /\ ~ k.batch_start
<1>1. Len(ks) \in Nat /\ p \in Nat /\ p <= Len(ks) /\ DOMAIN ks = 1 .. Len(ks)
  BY LenProperties
<1>2. ASSUME NEW d \in AnsweredOf(ks), p < d PROVE FALSE
  <2>1. AnsweredOf(ks) \subseteq 1 .. Len(ks)
    BY DEF AnsweredOf
  <2>2. d \in Nat /\ d <= Len(ks)
    BY <1>1, <2>1
  <2>3. RankIn(ks, p) \in Nat /\ RankIn(ks, d) \in Nat /\ RankIn(ks, Len(ks)) \in Nat
        /\ RankIn(ks, Len(ks)) = Cardinality(AnsweredOf(ks))
    BY <1>1, <2>2, Ranks
  <2>4. RankIn(ks, p) < RankIn(ks, d)
    BY <1>1, <1>2, <2>2, RankRises
  <2>5. RankIn(ks, d) <= RankIn(ks, Len(ks))
    <3>1. d < Len(ks) \/ d = Len(ks)
      BY <1>1, <2>2
    <3>2. d < Len(ks) => RankIn(ks, d) <= RankIn(ks, Len(ks))
      BY <1>1, <2>2, RankRises
    <3> QED BY <2>3, <3>1, <3>2
  <2> QED BY <2>3, <2>4, <2>5
\* A dot that is still to come would be answered.
<1>3. ASSUME InABatch(ks, p + 1) PROVE p < Len(ks) /\ ks[p + 1] = "dot"
  <2>1. PICK j \in 1 .. p : ks[j] = "batch" /\ \A l \in j + 1 .. p : ks[l] # "dot"
    BY <1>3 DEF InABatch
  <2>2. PICK d \in 1 .. Len(ks) : j < d /\ ks[d] = "dot"
    BY <1>1, <2>1
  <2>3. p < d
    <3>1. d \notin j + 1 .. p
      BY <2>1, <2>2
    <3> QED BY <1>1, <2>1, <2>2, <3>1
  <2>4. d \in AnsweredOf(ks)
    BY <1>1, <2>2 DEF AnsweredOf
  <2> QED BY <1>2, <2>3, <2>4
<1>4. ASSUME s # <<>> PROVE FALSE
  <2>1. p < Len(ks) /\ s[1].id = ids[p + 1]
    BY <1>4 DEF Comes
  <2>2. p + 1 \in AnsweredOf(ks)
    BY <1>1, <1>3, <1>4, <2>1 DEF AnsweredOf
  <2> QED BY <1>1, <1>2, <2>2
<1>5. ASSUME k.batch_start PROVE FALSE
  <2>1. p = Len(ids)
    BY <1>4 DEF Comes
  <2>2. InABatch(ks, p + 1)
    <3>1. PICK start \in 1 .. p : Opens(ks, p + 1, start)
      BY <1>5 DEF BatchState
    <3> QED BY <1>1, <3>1, OpensIsIn
  <2> QED BY <1>1, <1>3, <2>1, <2>2
<1> QED BY <1>4, <1>5

\* What the client finds, and what the daemon has to do, are the same.
SameWay(c) ==
    /\ Lines(c)' = Lines(c) /\ Stream(c)' = Stream(c) /\ (Broken(c)' <=> Broken(c))
    /\ conn'[c].batch_start = conn[c].batch_start /\ conn'[c].batch_cmd = conn[c].batch_cmd
    /\ conn'[c].wbuf = conn[c].wbuf

LEMMA SameBatch ==
    ASSUME NEW ks, NEW os, NEW ids, NEW p, NEW k, BatchState(ks, os, ids, p, k),
           NEW r, r.batch_start = k.batch_start, r.batch_cmd = k.batch_cmd, r.wbuf = k.wbuf
    PROVE  BatchState(ks, os, ids, p, r)
  BY DEF BatchState

\* What has been read stays right.
LEMMA ReadsStay ==
    ASSUME Types, NEW t \in Threads, KindsOf(t)' = KindsOf(t), Later(OutcomesOf(t), OutcomesOf(t)'),
           call'[t] = call[t], answers'[t] = answers[t], ReadsRight(t)
    PROVE  ReadsRight(t)'
<1>1. KindsOf(t) \in Seq(Kinds) /\ DOMAIN OutcomesOf(t) = 1 .. Len(KindsOf(t))
  BY ViewTypes
<1>2. ReadRight(KindsOf(t), OutcomesOf(t)', call[t], answers[t])
  BY <1>1, WayStays, Zenon DEF ReadsRight
<1> QED BY <1>2 DEF ReadsRight

LEMMA HolderIs ==
    ASSUME Types, Locked, NEW t \in Threads, pc[t] \in {"write", "read"}
    PROVE  sd \in Conns /\ sd # 0 /\ lock = t /\ lock # NoThread
  BY Holder, ThreadsAssumption, Zenon

LEMMA QuietAnswers ==
    ASSUME Types, Locked, AnswerInv, UNCHANGED <<clientVars, commands>>,
           \A t \in Threads : Later(OutcomesOf(t), OutcomesOf(t)'),
           \A t \in Threads : pc[t] \in {"write", "read"} => OutcomesOf(t)' = OutcomesOf(t),
           sd # 0 => SameWay(sd)
    PROVE  AnswerInv'
<1>1. UNCHANGED <<lock, sd, pc, call, unsent, answer, answers>>
  BY DEF clientVars
<1>2. \A t \in Threads : KindsOf(t)' = KindsOf(t)
  BY <1>1 DEF KindsOf, Kind
<1>3. ASSUME NEW t \in Threads PROVE ReadsRight(t) => ReadsRight(t)'
  BY <1>1, <1>2, ReadsStay
<1>4. ASSUME NEW t \in Threads, pc[t] \in {"write", "read"}
      PROVE  /\ Lines(sd)' = Lines(sd) /\ Stream(sd)' = Stream(sd) /\ (Broken(sd)' <=> Broken(sd))
             /\ OutcomesOf(t)' = OutcomesOf(t)
             /\ conn'[sd].batch_start = conn[sd].batch_start /\ conn'[sd].batch_cmd = conn[sd].batch_cmd
             /\ conn'[sd].wbuf = conn[sd].wbuf
  BY <1>1, <1>4, HolderIs DEF SameWay
<1>5. Reading'
  <2>1. ASSUME NEW t \in Threads, pc[t] \in {"write", "read"} PROVE WillRead(t) => WillRead(t)'
    BY <1>1, <1>2, <1>4, <2>1 DEF WillRead
  <2> QED BY <1>1, <1>2, <1>3, <2>1 DEF AnswerInv, Reading
<1>6. Progress'
  <2> SUFFICES ASSUME NEW t \in Threads, pc[t] \in {"write", "read"}, ~ Broken(sd)', ~ Blocked'
               PROVE  (\E p \in 0 .. Len(call[t]) : HasHandled(t, p, pc[t] = "write"))'
    BY <1>1 DEF Progress
  <2>1. ~ Broken(sd) /\ ~ Blocked
    BY <1>1, <1>4 DEF Blocked, Kind
  <2>2. PICK p \in 0 .. Len(call[t]) : HasHandled(t, p, pc[t] = "write")
    BY <2>1 DEF AnswerInv, Progress
  <2>3. HasHandled(t, p, pc[t] = "write")'
    BY <1>1, <1>2, <1>4, <2>2, SameBatch DEF HasHandled
  <2> QED BY <1>1, <2>3
<1>7. Between'
  BY <1>1 DEF AnswerInv, Between, SameWay, Blocked, Kind
<1> QED BY <1>5, <1>6, <1>7 DEF AnswerInv

\* The connection breaks: the client finds at most what was on its way.
LEMMA BreakAnswers ==
    ASSUME Types, Locked, AnswerInv, UNCHANGED <<clientVars, commands>>,
           \A t \in Threads : Later(OutcomesOf(t), OutcomesOf(t)'),
           sd \in Conns, Broken(sd)', NEW r \in Seq(LineType), Lines(sd)' = r,
           Len(r) <= Len(Lines(sd)), \A l \in 1 .. Len(r) : r[l] = Lines(sd)[l]
    PROVE  AnswerInv'
<1>1. UNCHANGED <<lock, sd, pc, call, unsent, answer, answers>>
  BY DEF clientVars
<1>2. \A t \in Threads : KindsOf(t)' = KindsOf(t)
  BY <1>1 DEF KindsOf, Kind
<1>3. ASSUME NEW t \in Threads PROVE ReadsRight(t) => ReadsRight(t)'
  BY <1>1, <1>2, ReadsStay
<1>4. Lines(sd) \in Seq(LineType)
  BY LinesTypes, Zenon
<1>5. Reading'
  <2>1. ASSUME NEW t \in Threads, WillRead(t) PROVE WillRead(t)'
    <3>1. /\ InOrder(KindsOf(t), OutcomesOf(t), call[t], r)
          /\ GoesOn(KindsOf(t), call[t], answers[t], answer[t], r)
      BY <1>4, <2>1, PrefixInOrder DEF WillRead
    <3>2. InOrder(KindsOf(t), OutcomesOf(t)', call[t], r)
      BY <3>1, ViewTypes, WayStays, Zenon
    <3> QED BY <1>1, <1>2, <3>1, <3>2 DEF WillRead
  <2> QED BY <1>1, <1>2, <1>3, <2>1 DEF AnswerInv, Reading
<1>6. Progress'
  BY <1>1 DEF Progress
<1>7. Between'
  <2> SUFFICES ASSUME lock = NoThread, sd # 0 PROVE r = <<>>
    BY <1>1 DEF Between
  <2>1. Len(Lines(sd)) = 0
    BY EmptySeq DEF AnswerInv, Between
  <2> QED BY <2>1, EmptySeq, LenProperties
<1> QED BY <1>5, <1>6, <1>7 DEF AnswerInv

LEMMA SameOutcomes ==
    ASSUME UNCHANGED <<call, outcome>>, NEW t \in Threads
    PROVE  OutcomesOf(t)' = OutcomesOf(t) /\ Later(OutcomesOf(t), OutcomesOf(t)')
  BY DEF OutcomesOf, Later

LEMMA FromIsFirst ==
    ASSUME Types, NEW c \in Conns
    PROVE  /\ Len(conn[c].from) <= Len(Lines(c)) /\ Len(conn[c].from) \in Nat
           /\ \A l \in 1 .. Len(conn[c].from) : conn[c].from[l] = Lines(c)[l]
<1> DEFINE r == conn[c].from
           s == conn[c].out
<1>1. r \in Seq(LineType) /\ s \in Seq(LineType) /\ Len(r) \in Nat /\ Len(s) \in Nat
  BY StreamTypes, ConnIs, Zenon
<1>2. /\ Len(r \o s) = Len(r) + Len(s)
      /\ \A l \in 1 .. Len(r) + Len(s) : (r \o s)[l] = IF l <= Len(r) THEN r[l] ELSE s[l - Len(r)]
  BY <1>1, ConcatProperties, Zenon
<1>3. Lines(c) = r \/ Lines(c) = r \o s
  BY Zenon DEF Lines
<1> HIDE DEF r, s
<1>4. \A l \in 1 .. Len(r) : l \in 1 .. Len(r) + Len(s) /\ l <= Len(r)
  BY <1>1
<1>5. Len(r) <= Len(Lines(c)) /\ \A l \in 1 .. Len(r) : r[l] = Lines(c)[l]
  BY <1>1, <1>2, <1>3, <1>4
<1> QED BY <1>1, <1>5 DEF r

\* A step of the daemon that handles no command.
SameTo(c, k) ==
    /\ k.rbuf \o k.to = Stream(c) /\ (k.lost \/ k.server = "closed" <=> Broken(c))
    /\ (IF Broken(c) THEN k.from ELSE k.from \o k.out) = Lines(c)
    /\ k.batch_start = conn[c].batch_start /\ k.batch_cmd = conn[c].batch_cmd
    /\ k.wbuf = conn[c].wbuf
Breaks(c, k) ==
    /\ k.lost \/ k.server = "closed"
    /\ Len(k.from) <= Len(Lines(c)) /\ \A l \in 1 .. Len(k.from) : k.from[l] = Lines(c)[l]

LEMMA DaemonAnswers ==
    ASSUME Types, Locked, AnswerInv, UNCHANGED <<clientVars, commands, outcome>>, NEW c \in Conns,
           NEW k \in ConnType, conn' = [conn EXCEPT ![c] = k], SameTo(c, k) \/ Breaks(c, k)
    PROVE  AnswerInv'
<1>1. conn'[c] = k /\ Stream(c)' = k.rbuf \o k.to /\ \A d \in Conns \ {c} : conn'[d] = conn[d]
  BY OneConn, Zenon
<1>2. \A t \in Threads : OutcomesOf(t)' = OutcomesOf(t) /\ Later(OutcomesOf(t), OutcomesOf(t)')
  BY SameOutcomes DEF clientVars
<1>3. sd' = sd /\ (sd # 0 => sd \in Conns)
  BY DEF clientVars, Types, ClientTypes
<1>4. Broken(c)' <=> k.lost \/ k.server = "closed"
  BY <1>1 DEF Broken
<1>5. Lines(c)' = IF Broken(c)' THEN k.from ELSE k.from \o k.out
  BY <1>1 DEF Lines
<1>6. CASE sd # 0 /\ sd # c
  <2>1. conn'[sd] = conn[sd] /\ sd' = sd
    BY <1>1, <1>3, <1>6
  <2>2. (Broken(sd)' <=> Broken(sd)) /\ Stream(sd)' = Stream(sd)
    BY <2>1, Zenon DEF Stream, Broken
  <2>3. Lines(sd)' = Lines(sd)
    BY <2>1, <2>2 DEF Lines
  <2>4. SameWay(sd)
    BY <2>1, <2>2, <2>3 DEF SameWay
  <2> QED BY <1>2, <2>4, QuietAnswers
<1>7. CASE sd = 0
  BY <1>2, <1>7, QuietAnswers
<1>8. CASE sd = c /\ SameTo(c, k)
  <2>1. SameWay(sd)
    BY <1>1, <1>3, <1>4, <1>5, <1>8, Zenon DEF SameWay, SameTo
  <2> QED BY <1>2, <2>1, QuietAnswers
<1>9. CASE sd = c /\ Breaks(c, k)
  <2>1. /\ Broken(sd)' /\ Lines(sd)' = k.from /\ k.from \in Seq(LineType) /\ sd \in Conns
        /\ Len(k.from) <= Len(Lines(sd)) /\ \A l \in 1 .. Len(k.from) : k.from[l] = Lines(sd)[l]
    <3>1. k.from \in Seq(LineType)
      BY ConnIs, Zenon
    <3> QED BY <1>3, <1>4, <1>5, <1>9, <3>1, Zenon DEF Breaks
  <2> QED BY <1>2, <2>1, BreakAnswers
<1> QED BY <1>3, <1>6, <1>7, <1>8, <1>9

LEMMA ServerReadAnswers ==
    ASSUME StreamInv, AnswerInv, NEW c \in Conns, NEW n \in 1 .. RBUF_SIZE, ServerRead(c, n)
    PROVE  AnswerInv'
<1>0. Types /\ Locked
  BY DEF StreamInv
<1>1. PICK k \in ConnType :
         /\ conn' = [conn EXCEPT ![c] = k] /\ k.rbuf \o k.to = Stream(c)
         /\ k.from = conn[c].from /\ k.out = conn[c].out /\ k.server = conn[c].server
         /\ k.lost = conn[c].lost /\ k.batch_start = conn[c].batch_start
         /\ k.batch_cmd = conn[c].batch_cmd /\ k.wbuf = conn[c].wbuf
  BY ServerReadFacts, Zenon
<1>2. SameTo(c, k)
  BY <1>1 DEF SameTo, Broken, Lines
<1> QED BY <1>0, <1>1, <1>2, DaemonAnswers, Zenon DEF ServerRead, daemonOnly

LEMMA CloseAnswers ==
    ASSUME StreamInv, AnswerInv, UNCHANGED <<clientVars, commands, outcome>>,
           NEW c \in Conns, conn' = [conn EXCEPT ![c] = Closed(conn[c])]
    PROVE  AnswerInv'
<1>0. Types /\ Locked
  BY DEF StreamInv
<1>1. conn[c] \in ConnType /\ conn[c].from \in Seq(LineType)
  BY <1>0, StreamTypes, ConnIs, Zenon
<1>2. Closed(conn[c]) \in ConnType /\ Closed(conn[c]).server = "closed" /\ Closed(conn[c]).from = conn[c].from
  BY <1>1, ClosedConn, Zenon
<1>3. Breaks(c, Closed(conn[c]))
  BY <1>0, <1>2, FromIsFirst DEF Breaks
<1> QED BY <1>0, <1>2, <1>3, DaemonAnswers, Zenon

LEMMA ServerCloseAnswers ==
    ASSUME StreamInv, AnswerInv, NEW c \in Conns, ServerClose(c)
    PROVE  AnswerInv'
<1> DEFINE k == [Closed(conn[c]) EXCEPT !.from = <<>>]
<1>0. Types /\ Locked /\ UNCHANGED <<clientVars, commands, outcome>>
  BY DEF StreamInv, ServerClose, daemonOnly
<1>1. CASE conn' = [conn EXCEPT ![c] = Closed(conn[c])]
  BY <1>0, <1>1, CloseAnswers, Zenon
<1>2. CASE conn' = [conn EXCEPT ![c] = k]
  <2>1. conn[c] \in ConnType /\ <<>> \in Seq(LineType)
    BY <1>0, StreamTypes, EmptySeq, Zenon
  <2>2. Closed(conn[c]) \in ConnType /\ k \in ConnType /\ Closed(conn[c]).server = "closed"
    BY <2>1, ClosedConn, Zenon
  <2>3. k.server = "closed" /\ k.from = <<>>
    BY <2>2 DEF ConnType
  <2> HIDE DEF k
  <2>4. Breaks(c, k)
    <3>1. Len(<<>>) = 0 /\ Len(Lines(c)) \in Nat
      BY <1>0, LinesTypes, EmptySeq, LenProperties
    <3> QED BY <2>3, <3>1 DEF Breaks
  <2> QED BY <1>0, <1>2, <2>2, <2>4, DaemonAnswers, Zenon
<1> QED BY <1>1, <1>2 DEF ServerClose

\* A line goes its way.
LEMMA MoveOne ==
    ASSUME NEW S, NEW r \in Seq(S), NEW s \in Seq(S), s # <<>>
    PROVE  Append(r, Head(s)) \o Tail(s) = r \o s
<1> DEFINE a == Append(r, Head(s))
           b == Tail(s)
<1>1. /\ b \in Seq(S) /\ Len(b) = Len(s) - 1 /\ Len(s) \in Nat /\ Len(s) > 0
      /\ \A l \in 1 .. Len(s) - 1 : b[l] = s[l + 1]
      /\ Head(s) = s[1] /\ s[1] \in S /\ Len(r) \in Nat
  BY TailIs, LenProperties
<1>2. /\ a \in Seq(S) /\ Len(a) = Len(r) + 1 /\ a[Len(r) + 1] = s[1]
      /\ \A l \in 1 .. Len(r) : a[l] = r[l]
  BY <1>1, AppendProperties
<1> HIDE DEF a, b
<1>3. /\ Len(a \o b) = (Len(r) + 1) + (Len(s) - 1) /\ a \o b \in Seq(S)
      /\ \A l \in 1 .. (Len(r) + 1) + (Len(s) - 1) :
            (a \o b)[l] = IF l <= Len(r) + 1 THEN a[l] ELSE b[l - (Len(r) + 1)]
  <2>1. /\ Len(a \o b) = Len(a) + Len(b) /\ a \o b \in Seq(S)
        /\ \A l \in 1 .. Len(a) + Len(b) : (a \o b)[l] = IF l <= Len(a) THEN a[l] ELSE b[l - Len(a)]
    BY <1>1, <1>2, ConcatProperties, Zenon
  <2> QED BY <1>1, <1>2, <2>1
<1>4. /\ Len(r \o s) = Len(r) + Len(s) /\ r \o s \in Seq(S)
      /\ \A l \in 1 .. Len(r) + Len(s) : (r \o s)[l] = IF l <= Len(r) THEN r[l] ELSE s[l - Len(r)]
  BY ConcatProperties
<1>5. (Len(r) + 1) + (Len(s) - 1) = Len(r) + Len(s)
  BY <1>1
<1>6. ASSUME NEW l \in 1 .. Len(r) + Len(s) PROVE (a \o b)[l] = (r \o s)[l]
  <2>1. CASE l <= Len(r)
    <3>1. l <= Len(r) + 1 /\ l \in 1 .. Len(r)
      BY <1>1, <2>1
    <3> QED BY <1>2, <1>3, <1>4, <1>5, <2>1, <3>1
  <2>2. CASE l = Len(r) + 1
    <3>1. l <= Len(r) + 1 /\ ~ (l <= Len(r)) /\ l - Len(r) = 1
      BY <1>1, <2>2
    <3> QED BY <1>2, <1>3, <1>4, <1>5, <2>2, <3>1
  <2>3. CASE l > Len(r) + 1
    <3>1. /\ ~ (l <= Len(r) + 1) /\ ~ (l <= Len(r)) /\ l - (Len(r) + 1) \in 1 .. Len(s) - 1
          /\ (l - (Len(r) + 1)) + 1 = l - Len(r)
      BY <1>1, <2>3
    <3> QED BY <1>1, <1>3, <1>4, <1>5, <3>1, Zenon
  <2>4. l <= Len(r) \/ l = Len(r) + 1 \/ l > Len(r) + 1
    <3>1. \A x \in Int, y \in Int : x <= y \/ x = y + 1 \/ x > y + 1
      OBVIOUS
    <3>2. l \in Int /\ Len(r) \in Int
      BY <1>1
    <3> QED BY <3>1, <3>2
  <2> QED BY <2>1, <2>2, <2>3, <2>4, Zenon
<1>7. a \o b = r \o s
  BY <1>3, <1>4, <1>5, <1>6, SeqEqual, Zenon
<1> QED BY <1>7 DEF a, b

LEMMA ServerWriteAnswers ==
    ASSUME StreamInv, AnswerInv, NEW c \in Conns, ServerWrite(c)
    PROVE  AnswerInv'
<1> DEFINE o == conn[c]
           k == [o EXCEPT !.from = Append(@, Head(o.out)), !.out = Tail(@)]
<1>0. Types /\ Locked /\ UNCHANGED <<clientVars, commands, outcome>>
  BY DEF StreamInv, ServerWrite, daemonOnly
<1>1. o \in ConnType /\ o.out \in Seq(LineType) /\ o.from \in Seq(LineType) /\ o.out # <<>>
      /\ o.server = "open" /\ ~ o.lost
  BY <1>0, StreamTypes, ConnIs, Zenon DEF ServerWrite
<1>2. Append(o.from, Head(o.out)) \in Seq(LineType) /\ Tail(o.out) \in Seq(LineType)
  <2>1. Head(o.out) \in LineType /\ Tail(o.out) \in Seq(LineType)
    BY <1>1, HeadTailProperties
  <2> QED BY <1>1, <2>1, AppendProperties
<1>3. k \in ConnType
  BY <1>1, <1>2, Zenon DEF ConnType
<1>4. conn' = [conn EXCEPT ![c] = k]
  BY <1>0, Zenon DEF ServerWrite, Types, DaemonTypes
<1>5. /\ k.rbuf = o.rbuf /\ k.to = o.to /\ k.server = "open" /\ k.lost = o.lost
      /\ k.batch_cmd = o.batch_cmd /\ k.batch_start = o.batch_start /\ k.wbuf = o.wbuf
      /\ k.from \o k.out = o.from \o o.out
  <2>1. k.from \o k.out = Append(o.from, Head(o.out)) \o Tail(o.out)
    BY <1>1, Zenon DEF ConnType
  <2>2. Append(o.from, Head(o.out)) \o Tail(o.out) = o.from \o o.out
    <3> HIDE DEF k
    <3> QED BY <1>1, MoveOne, Zenon
  <2> QED BY <1>1, <2>1, <2>2, Zenon DEF ConnType
<1>6. SameTo(c, k)
  <2> HIDE DEF k
  <2> QED BY <1>1, <1>5, Zenon DEF SameTo, Broken, Lines, Stream
<1> HIDE DEF k
<1> QED BY <1>0, <1>3, <1>4, <1>6, DaemonAnswers, Zenon

LEMMA ServerWriteFailsAnswers ==
    ASSUME StreamInv, AnswerInv, NEW c \in Conns, ServerWriteFails(c)
    PROVE  AnswerInv'
<1> DEFINE o == conn[c]
           k == [o EXCEPT !.out = <<>>]
<1>0. Types /\ Locked /\ UNCHANGED <<clientVars, commands, outcome>>
  BY DEF StreamInv, ServerWriteFails, daemonOnly
<1>1. CASE conn' = [conn EXCEPT ![c] = k]
  <2>1. o \in ConnType
    BY <1>0, StreamTypes, Zenon
  <2>2. k \in ConnType
    BY <2>1, EmptySeq, Zenon DEF ConnType
  <2>3. k.rbuf = o.rbuf /\ k.to = o.to /\ k.server = o.server /\ k.lost = o.lost /\ k.from = o.from
        /\ k.batch_cmd = o.batch_cmd /\ k.batch_start = o.batch_start /\ k.wbuf = o.wbuf
    BY <2>1 DEF ConnType
  <2> HIDE DEF k
  <2>4. CASE sd = c
    <3>1. ~ o.closed
      BY <1>0, <2>4 DEF Locked, Conns
    <3>2. o.lost
      BY <3>1 DEF ServerWriteFails
    <3>3. SameTo(c, k)
      BY <2>3, <3>2 DEF SameTo, Broken, Lines, Stream
    <3> QED BY <1>0, <1>1, <2>2, <3>3, DaemonAnswers, Zenon
  <2>5. CASE sd # c
    <3>1. /\ \A d \in Conns \ {c} : conn'[d] = conn[d]
          /\ \A t \in Threads : OutcomesOf(t)' = OutcomesOf(t) /\ Later(OutcomesOf(t), OutcomesOf(t)')
      BY <1>0, <1>1, <2>2, OneConn, SameOutcomes DEF clientVars
    <3>2. sd # 0 => SameWay(sd)
      BY <1>0, <2>5, <3>1, Zenon DEF SameWay, Lines, Stream, Broken, clientVars, Types, ClientTypes
    <3> QED BY <1>0, <3>1, <3>2, QuietAnswers
  <2> QED BY <2>4, <2>5
<1>2. CASE conn' = [conn EXCEPT ![c] = Closed(o)]
  BY <1>0, <1>2, CloseAnswers, Zenon
<1> QED BY <1>1, <1>2, Zenon DEF ServerWriteFails

LEMMA LoseAnswers ==
    ASSUME StreamInv, AnswerInv, NEW c \in Conns, Lose(c)
    PROVE  AnswerInv'
<1> DEFINE o == conn[c]
<1>0. Types /\ Locked /\ UNCHANGED <<clientVars, commands, outcome>>
  BY DEF StreamInv, Lose
<1>1. o \in ConnType /\ o.to \in Seq(UnitType) /\ o.from \in Seq(LineType)
  BY <1>0, StreamTypes, ConnIs, Zenon
<1>2. PICK i \in 0 .. Len(o.to), j \in 0 .. Len(o.from) :
         conn' = [conn EXCEPT ![c].lost = TRUE, ![c].to = SubSeq(@, 1, i), ![c].from = SubSeq(@, 1, j)]
  BY DEF Lose
<1> DEFINE k == [o EXCEPT !.lost = TRUE, !.to = SubSeq(@, 1, i), !.from = SubSeq(@, 1, j)]
<1>3. conn' = [conn EXCEPT ![c] = k]
  BY <1>0, <1>2, Zenon DEF Types, DaemonTypes
<1>4. /\ SubSeq(o.to, 1, i) \in Seq(UnitType)
      /\ SubSeq(o.from, 1, j) \in Seq(LineType) /\ Len(SubSeq(o.from, 1, j)) = j
      /\ \A l \in 1 .. j : SubSeq(o.from, 1, j)[l] = o.from[l]
  BY <1>1, PrefixOf
<1>5. k \in ConnType /\ k.lost /\ k.from = SubSeq(o.from, 1, j)
  BY <1>1, <1>4, Zenon DEF ConnType
<1> HIDE DEF k
<1>6. Breaks(c, k)
  <2>1. j \in Nat /\ j <= Len(o.from) /\ \A l \in 1 .. j : l \in 1 .. Len(o.from)
    BY <1>1, LenProperties
  <2>2. /\ Len(o.from) <= Len(Lines(c)) /\ Len(o.from) \in Nat /\ Len(Lines(c)) \in Nat
        /\ \A l \in 1 .. Len(o.from) : o.from[l] = Lines(c)[l]
    BY <1>0, FromIsFirst, LinesTypes, LenProperties
  <2> QED BY <1>4, <1>5, <2>1, <2>2 DEF Breaks
<1> QED BY <1>0, <1>3, <1>5, <1>6, DaemonAnswers, Zenon

-----------------------------------------------------------------------------
(* The answers when a command is handled.                                  *)

\* What is sent: in a batch nothing but a note of what fails.
Sent(k, r) ==
    /\ r \in ConnType /\ r.rbuf = k.rbuf /\ r.to = k.to /\ r.from = k.from
    /\ r.server = k.server /\ r.lost = k.lost
    /\ r.batch_start = k.batch_start /\ r.batch_cmd = k.batch_cmd
LEMMA SendError ==
    ASSUME NEW k \in ConnType, NEW id \in Ids
    PROVE  LET r == send_response(k, id, FALSE, <<>>) IN
           /\ Sent(k, r)
           /\ k.batch_start => /\ r.out = k.out
                               /\ r.wbuf = Append(k.wbuf, [n |-> k.batch_cmd, id |-> id])
           /\ ~ k.batch_start => r.out = Response(id, -1, <<>>)
<1>1. <<>> \in Seq(InfoType) /\ FALSE \in BOOLEAN
  BY EmptySeq
<1> DEFINE r == send_response(k, id, FALSE, <<>>)
<1>2. /\ r \in ConnType /\ r.rbuf = k.rbuf /\ r.to = k.to /\ r.from = k.from
      /\ r.server = k.server /\ r.closed = k.closed /\ r.lost = k.lost
      /\ r.batch_start = k.batch_start /\ r.batch_cmd = k.batch_cmd
      /\ k.batch_start => r.out = k.out
                          /\ r.wbuf = (IF FALSE THEN k.wbuf
                                       ELSE Append(k.wbuf, [n |-> k.batch_cmd, id |-> id]))
      /\ ~ k.batch_start => r.wbuf = <<>>
                            /\ r.out = (IF FALSE THEN Response(id, Len(<<>>), <<>>)
                                        ELSE Response(id, -1, <<>>))
  BY <1>1, SendTypes, ZenonT(60)
<1> QED BY <1>2, Zenon DEF Sent
LEMMA SendOk ==
    ASSUME NEW k \in ConnType, NEW id \in Ids, NEW info \in Seq(InfoType)
    PROVE  LET r == send_response(k, id, TRUE, info) IN
           /\ Sent(k, r)
           /\ k.batch_start => r.out = k.out /\ r.wbuf = k.wbuf
           /\ ~ k.batch_start => r.wbuf = <<>> /\ r.out = Response(id, Len(info), info)
<1> DEFINE r == send_response(k, id, TRUE, info)
<1>1. TRUE \in BOOLEAN
  OBVIOUS
<1>2. /\ r \in ConnType /\ r.rbuf = k.rbuf /\ r.to = k.to /\ r.from = k.from
      /\ r.server = k.server /\ r.closed = k.closed /\ r.lost = k.lost
      /\ r.batch_start = k.batch_start /\ r.batch_cmd = k.batch_cmd
      /\ k.batch_start => r.out = k.out
                          /\ r.wbuf = (IF TRUE THEN k.wbuf
                                       ELSE Append(k.wbuf, [n |-> k.batch_cmd, id |-> id]))
      /\ ~ k.batch_start => r.wbuf = <<>>
                            /\ r.out = (IF TRUE THEN Response(id, Len(info), info)
                                        ELSE Response(id, -1, <<>>))
  BY <1>1, SendTypes, ZenonT(60)
<1> QED BY <1>2, Zenon DEF Sent

\* The command gets its outcome.
Results(id, result) == outcome' = [outcome EXCEPT ![id] = result]

LEMMA OutcomesBecome ==
    ASSUME Types, CallShape, NEW t \in Threads, NEW p \in Nat, p < Len(call[t]),
           HandledUpTo(OutcomesOf(t), p), call' = call,
           NEW result, result # "none", outcome' = [outcome EXCEPT ![call[t][p + 1]] = result]
    PROVE  Outcome(OutcomesOf(t), OutcomesOf(t)', call[t], Len(call[t]), p, result)
<1> DEFINE os == OutcomesOf(t)
           new == OutcomesOf(t)'
           n == Len(call[t])
<1>1. /\ n \in Nat /\ DOMAIN call[t] = 1 .. n /\ DOMAIN os = 1 .. n
      /\ \A i \in 1 .. n : call[t][i] \in Ids
  BY ViewTypes
<1>2. new = [i \in 1 .. n |-> outcome'[call[t][i]]] /\ os = [i \in 1 .. n |-> outcome[call[t][i]]]
  BY <1>1 DEF OutcomesOf
<1>3. DOMAIN outcome = Ids
  BY DEF Types, HistoryTypes, Ids
<1>4. p + 1 \in 1 .. n
  BY <1>1
<1>5. \A i \in 1 .. n : i # p + 1 => call[t][i] # call[t][p + 1]
  <2>1. \A i \in 1 .. n : call[t][i] = call[t][1] + i - 1
    BY <1>1 DEF CallShape
  <2>2. call[t][1] \in Int
    <3>1. 1 \in 1 .. n
      BY <1>4
    <3> QED BY <1>1, <3>1 DEF Ids
  <2>3. \A x \in Int, i \in Int, j \in Int : x + i - 1 = x + j - 1 => i = j
    OBVIOUS
  <2> QED BY <1>1, <1>4, <2>1, <2>2, <2>3
<1>6. outcome'[call[t][p + 1]] = result /\ \A id \in Ids : id # call[t][p + 1] => outcome'[id] = outcome[id]
  BY <1>1, <1>3, <1>4
<1>7. Becomes(os, new, n, p, result)
  BY <1>1, <1>2, <1>4, <1>5, <1>6 DEF Becomes
<1> HIDE DEF os, new, n
<1>8. HandledUpTo(os, p) /\ p < n
  BY DEF os, n
<1>9. Outcome(os, new, call[t], n, p, result)
  BY <1>1, <1>7, <1>8, BecomesOutcome
<1> QED BY <1>9 DEF os, new, n

\* What becomes of the connection on account of a command that is no QUIT.
Replies(t, p, c, k) ==
    \E r \in ConnType :
        /\ conn' = [conn EXCEPT ![c] = r]
        /\ r.rbuf = k.rbuf /\ r.to = k.to /\ r.from = k.from /\ r.server = k.server /\ r.lost = k.lost
        /\ Reply(KindsOf(t), OutcomesOf(t)', call[t], p + 1, r)
        /\ Later(OutcomesOf(t), OutcomesOf(t)') /\ HandledUpTo(OutcomesOf(t)', p + 1)

\* The state in which a command is answered.
Next1(t, p, o, k, id) ==
    /\ Types /\ CallShape /\ call' = call /\ p < Len(call[t]) /\ call[t][p + 1] = id
    /\ HandledUpTo(OutcomesOf(t), p) /\ BatchState(KindsOf(t), OutcomesOf(t), call[t], p, o)
    /\ k.batch_start = o.batch_start /\ k.wbuf = o.wbuf /\ k.out = <<>>
    /\ k.batch_cmd = (IF o.batch_start THEN o.batch_cmd + 1 ELSE o.batch_cmd)

LEMMA NextView ==
    ASSUME NEW t \in Threads, NEW p \in Nat, NEW o, NEW k, NEW id, Next1(t, p, o, k, id),
           NEW result, result # "none", Results(id, result)
    PROVE  /\ KindsOf(t) \in Seq(Kinds) /\ p < Len(KindsOf(t)) /\ KindsOf(t)[p + 1] = Kind(id)
           /\ call[t] \in Seq(1 .. Len(commands)) /\ Len(call[t]) = Len(KindsOf(t)) /\ id \in Ids
           /\ BatchState(KindsOf(t), OutcomesOf(t), call[t], p, o) /\ Len(commands) \in Nat
           /\ Outcome(OutcomesOf(t), OutcomesOf(t)', call[t], Len(KindsOf(t)), p, result)
           /\ Later(OutcomesOf(t), OutcomesOf(t)') /\ HandledUpTo(OutcomesOf(t)', p + 1)
<1>1. Types /\ CallShape /\ p < Len(call[t]) /\ call' = call /\ call[t][p + 1] = id
      /\ HandledUpTo(OutcomesOf(t), p) /\ BatchState(KindsOf(t), OutcomesOf(t), call[t], p, o)
  BY DEF Next1
<1>2. Outcome(OutcomesOf(t), OutcomesOf(t)', call[t], Len(call[t]), p, result)
  BY <1>1, OutcomesBecome, Zenon DEF Results
<1>3. /\ KindsOf(t) \in Seq(Kinds) /\ Len(KindsOf(t)) = Len(call[t]) /\ Len(call[t]) \in Nat
      /\ call[t] \in Seq(1 .. Len(commands))
      /\ \A i \in 1 .. Len(call[t]) : KindsOf(t)[i] = Kind(call[t][i]) /\ call[t][i] \in Ids
  BY <1>1, ViewTypes
<1>4. p + 1 \in 1 .. Len(call[t])
  BY <1>1, <1>3
<1>5. Len(commands) \in Nat
  BY <1>1 DEF Types, HistoryTypes
<1> QED BY <1>1, <1>2, <1>3, <1>4, <1>5 DEF Outcome

LEMMA ErrorReplies ==
    ASSUME NEW t \in Threads, NEW p \in Nat, NEW o \in ConnType, NEW k \in ConnType, NEW id,
           Next1(t, p, o, k, id), NEW c,
           Kind(id) # "quit", o.batch_start => Kind(id) # "dot", ~ o.batch_start => Kind(id) # "batch",
           Answer(c, id, send_response(k, id, FALSE, <<>>), "error")
    PROVE  Replies(t, p, c, k)
<1> DEFINE r == send_response(k, id, FALSE, <<>>)
<1>1. conn' = [conn EXCEPT ![c] = r] /\ Results(id, "error")
  BY DEF Answer, Results
<1>2. /\ KindsOf(t) \in Seq(Kinds) /\ p < Len(KindsOf(t)) /\ KindsOf(t)[p + 1] = Kind(id)
      /\ call[t] \in Seq(1 .. Len(commands)) /\ Len(call[t]) = Len(KindsOf(t)) /\ id \in Ids
      /\ BatchState(KindsOf(t), OutcomesOf(t), call[t], p, o) /\ Len(commands) \in Nat
      /\ Outcome(OutcomesOf(t), OutcomesOf(t)', call[t], Len(KindsOf(t)), p, "error")
      /\ Later(OutcomesOf(t), OutcomesOf(t)') /\ HandledUpTo(OutcomesOf(t)', p + 1)
  BY <1>1, NextView
<1>3. /\ Sent(k, r)
      /\ k.batch_start => /\ r.out = k.out
                          /\ r.wbuf = Append(k.wbuf, [n |-> k.batch_cmd, id |-> id])
      /\ ~ k.batch_start => r.out = Response(id, -1, <<>>)
  BY <1>2, SendError, Zenon
<1> HIDE DEF r
<1>4. /\ k.batch_start = o.batch_start /\ k.wbuf = o.wbuf /\ k.out = <<>>
      /\ k.batch_cmd = (IF o.batch_start THEN o.batch_cmd + 1 ELSE o.batch_cmd)
      /\ call[t][p + 1] = id
  BY DEF Next1
<1>5. /\ r.batch_start = o.batch_start
      /\ o.batch_start => /\ r.batch_cmd = o.batch_cmd + 1 /\ r.out = <<>>
                          /\ r.wbuf = Append(o.wbuf, [n |-> o.batch_cmd + 1, id |-> id])
      /\ ~ o.batch_start => r.out = Response(id, -1, <<>>)
  BY <1>3, <1>4 DEF Sent
<1>6. Reply(KindsOf(t), OutcomesOf(t)', call[t], p + 1, r)
  BY <1>2, <1>4, <1>5, ErrorReply
<1> QED BY <1>1, <1>2, <1>3, <1>6, Zenon DEF Replies, Sent

LEMMA UpdateReplies ==
    ASSUME NEW t \in Threads, NEW p \in Nat, NEW o \in ConnType, NEW k \in ConnType, NEW id,
           Next1(t, p, o, k, id), NEW c, Kind(id) = "update",
           Answer(c, id, send_response(k, id, TRUE, <<>>), "ok")
    PROVE  Replies(t, p, c, k)
<1> DEFINE r == send_response(k, id, TRUE, <<>>)
<1>1. conn' = [conn EXCEPT ![c] = r] /\ Results(id, "ok")
  BY DEF Answer, Results
<1>2. /\ KindsOf(t) \in Seq(Kinds) /\ p < Len(KindsOf(t)) /\ KindsOf(t)[p + 1] = Kind(id)
      /\ id \in Ids /\ BatchState(KindsOf(t), OutcomesOf(t), call[t], p, o)
      /\ Outcome(OutcomesOf(t), OutcomesOf(t)', call[t], Len(KindsOf(t)), p, "ok")
      /\ Later(OutcomesOf(t), OutcomesOf(t)') /\ HandledUpTo(OutcomesOf(t)', p + 1)
  BY <1>1, NextView
<1>3. /\ Sent(k, r)
      /\ k.batch_start => r.out = k.out /\ r.wbuf = k.wbuf
      /\ ~ k.batch_start => r.out = Response(id, Len(<<>>), <<>>)
  <2>1. <<>> \in Seq(InfoType)
    BY EmptySeq
  <2> QED BY <1>2, <2>1, SendOk, Zenon
<1> HIDE DEF r
<1>4. /\ k.batch_start = o.batch_start /\ k.wbuf = o.wbuf /\ k.out = <<>>
      /\ k.batch_cmd = (IF o.batch_start THEN o.batch_cmd + 1 ELSE o.batch_cmd)
      /\ call[t][p + 1] = id
  BY DEF Next1
<1>5. CASE o.batch_start
  <2>1. r.batch_start = o.batch_start /\ r.batch_cmd = o.batch_cmd + 1 /\ r.out = <<>> /\ r.wbuf = o.wbuf
    BY <1>3, <1>4, <1>5 DEF Sent
  <2>2. Reply(KindsOf(t), OutcomesOf(t)', call[t], p + 1, r)
    BY <1>2, <1>5, <2>1, SilentReply, Zenon
  <2> QED BY <1>1, <1>2, <1>3, <2>2, Zenon DEF Replies, Sent
<1>6. CASE ~ o.batch_start
  <2>1. ~ r.batch_start /\ r.out = Response(call[t][p + 1], Len(<<>>), <<>>)
    BY <1>3, <1>4, <1>6 DEF Sent
  <2>2. Reply(KindsOf(t), OutcomesOf(t)', call[t], p + 1, r)
    BY <1>2, <1>6, <2>1, UpdateReply
  <2> QED BY <1>1, <1>2, <1>3, <2>2 DEF Replies, Sent
<1> QED BY <1>5, <1>6

LEMMA StatsReplies ==
    ASSUME NEW t \in Threads, NEW p \in Nat, NEW o \in ConnType, NEW k \in ConnType, NEW id,
           Next1(t, p, o, k, id), NEW c, Kind(id) = "stats", ~ k.batch_start, HandleStats(c, id, k)
    PROVE  Replies(t, p, c, k)
<1> DEFINE info == [i \in 1 .. StatsLines |-> [n |-> NoNumber, id |-> id]]
           r == send_response(k, id, TRUE, info)
<1>1. conn' = [conn EXCEPT ![c] = r] /\ Results(id, "ok")
  BY DEF HandleStats, Answer, Results
<1>2. /\ KindsOf(t) \in Seq(Kinds) /\ p < Len(KindsOf(t)) /\ KindsOf(t)[p + 1] = Kind(id)
      /\ id \in Ids /\ BatchState(KindsOf(t), OutcomesOf(t), call[t], p, o)
      /\ Outcome(OutcomesOf(t), OutcomesOf(t)', call[t], Len(KindsOf(t)), p, "ok")
      /\ Later(OutcomesOf(t), OutcomesOf(t)') /\ HandledUpTo(OutcomesOf(t)', p + 1)
  BY <1>1, NextView
<1>3. /\ info \in Seq(InfoType) /\ Len(info) = StatsLines /\ \A l \in DOMAIN info : info[l].id = id
  <2>1. info \in Seq(InfoType)
    <3>1. StatsLines \in Nat
      BY SizesAssumption
    <3>2. [n |-> NoNumber, id |-> id] \in InfoType
      BY <1>2 DEF InfoType, NoNumber
    <3> QED BY <3>1, <3>2
  <2>2. DOMAIN info = 1 .. StatsLines /\ \A l \in 1 .. StatsLines : info[l].id = id
    OBVIOUS
  <2>3. StatsLines \in Nat
    BY SizesAssumption
  <2> HIDE DEF info
  <2>4. Len(info) = StatsLines
    BY <2>1, <2>2, <2>3, LenProperties
  <2> QED BY <2>1, <2>2, <2>4
<1> HIDE DEF info
<1>4. Sent(k, r) /\ (~ k.batch_start => r.out = Response(id, Len(info), info))
  BY <1>2, <1>3, SendOk, Zenon
<1> HIDE DEF r
<1>5. k.batch_start = o.batch_start /\ call[t][p + 1] = id
  BY DEF Next1
<1>6. ~ r.batch_start /\ ~ o.batch_start /\ r.out = Response(call[t][p + 1], Len(info), info)
      /\ \A l \in DOMAIN info : info[l].id = call[t][p + 1]
  BY <1>3, <1>4, <1>5 DEF Sent
<1>7. Reply(KindsOf(t), OutcomesOf(t)', call[t], p + 1, r)
  BY <1>2, <1>3, <1>6, StatsReply
<1> QED BY <1>1, <1>2, <1>4, <1>7, Zenon DEF Replies, Sent

LEMMA BatchReplies ==
    ASSUME NEW t \in Threads, NEW p \in Nat, NEW o \in ConnType, NEW k \in ConnType, NEW id,
           Next1(t, p, o, k, id), NEW c, Kind(id) = "batch", ~ k.batch_start, BatchStart(c, id, k)
    PROVE  Replies(t, p, c, k)
<1> DEFINE q == send_response(k, id, TRUE, <<>>)
           r == [q EXCEPT !.batch_start = TRUE, !.batch_cmd = 0]
<1>1. conn' = [conn EXCEPT ![c] = r] /\ Results(id, "ok")
  BY DEF BatchStart, Answer, Results
<1>2. /\ KindsOf(t) \in Seq(Kinds) /\ p < Len(KindsOf(t)) /\ KindsOf(t)[p + 1] = Kind(id)
      /\ id \in Ids /\ BatchState(KindsOf(t), OutcomesOf(t), call[t], p, o)
      /\ Outcome(OutcomesOf(t), OutcomesOf(t)', call[t], Len(KindsOf(t)), p, "ok")
      /\ Later(OutcomesOf(t), OutcomesOf(t)') /\ HandledUpTo(OutcomesOf(t)', p + 1)
  BY <1>1, NextView
<1>3. Sent(k, q) /\ (~ k.batch_start => q.wbuf = <<>> /\ q.out = Response(id, Len(<<>>), <<>>))
  <2>1. <<>> \in Seq(InfoType)
    BY EmptySeq
  <2> QED BY <1>2, <2>1, SendOk, Zenon
<1> HIDE DEF q
<1>4. /\ r \in ConnType /\ r.rbuf = q.rbuf /\ r.to = q.to /\ r.from = q.from
      /\ r.server = q.server /\ r.lost = q.lost /\ r.out = q.out /\ r.wbuf = q.wbuf
      /\ r.batch_start = TRUE /\ r.batch_cmd = 0
  BY <1>3, Zenon DEF Sent, ConnType
<1> HIDE DEF r
<1>5. k.batch_start = o.batch_start /\ call[t][p + 1] = id
  BY DEF Next1
<1>6. /\ ~ o.batch_start /\ r.batch_start /\ r.batch_cmd = 0 /\ r.wbuf = <<>>
      /\ r.out = Response(call[t][p + 1], Len(<<>>), <<>>)
  BY <1>3, <1>4, <1>5
<1>7. Reply(KindsOf(t), OutcomesOf(t)', call[t], p + 1, r)
  BY <1>2, <1>6, BatchReply
<1> QED BY <1>1, <1>2, <1>3, <1>4, <1>7, Zenon DEF Replies, Sent

LEMMA DotReplies ==
    ASSUME NEW t \in Threads, NEW p \in Nat, NEW o \in ConnType, NEW k \in ConnType, NEW id,
           Next1(t, p, o, k, id), NEW c, Kind(id) = "dot", k.batch_start, BatchDone(c, id, k)
    PROVE  Replies(t, p, c, k)
<1> DEFINE q == [k EXCEPT !.batch_start = FALSE, !.batch_cmd = 0]
           r == send_response(q, id, TRUE, k.wbuf)
<1>1. conn' = [conn EXCEPT ![c] = r] /\ Results(id, "ok")
  BY DEF BatchDone, Answer, Results
<1>2. /\ KindsOf(t) \in Seq(Kinds) /\ p < Len(KindsOf(t)) /\ KindsOf(t)[p + 1] = Kind(id)
      /\ id \in Ids /\ BatchState(KindsOf(t), OutcomesOf(t), call[t], p, o)
      /\ Outcome(OutcomesOf(t), OutcomesOf(t)', call[t], Len(KindsOf(t)), p, "ok")
      /\ Later(OutcomesOf(t), OutcomesOf(t)') /\ HandledUpTo(OutcomesOf(t)', p + 1)
  BY <1>1, NextView
<1>3. /\ q \in ConnType /\ q.rbuf = k.rbuf /\ q.to = k.to /\ q.from = k.from
      /\ q.server = k.server /\ q.lost = k.lost /\ q.batch_start = FALSE
  BY Zenon DEF ConnType
<1> HIDE DEF q
<1>4. Sent(q, r) /\ (~ q.batch_start => r.out = Response(id, Len(k.wbuf), k.wbuf))
  <2>1. k.wbuf \in Seq(InfoType)
    BY ConnIs, Zenon
  <2> QED BY <1>2, <1>3, <2>1, SendOk, Zenon
<1> HIDE DEF r
<1>5. k.batch_start = o.batch_start /\ k.wbuf = o.wbuf /\ call[t][p + 1] = id
  BY DEF Next1
<1>6. o.batch_start /\ ~ r.batch_start /\ r.out = Response(call[t][p + 1], Len(o.wbuf), o.wbuf)
  BY <1>3, <1>4, <1>5 DEF Sent
<1>7. Reply(KindsOf(t), OutcomesOf(t)', call[t], p + 1, r)
  BY <1>2, <1>6, DotReply
<1> QED BY <1>1, <1>2, <1>3, <1>4, <1>7, Zenon DEF Replies, Sent

\* Whatever the command is.
LEMMA CommandReplies ==
    ASSUME NEW t \in Threads, NEW p \in Nat, NEW o \in ConnType, NEW k \in ConnType, NEW id,
           Next1(t, p, o, k, id), NEW c, Kind(id) # "quit", Kind(id) \in Kinds,
           \/ Kind(id) = "update" /\ HandleUpdate(c, id, k)
           \/ Kind(id) = "stats" /\ ~ k.batch_start /\ HandleStats(c, id, k)
           \/ Kind(id) = "batch" /\ ~ k.batch_start /\ BatchStart(c, id, k)
           \/ Kind(id) = "dot" /\ k.batch_start /\ BatchDone(c, id, k)
           \/ /\ ~ Allowed(Kind(id), k.batch_start)
              /\ Answer(c, id, send_response(k, id, FALSE, <<>>), "error")
    PROVE  Replies(t, p, c, k)
<1>1. CASE Kind(id) = "update" /\ HandleUpdate(c, id, k)
  <2>1. \/ Answer(c, id, send_response(k, id, TRUE, <<>>), "ok")
        \/ Answer(c, id, send_response(k, id, FALSE, <<>>), "error")
    BY <1>1, Zenon DEF HandleUpdate
  <2>2. Kind(id) # "quit" /\ Kind(id) # "dot" /\ Kind(id) # "batch"
    BY <1>1
  <2> QED BY <1>1, <2>1, <2>2, UpdateReplies, ErrorReplies, Zenon
<1>2. CASE ~ Allowed(Kind(id), k.batch_start)
           /\ Answer(c, id, send_response(k, id, FALSE, <<>>), "error")
  <2>1. k.batch_start = o.batch_start /\ o.batch_start \in BOOLEAN
    BY ConnIs, Zenon DEF Next1
  <2>2. k.batch_start => Kind(id) # "dot"
    BY <1>2, Zenon DEF Allowed
  <2>3. ~ k.batch_start => Kind(id) # "batch"
    BY <1>2, Zenon DEF Allowed
  <2> QED BY <1>2, <2>1, <2>2, <2>3, ErrorReplies, Zenon
<1> QED BY <1>1, <1>2, StatsReplies, BatchReplies, DotReplies, Zenon

\* The thread whose commands are handled.
LEMMA CommandIsOfHolder ==
    ASSUME StreamInv, AnswerInv, sd # 0, Stream(sd) # <<>>, ~ Broken(sd), ~ Blocked
    PROVE  lock \in Threads /\ pc[lock] \in {"write", "read"} /\ lock # NoThread
<1>1. lock # NoThread
  BY DEF AnswerInv, Between
<1> QED BY <1>1 DEF StreamInv, Types, ClientTypes, Locked

\* What is left of a stream when its first command is taken away.
LEMMA RestOfStream ==
    ASSUME Types, NEW c \in Conns, NEW e \in 1 .. Len(conn[c].rbuf),
           NEW a \in Seq(UnitType), Len(a) = Len(conn[c].rbuf) - e,
           \A i \in 1 .. Len(conn[c].rbuf) - e : a[i] = conn[c].rbuf[e + i]
    PROVE  /\ Len(a \o conn[c].to) = Len(Stream(c)) - e
           /\ \A i \in 1 .. Len(Stream(c)) - e : (a \o conn[c].to)[i] = Stream(c)[e + i]
<1> DEFINE s == Stream(c)
           n == Len(conn[c].rbuf)
           b == conn[c].to
           m == Len(conn[c].to)
<1>1. /\ conn[c].rbuf \in Seq(UnitType) /\ conn[c].to \in Seq(UnitType) /\ Len(s) = n + m
      /\ \A i \in 1 .. n + m : s[i] = IF i <= n THEN conn[c].rbuf[i] ELSE conn[c].to[i - n]
  BY StreamTypes, Zenon
<1>2. n \in Nat /\ m \in Nat /\ e \in 1 .. n
  BY <1>1, LenProperties
<1>3. /\ Len(a \o b) = (n - e) + m
      /\ \A i \in 1 .. (n - e) + m : (a \o b)[i] = IF i <= n - e THEN a[i] ELSE b[i - (n - e)]
  <2>1. /\ Len(a \o b) = Len(a) + Len(b)
        /\ \A i \in 1 .. Len(a) + Len(b) : (a \o b)[i] = IF i <= Len(a) THEN a[i] ELSE b[i - Len(a)]
    <3>1. b \in Seq(UnitType)
      BY <1>1
    <3> HIDE DEF b
    <3> QED BY <3>1, ConcatProperties, Zenon
  <2>2. Len(a) = n - e /\ Len(b) = m
    OBVIOUS
  <2> HIDE DEF b, n, m
  <2> QED BY <2>1, <2>2, Zenon
<1>4. \A i \in 1 .. n - e : a[i] = conn[c].rbuf[e + i]
  OBVIOUS
<1> HIDE DEF s, n, m, b
<1>5. ASSUME NEW i \in 1 .. (n - e) + m PROVE (a \o b)[i] = s[e + i]
  <2>1. e + i \in 1 .. n + m
    BY <1>2
  <2>2. CASE i <= n - e
    <3>1. i \in 1 .. n - e /\ e + i <= n
      BY <1>2, <2>2
    <3> QED BY <1>1, <1>3, <1>4, <2>1, <2>2, <3>1, Zenon
  <2>3. CASE ~ (i <= n - e)
    <3>1. ~ (e + i <= n) /\ i - (n - e) = (e + i) - n
      BY <1>2, <2>3
    <3>2. (a \o b)[i] = b[i - (n - e)]
      BY <1>3, <2>3
    <3>3. s[e + i] = b[(e + i) - n]
      BY <1>1, <2>1, <3>1 DEF b
    <3> QED BY <3>1, <3>2, <3>3
  <2> QED BY <2>2, <2>3, Zenon
<1>6. (n - e) + m = Len(s) - e
  BY <1>1, <1>2
<1>7. /\ Len(a \o b) = Len(s) - e
      /\ \A i \in 1 .. Len(s) - e : (a \o b)[i] = s[e + i]
  BY <1>3, <1>5, <1>6
<1> QED BY <1>7, Zenon DEF s, b

\* The command that is being written has not come to its end.
LEMMA NoEolYet ==
    ASSUME StreamInv, NEW t \in Threads, pc[t] = "write", ~ Broken(sd)
    PROVE  /\ unsent[t].cmd \in DOMAIN call[t]
           /\ unsent[t].part # 1 => ~ IsEol(Stream(sd)[Len(Stream(sd))])
<1> DEFINE u == unsent[t]
           id == call[t][unsent[t].cmd]
<1>1. /\ u.cmd \in DOMAIN call[t] /\ u.part \in 1 .. Size[Kind(id)]
      /\ u.part # 1 => Stream(sd)[Len(Stream(sd))] = [id |-> id, part |-> u.part - 1]
  BY DEF StreamInv, Continues
<1>2. id \in Ids /\ Size[Kind(id)] \in Nat
  <2>1. id \in Ids
    BY <1>1, CallTypes DEF StreamInv
  <2> QED BY <2>1, SizePositive DEF StreamInv
<1> HIDE DEF id, u
<1>3. u.part # 1 => ~ IsEol(Stream(sd)[Len(Stream(sd))])
  <2> SUFFICES ASSUME u.part # 1 PROVE ~ IsEol([id |-> id, part |-> u.part - 1])
    BY <1>1
  <2>1. u.part - 1 # Size[Kind(id)]
    BY <1>1, <1>2
  <2> QED BY <2>1 DEF IsEol
<1> QED BY <1>1, <1>3 DEF u

\* The outcome of a command is settled when it is handled, once, and only those
\* calls find it changed whose connection it came by.
LEMMA CommandLater ==
    ASSUME StreamInv, NEW c \in Conns, ServerCommand(c)
    PROVE  /\ \A t \in Threads : Later(OutcomesOf(t), OutcomesOf(t)')
           /\ \A t \in Threads : pc[t] \in {"write", "read"} /\ sd # c => OutcomesOf(t)' = OutcomesOf(t)
<1>0. Types /\ SentHere /\ UNCHANGED <<call, commands>>
  BY Zenon DEF StreamInv, ServerCommand, daemonOnly, clientVars
<1>1. PICK e \in 1 .. Len(conn[c].rbuf), result \in {"ok", "error"} :
         /\ conn[c].rbuf[e].id \in Ids /\ Stream(c)[e] = conn[c].rbuf[e]
         /\ outcome' = [outcome EXCEPT ![conn[c].rbuf[e].id] = result]
  BY CommandFacts
<1> DEFINE id == conn[c].rbuf[e].id
<1>2. Has(c, id) /\ id \in Ids
  <2>1. Len(Stream(c)) = Len(conn[c].rbuf) + Len(conn[c].to) /\ Len(conn[c].rbuf) \in Nat /\ Len(conn[c].to) \in Nat
    BY <1>0, StreamTypes, ConnIs, Zenon
  <2>2. e \in 1 .. Len(Stream(c))
    <3>1. \A x \in Nat, y \in Nat : \A z \in 1 .. x : z \in 1 .. x + y
      OBVIOUS
    <3>2. e \in 1 .. Len(conn[c].rbuf)
      OBVIOUS
    <3> QED BY <2>1, <3>1, <3>2, Zenon
  <2> QED BY <1>1, <2>2 DEF Has
<1>3. outcome[id] = "none"
  BY <1>2 DEF StreamInv, Streams
<1> HIDE DEF id
<1>4. outcome' = [outcome EXCEPT ![id] = result]
  BY <1>1 DEF id
<1>5. ASSUME NEW t \in Threads
      PROVE  /\ Later(OutcomesOf(t), OutcomesOf(t)')
             /\ (\A i \in DOMAIN call[t] : call[t][i] # id) => OutcomesOf(t)' = OutcomesOf(t)
  BY <1>0, <1>2, <1>3, <1>4, LaterOutcomes, Zenon
<1>6. ASSUME NEW t \in Threads, pc[t] \in {"write", "read"}, sd # c
      PROVE  OutcomesOf(t)' = OutcomesOf(t)
  BY <1>0, <1>2, <1>5, <1>6 DEF SentHere
<1> QED BY <1>5, <1>6, Zenon

LEMMA HandledAnswers ==
    ASSUME StreamInv, AnswerInv, NEW c \in Conns, ServerCommand(c), sd = c, ~ Broken(c), ~ Blocked
    PROVE  AnswerInv'
<1> DEFINE o == conn[c]
           t == lock
           s == Stream(c)
<1>0. /\ Types /\ Locked /\ CallShape /\ Whole(s) /\ Once(s) /\ Continues
      /\ UNCHANGED <<clientVars, lock, sd, pc, call, unsent, answer, answers, commands>>
  BY Zenon DEF StreamInv, Streams, ServerCommand, daemonOnly, clientVars
<1>1. PICK e \in 1 .. Len(o.rbuf) :
         LET id == o.rbuf[e].id
             k == Counted(Rest(c, e))
         IN  /\ id \in Ids /\ IsEol(o.rbuf[e]) /\ s[1] = [id |-> id, part |-> 1]
             /\ \A j \in 1 .. e : s[j].id = id
             /\ s[e] = o.rbuf[e]
             /\ \/ Kind(id) = "update" /\ HandleUpdate(c, id, k)
                \/ /\ \/ Kind(id) = "stats" /\ ~ k.batch_start /\ HandleStats(c, id, k)
                      \/ Kind(id) = "batch" /\ ~ k.batch_start /\ BatchStart(c, id, k)
                      \/ Kind(id) = "dot" /\ k.batch_start /\ BatchDone(c, id, k)
                      \/ Kind(id) = "quit" /\ Answer(c, id, Closed(k), "ok")
                      \/ /\ ~ Allowed(Kind(id), k.batch_start)
                         /\ Answer(c, id, send_response(k, id, FALSE, <<>>), "error")
                   /\ UNCHANGED last_update_stamp
  BY CommandCases
<1> DEFINE id == o.rbuf[e].id
           k == Counted(Rest(c, e))
<1>2. Ready(c) /\ o \in ConnType /\ o.out = <<>> /\ o.server = "open" /\ ~ o.lost
  BY <1>0, StreamTypes, Zenon DEF ServerCommand, Ready, Broken
<1>3. /\ k \in ConnType /\ k.rbuf = SubSeq(o.rbuf, e + 1, Len(o.rbuf)) /\ k.to = o.to
      /\ k.from = o.from /\ k.out = <<>> /\ k.wbuf = o.wbuf /\ k.server = "open"
      /\ k.lost = o.lost /\ k.batch_start = o.batch_start
      /\ k.batch_cmd = (IF o.batch_start THEN o.batch_cmd + 1 ELSE o.batch_cmd)
  BY <1>2, RestTypes
<1>4. /\ id \in Ids /\ IsEol(s[e]) /\ s[1].id = id /\ s[e].id = id /\ s # <<>>
      /\ e \in 1 .. Len(s) /\ s \in Seq(UnitType)
  <2>1. id \in Ids /\ IsEol(s[e]) /\ s[1] = [id |-> id, part |-> 1] /\ s[e].id = id
    BY <1>1
  <2>2. s \in Seq(UnitType) /\ Len(s) = Len(o.rbuf) + Len(o.to) /\ o.rbuf \in Seq(UnitType) /\ o.to \in Seq(UnitType)
    BY <1>0, StreamTypes, Zenon
  <2>3. e \in 1 .. Len(s)
    <3>1. \A x \in Nat, y \in Nat : \A z \in 1 .. x : z \in 1 .. x + y
      OBVIOUS
    <3>2. e \in 1 .. Len(o.rbuf)
      OBVIOUS
    <3> HIDE DEF o, s
    <3>3. Len(o.rbuf) \in Nat /\ Len(o.to) \in Nat
      BY <2>2, LenProperties
    <3> QED BY <2>2, <3>1, <3>2, <3>3, Zenon
  <2>4. s # <<>>
    <3> HIDE DEF s
    <3>1. Len(s) # 0
      BY <2>3
    <3>2. Len(<<>>) = 0
      BY EmptySeq
    <3> QED BY <3>1, <3>2
  <2>5. s[1].id = id
    BY <2>1
  <2> HIDE DEF s, id
  <2> QED BY <2>1, <2>2, <2>3, <2>4, <2>5, Zenon
<1>5. Kind(id) \in Kinds /\ Kind(id) # "quit"
  <2>1. Kind(id) \in Kinds
    BY <1>0, <1>4, SizePositive
  <2> QED BY <1>4, <2>1 DEF Blocked
<1>6. /\ t \in Threads /\ pc[t] \in {"write", "read"} /\ t # NoThread
      /\ \A u \in Threads \ {t} : pc[u] \notin {"write", "read"}
  <2>1. sd # 0
    BY DEF Conns
  <2>2. t \in Threads /\ pc[t] \in {"write", "read"} /\ t # NoThread
    BY <1>4, <2>1, CommandIsOfHolder
  <2> QED BY <1>0, <2>2, Holder, Zenon
<1>7. PICK p \in 0 .. Len(call[t]) : HasHandled(t, p, pc[t] = "write")
  BY <1>6 DEF AnswerInv, Progress
<1>8. /\ call[t] \in Seq(Ids) /\ Len(call[t]) \in Nat /\ DOMAIN call[t] = 1 .. Len(call[t])
      /\ KindsOf(t) \in Seq(Kinds) /\ Len(KindsOf(t)) = Len(call[t])
      /\ DOMAIN OutcomesOf(t) = 1 .. Len(KindsOf(t))
      /\ answers[t] \in Seq(AnswerType) /\ answer[t] \in AnswerType
  BY <1>0, <1>6, ViewTypes, CallTypes
<1>9. /\ p \in Nat /\ HandledUpTo(OutcomesOf(t), p)
      /\ Comes(call[t], p, s, unsent[t], pc[t] = "write")
      /\ BatchState(KindsOf(t), OutcomesOf(t), call[t], p, o)
      /\ AtEnd(KindsOf(t), call[t], p, answers[t], answer[t], Lines(c))
  BY <1>7, <1>8 DEF HasHandled
<1>10. p < Len(call[t]) /\ call[t][p + 1] = id
  BY <1>4, <1>9 DEF Comes
<1>11. Next1(t, p, o, k, id)
  <2> HIDE DEF k, o, id
  <2> QED BY <1>0, <1>3, <1>9, <1>10 DEF Next1
<1>12. \/ Kind(id) = "update" /\ HandleUpdate(c, id, k)
       \/ Kind(id) = "stats" /\ ~ k.batch_start /\ HandleStats(c, id, k)
       \/ Kind(id) = "batch" /\ ~ k.batch_start /\ BatchStart(c, id, k)
       \/ Kind(id) = "dot" /\ k.batch_start /\ BatchDone(c, id, k)
       \/ /\ ~ Allowed(Kind(id), k.batch_start)
          /\ Answer(c, id, send_response(k, id, FALSE, <<>>), "error")
  BY <1>1, <1>5, Zenon
<1>13. Replies(t, p, c, k)
  <2> HIDE DEF k, o, id, t
  <2> QED BY <1>2, <1>3, <1>5, <1>6, <1>9, <1>11, <1>12, CommandReplies, Zenon
<1>14. PICK r \in ConnType :
         /\ conn' = [conn EXCEPT ![c] = r]
         /\ r.rbuf = k.rbuf /\ r.to = k.to /\ r.from = k.from /\ r.server = k.server /\ r.lost = k.lost
         /\ Reply(KindsOf(t), OutcomesOf(t)', call[t], p + 1, r)
         /\ Later(OutcomesOf(t), OutcomesOf(t)') /\ HandledUpTo(OutcomesOf(t)', p + 1)
  BY <1>13, Zenon DEF Replies
<1>15. conn'[c] = r /\ Stream(c)' = r.rbuf \o r.to /\ r.rbuf \o r.to \in Seq(UnitType)
  BY <1>0, <1>14, OneConn, ConnIs, Zenon
<1>16. /\ ~ Broken(c)' /\ Lines(c) = o.from /\ Lines(c)' = o.from \o r.out /\ o.from \in Seq(LineType)
  <2>1. ~ Broken(c)'
    BY <1>2, <1>3, <1>14, <1>15 DEF Broken
  <2>2. Lines(c)' = r.from \o r.out
    BY <1>15, <2>1, Zenon DEF Lines
  <2>3. o.from \in Seq(LineType)
    BY <1>2, ConnIs, Zenon
  <2>4. Lines(c) = o.from \o <<>>
    BY <1>2 DEF Lines
  <2>5. Lines(c) = o.from
    BY <2>3, <2>4, ConcatEmptySeq
  <2> QED BY <1>3, <1>14, <2>1, <2>2, <2>3, <2>5
<1> HIDE DEF id, k, t
<1>17. /\ Len(Stream(c)') = Len(s) - e
       /\ \A i \in 1 .. Len(s) - e : Stream(c)'[i] = s[e + i]
  <2>1. /\ SubSeq(o.rbuf, e + 1, Len(o.rbuf)) \in Seq(UnitType)
        /\ Len(SubSeq(o.rbuf, e + 1, Len(o.rbuf))) = Len(o.rbuf) - e
        /\ \A i \in 1 .. Len(o.rbuf) - e : SubSeq(o.rbuf, e + 1, Len(o.rbuf))[i] = o.rbuf[e + i]
    BY <1>2, RestTypes
  <2>2. r.rbuf = SubSeq(o.rbuf, e + 1, Len(o.rbuf)) /\ r.to = o.to
    BY <1>3, <1>14
  <2>3. /\ r.rbuf \in Seq(UnitType) /\ Len(r.rbuf) = Len(o.rbuf) - e
        /\ \A i \in 1 .. Len(o.rbuf) - e : r.rbuf[i] = o.rbuf[e + i]
    BY <2>1, <2>2
  <2> DEFINE a == r.rbuf
  <2>4. a \in Seq(UnitType) /\ Len(a) = Len(o.rbuf) - e /\ \A i \in 1 .. Len(o.rbuf) - e : a[i] = o.rbuf[e + i]
    BY <2>3
  <2> HIDE DEF a
  <2>5. /\ Len(a \o conn[c].to) = Len(Stream(c)) - e
        /\ \A i \in 1 .. Len(Stream(c)) - e : (a \o conn[c].to)[i] = Stream(c)[e + i]
    BY <1>0, <2>4, RestOfStream
  <2>6. Stream(c)' = a \o conn[c].to
    BY <1>15, <2>2 DEF a
  <2> QED BY <2>5, <2>6
<1> HIDE DEF o, s
<1>18. /\ \A i \in DOMAIN call[t] : call[t][i] = call[t][1] + i - 1
       /\ call[t][p + 1] - call[t][1] + 1 = p + 1
  <2>1. \A i \in DOMAIN call[t] : call[t][i] = call[t][1] + i - 1
    BY <1>0, <1>6 DEF CallShape
  <2>2. p + 1 \in 1 .. Len(call[t]) /\ 1 \in 1 .. Len(call[t])
    BY <1>8, <1>9, <1>10
  <2>3. call[t][1] \in Int
    BY <1>8, <2>2, ElementOfSeq DEF Ids
  <2>4. \A x \in Int : (x + (p + 1) - 1) - x + 1 = p + 1
    BY <1>9
  <2> QED BY <1>8, <2>1, <2>2, <2>3, <2>4, Zenon
<1>19. Comes(call[t], p + 1, Stream(c)', unsent[t], pc[t] = "write")
  <2>1. Successive(call[t])
    BY <1>18 DEF Successive
  <2>2. pc[t] = "write" => unsent[t].cmd \in DOMAIN call[t]
                           /\ (unsent[t].part # 1 => ~ IsEol(s[Len(s)]))
    BY <1>0, <1>4, <1>6, NoEolYet DEF s
  <2> DEFINE rest == Stream(c)'
             ids == call[t]
             u == unsent[t]
  <2>4. rest \in Seq(UnitType) /\ Len(rest) = Len(s) - e /\ \A i \in 1 .. Len(s) - e : rest[i] = s[e + i]
    BY <1>15, <1>17, Zenon
  <2>5. Types /\ ids \in Seq(Ids) /\ Successive(ids) /\ p \in Nat
    BY <1>0, <1>8, <1>9, <2>1
  <2>6. s \in Seq(UnitType) /\ Whole(s) /\ Once(s) /\ e \in 1 .. Len(s) /\ IsEol(s[e])
        /\ s # <<>> /\ s[1].id = s[e].id
    BY <1>0, <1>4
  <2>7. CASE pc[t] = "write"
    <3>1. (pc[t] = "write") = TRUE
      BY <2>7
    <3>2. Comes(ids, p, s, u, TRUE) /\ u.cmd \in DOMAIN ids /\ (u.part # 1 => ~ IsEol(s[Len(s)]))
      BY <1>9, <2>2, <2>7, <3>1, Zenon
    <3> HIDE DEF rest, ids, u
    <3>3. Comes(ids, p + 1, rest, u, TRUE)
      BY <2>4, <2>5, <2>6, <3>2, ComesNextWriting, Zenon
    <3> QED BY <3>1, <3>3, Zenon DEF rest, ids, u
  <2>8. CASE pc[t] # "write"
    <3>1. (pc[t] = "write") = FALSE
      BY <2>8
    <3>2. Comes(ids, p, s, u, FALSE)
      BY <1>9, <3>1, Zenon
    <3> HIDE DEF rest, ids, u
    <3>3. Comes(ids, p + 1, rest, u, FALSE)
      BY <2>4, <2>5, <2>6, <3>2, ComesNextWritten, Zenon
    <3> QED BY <3>1, <3>3, Zenon DEF rest, ids, u
  <2> QED BY <2>7, <2>8
<1>20. ReadsRight(t) /\ WillRead(t)
  BY <1>6 DEF AnswerInv, Reading
<1>21. /\ ReadRight(KindsOf(t), OutcomesOf(t)', call[t], answers[t])
       /\ InOrder(KindsOf(t), OutcomesOf(t)', call[t], Lines(c)')
       /\ GoesOn(KindsOf(t), call[t], answers[t], answer[t], Lines(c)')
       /\ AtEnd(KindsOf(t), call[t], p + 1, answers[t], answer[t], Lines(c)')
       /\ BatchState(KindsOf(t), OutcomesOf(t)', call[t], p + 1, r)
  <2>1. /\ ReadRight(KindsOf(t), OutcomesOf(t), call[t], answers[t])
        /\ InOrder(KindsOf(t), OutcomesOf(t), call[t], o.from)
        /\ GoesOn(KindsOf(t), call[t], answers[t], answer[t], o.from)
        /\ AtEnd(KindsOf(t), call[t], p, answers[t], answer[t], o.from)
    BY <1>9, <1>16, <1>20 DEF ReadsRight, WillRead
  <2>2. call[t][p + 1] \in Ids
    BY <1>4, <1>10
  <2>3. /\ ReadRight(KindsOf(t), OutcomesOf(t)', call[t], answers[t])
        /\ InOrder(KindsOf(t), OutcomesOf(t)', call[t], o.from \o r.out)
        /\ GoesOn(KindsOf(t), call[t], answers[t], answer[t], o.from \o r.out)
        /\ AtEnd(KindsOf(t), call[t], p + 1, answers[t], answer[t], o.from \o r.out)
        /\ BatchState(KindsOf(t), OutcomesOf(t)', call[t], p + 1, r)
    BY <1>8, <1>9, <1>14, <1>16, <1>18, <2>1, <2>2, HandledOne, Zenon
  <2> QED BY <1>16, <2>3
<1>22. \A u \in Threads : KindsOf(u)' = KindsOf(u)
  BY <1>0 DEF KindsOf, Kind
<1>23. sd' = c /\ t' = t /\ p + 1 \in 0 .. Len(call[t])
  BY <1>0, <1>8, <1>9, <1>10 DEF t
<1>24. Reading'
  <2>1. ReadsRight(t)' /\ WillRead(t)'
    BY <1>0, <1>21, <1>22, <1>23, <1>6 DEF ReadsRight, WillRead
  <2>2. ASSUME NEW u \in Threads, ReadsRight(u) PROVE ReadsRight(u)'
    BY <1>0, <1>22, <2>2, ReadsStay, CommandLater
  <2> SUFFICES ASSUME NEW u \in Threads
               PROVE  (/\ pc[u] \in {"connect", "request"} => answers[u] = <<>>
                       /\ pc[u] \in {"write", "read"} => ReadsRight(u) /\ WillRead(u)
                       /\ pc[u] = "done" =>
                             /\ ReadsRight(u)
                             /\ Len(answers[u]) = Cardinality(AnsweredOf(KindsOf(u))))'
    BY DEF Reading
  <2>3. /\ pc[u] \in {"connect", "request"} => answers[u] = <<>>
        /\ pc[u] = "done" => /\ ReadsRight(u)
                             /\ Len(answers[u]) = Cardinality(AnsweredOf(KindsOf(u)))
    BY DEF AnswerInv, Reading
  <2>4. pc'[u] = pc[u] /\ answers'[u] = answers[u] /\ KindsOf(u)' = KindsOf(u)
    BY <1>0, <1>22
  <2>5. pc[u] \in {"write", "read"} => u = t
    BY <1>6
  <2>6. (pc[u] \in {"connect", "request"} => answers[u] = <<>>)'
    BY <2>3, <2>4
  <2>7. (pc[u] \in {"write", "read"} => ReadsRight(u) /\ WillRead(u))'
    BY <1>23, <2>1, <2>4, <2>5
  <2>8. (pc[u] = "done" => /\ ReadsRight(u)
                          /\ Len(answers[u]) = Cardinality(AnsweredOf(KindsOf(u))))'
    BY <2>2, <2>3, <2>4
  <2> QED BY <2>6, <2>7, <2>8
<1>25. Progress'
  <2>1. HasHandled(t, p + 1, pc[t] = "write")'
    BY <1>0, <1>6, <1>14, <1>15, <1>19, <1>21, <1>22, <1>23 DEF HasHandled
  <2> QED BY <1>0, <1>6, <1>23, <2>1 DEF Progress
<1>26. Between'
  BY <1>0, <1>6 DEF Between, t
<1> QED BY <1>24, <1>25, <1>26, Zenon DEF AnswerInv

LEMMA ServerCommandAnswers ==
    ASSUME StreamInv, AnswerInv, NEW c \in Conns, ServerCommand(c)
    PROVE  AnswerInv'
<1> DEFINE o == conn[c]
<1>0. Types /\ Locked /\ UNCHANGED <<clientVars, commands, sd>> /\ o.server = "open"
  BY Zenon DEF StreamInv, ServerCommand, daemonOnly, clientVars, Ready
<1>1. /\ \A t \in Threads : Later(OutcomesOf(t), OutcomesOf(t)')
      /\ \A t \in Threads : pc[t] \in {"write", "read"} /\ sd # c => OutcomesOf(t)' = OutcomesOf(t)
  BY CommandLater
<1>2. PICK k \in ConnType : conn' = [conn EXCEPT ![c] = k] /\ k.from = o.from /\ k.lost = o.lost
  BY CommandFacts
<1>3. conn'[c] = k /\ \A d \in Conns \ {c} : conn'[d] = conn[d]
  BY <1>0, <1>2, OneConn, Zenon
<1>4. CASE sd # c
  <2>1. sd # 0 => SameWay(sd)
    BY <1>0, <1>3, <1>4, Zenon DEF SameWay, Lines, Stream, Broken, Types, ClientTypes
  <2> QED BY <1>0, <1>1, <1>4, <2>1, QuietAnswers
<1>5. ASSUME sd = c, Broken(c)' PROVE AnswerInv'
  <2>1. Lines(c)' = o.from
    BY <1>2, <1>3, <1>5 DEF Lines
  <2>2. o.from \in Seq(LineType)
    BY <1>0, StreamTypes, ConnIs, Zenon
  <2>3. Len(o.from) <= Len(Lines(c)) /\ \A l \in 1 .. Len(o.from) : o.from[l] = Lines(c)[l]
    BY <1>0, FromIsFirst
  <2> QED BY <1>0, <1>1, <1>5, <2>1, <2>2, <2>3, BreakAnswers
<1>6. CASE sd = c /\ Broken(c)
  <2>1. Broken(c)'
    BY <1>0, <1>2, <1>3, <1>6 DEF Broken
  <2> QED BY <1>5, <1>6, <2>1
<1>7. CASE sd = c /\ Blocked
  <2>1. PICK e \in 1 .. Len(o.rbuf) :
           LET id == o.rbuf[e].id
               b == Counted(Rest(c, e))
           IN  /\ Stream(c)[1] = [id |-> id, part |-> 1]
               /\ \/ Kind(id) = "update"
                  \/ Kind(id) = "stats"
                  \/ Kind(id) = "batch"
                  \/ Kind(id) = "dot"
                  \/ Kind(id) = "quit" /\ Answer(c, id, Closed(b), "ok")
                  \/ ~ Allowed(Kind(id), b.batch_start)
    BY CommandCases, Zenon
  <2> DEFINE id == o.rbuf[e].id
             b == Counted(Rest(c, e))
  <2>2. Kind(id) = "quit"
    <3>1. Stream(c)[1].id = id
      BY <2>1
    <3> QED BY <1>7, <3>1 DEF Blocked
  <2>3. Answer(c, id, Closed(b), "ok")
    BY <2>1, <2>2 DEF Allowed
  <2>4. conn'[c] = Closed(b)
    BY <1>0, <2>3 DEF Answer, Types, DaemonTypes
  <2>5. Closed(b).server = "closed"
    BY DEF Closed, Unused
  <2>6. Broken(c)'
    BY <2>4, <2>5 DEF Broken
  <2> QED BY <1>5, <1>7, <2>6
<1>8. CASE sd = c /\ ~ Broken(c) /\ ~ Blocked
  BY <1>8, HandledAnswers
<1> QED BY <1>4, <1>6, <1>7, <1>8, Zenon

\* Nobody reads, before or after the step.
LEMMA NobodyReads ==
    ASSUME Reading, UNCHANGED <<call, commands, outcome, answers>>,
           \A u \in Threads : /\ pc'[u] \notin {"write", "read"}
                              /\ \/ pc'[u] = pc[u] \/ pc'[u] = "failed"
                                 \/ pc[u] = "connect" /\ pc'[u] = "request"
    PROVE  Reading' /\ Progress'
<1>1. \A u \in Threads : /\ KindsOf(u)' = KindsOf(u) /\ OutcomesOf(u)' = OutcomesOf(u)
                         /\ answers'[u] = answers[u] /\ call'[u] = call[u]
  BY DEF KindsOf, OutcomesOf, Kind
<1>2. \A u \in Threads : ReadsRight(u) => ReadsRight(u)'
  BY <1>1 DEF ReadsRight
<1>3. Reading'
  <2> SUFFICES ASSUME NEW u \in Threads
               PROVE  /\ pc'[u] \in {"connect", "request"} => answers'[u] = <<>>
                      /\ pc'[u] = "done" =>
                            /\ ReadsRight(u)'
                            /\ Len(answers'[u]) = Cardinality(AnsweredOf(KindsOf(u)'))
    BY DEF Reading
  <2>1. pc'[u] \in {"connect", "request"} => pc[u] \in {"connect", "request"}
    OBVIOUS
  <2>2. pc'[u] = "done" => pc[u] = "done"
    OBVIOUS
  <2> QED BY <1>1, <1>2, <2>1, <2>2 DEF Reading
<1>4. Progress'
  BY DEF Progress
<1> QED BY <1>3, <1>4

LEMMA StopAnswers ==
    ASSUME StreamInv, AnswerInv, UNCHANGED <<clientVars, conn, commands, outcome>>
    PROVE  AnswerInv'
<1>0. Types /\ Locked
  BY DEF StreamInv
<1>1. \A t \in Threads : OutcomesOf(t)' = OutcomesOf(t) /\ Later(OutcomesOf(t), OutcomesOf(t)')
  BY SameOutcomes DEF clientVars
<1>2. sd # 0 => SameWay(sd)
  BY DEF SameWay, Lines, Stream, Broken, clientVars
<1> QED BY <1>0, <1>1, <1>2, QuietAnswers

LEMMA ConnectAnswers ==
    ASSUME StreamInv, AnswerInv, NEW t \in Threads, Connect(t)
    PROVE  AnswerInv'
<1>0. /\ Types /\ Locked /\ Reading /\ Between /\ pc[t] = "connect" /\ lock = NoThread
      /\ UNCHANGED <<lock, call, answer, answers, commands, outcome>>
  BY DEF StreamInv, AnswerInv, Connect
<1>1. /\ pc \in [Threads -> {"idle", "connect", "request", "write", "read", "done", "failed"}]
      /\ \A u \in Threads : pc[u] \notin {"write", "read"}
      /\ pc' = [pc EXCEPT ![t] = "request"] \/ pc' = [pc EXCEPT ![t] = "failed"]
  BY <1>0, ThreadsAssumption DEF Locked, Connect, Goto, Types, ClientTypes
<1>2. Reading' /\ Progress'
  BY <1>0, <1>1, NobodyReads
<1>3. CASE UNCHANGED <<sd, conn>>
  <2>1. Between'
    BY <1>0, <1>3, Zenon DEF Between, Lines, Broken, Blocked, Stream, Kind
  <2> QED BY <1>2, <2>1 DEF AnswerInv
<1>4. CASE \E c \in Conns : /\ sd' = c /\ conn[c] = Unused
                            /\ conn' = [conn EXCEPT ![c].server = "open"]
  <2>1. PICK c \in Conns : /\ sd' = c /\ conn[c] = Unused
                           /\ conn' = [conn EXCEPT ![c].server = "open"]
    BY <1>4, Zenon
  <2>2. conn'[c] = [Unused EXCEPT !.server = "open"]
    BY <1>0, <2>1 DEF Types, DaemonTypes
  <2>3. /\ conn'[c].from = <<>> /\ conn'[c].out = <<>> /\ conn'[c].rbuf = <<>> /\ conn'[c].to = <<>>
        /\ conn'[c].batch_start = FALSE
    BY <2>2 DEF Unused
  <2>4. <<>> \o <<>> = <<>>
    BY EmptySeq, ConcatEmptySeq
  <2>5. Lines(sd)' = <<>> /\ Stream(sd)' = <<>> /\ ~ conn'[sd'].batch_start
    BY <2>1, <2>3, <2>4 DEF Lines, Stream
  <2> QED BY <1>2, <2>5 DEF AnswerInv, Between
<1> QED BY <1>3, <1>4, ConnectFacts

LEMMA DisconnectAnswers ==
    ASSUME StreamInv, AnswerInv, NEW t \in Threads, Disconnect(t)
    PROVE  AnswerInv'
<1>0. /\ Locked /\ Reading /\ lock = NoThread /\ sd' = 0
      /\ UNCHANGED <<pc, call, answers, commands, outcome>>
  BY DEF StreamInv, AnswerInv, Disconnect, close_connection
<1>1. \A u \in Threads : pc[u] \notin {"write", "read"}
  BY <1>0, ThreadsAssumption DEF Locked
<1>2. Reading' /\ Progress'
  BY <1>0, <1>1, NobodyReads
<1> QED BY <1>0, <1>2 DEF AnswerInv, Between

LEMMA FailAnswers ==
    ASSUME StreamInv, AnswerInv, NEW t \in Threads, pc[t] = "read", Die(t),
           UNCHANGED <<call, commands, outcome>>
    PROVE  AnswerInv'
<1>0. /\ Types /\ Locked /\ Reading /\ sd' = 0 /\ UNCHANGED answers
      /\ pc' = [pc EXCEPT ![t] = "failed"]
  BY DEF StreamInv, AnswerInv, Die, close_connection, Goto
<1>1. /\ pc \in [Threads -> {"idle", "connect", "request", "write", "read", "done", "failed"}]
      /\ \A u \in Threads \ {t} : pc[u] \notin {"write", "read"}
  BY <1>0, Holder, Zenon DEF Types, ClientTypes
<1>2. Reading' /\ Progress'
  BY <1>0, <1>1, NobodyReads
<1> QED BY <1>0, <1>2 DEF AnswerInv, Between

LEMMA ReadEofAnswers ==
    ASSUME StreamInv, AnswerInv, NEW t \in Threads, ReadEof(t)
    PROVE  AnswerInv'
  BY FailAnswers DEF ReadEof

\* The client begins to write: nothing is on its way, and no batch is open.
LEMMA RequestAnswers ==
    ASSUME StreamInv, AnswerInv, NEW t \in Threads, Request(t)
    PROVE  AnswerInv'
<1>0. /\ Types /\ Locked /\ Reading /\ Between /\ pc[t] = "request" /\ lock = NoThread
      /\ UNCHANGED <<sd, call, answers, conn, commands, outcome>>
  BY DEF StreamInv, AnswerInv, Request
<1>1. /\ pc \in [Threads -> {"idle", "connect", "request", "write", "read", "done", "failed"}]
      /\ \A u \in Threads : pc[u] \notin {"write", "read"}
  BY <1>0, ThreadsAssumption DEF Locked, Types, ClientTypes
<1>2. CASE sd = 0 /\ pc' = [pc EXCEPT ![t] = "failed"]
  <2>1. Reading' /\ Progress'
    BY <1>0, <1>1, <1>2, NobodyReads
  <2> QED BY <1>0, <1>2, <2>1 DEF AnswerInv, Between
<1>3. CASE /\ sd # 0 /\ pc' = [pc EXCEPT ![t] = "write"] /\ lock' = t
           /\ unsent' = [unsent EXCEPT ![t] = NothingSent]
           /\ answer' = [answer EXCEPT ![t] = NoAnswer]
  <2>1. /\ pc'[t] = "write" /\ \A u \in Threads \ {t} : pc'[u] = pc[u]
        /\ unsent'[t] = NothingSent /\ answer'[t] = NoAnswer /\ answers[t] = <<>>
    BY <1>0, <1>1, <1>3 DEF Types, ClientTypes, Reading
  <2>2. \A u \in Threads : /\ KindsOf(u)' = KindsOf(u) /\ OutcomesOf(u)' = OutcomesOf(u)
                           /\ (ReadsRight(u) => ReadsRight(u)')
    BY <1>0 DEF KindsOf, OutcomesOf, ReadsRight, Kind
  <2>3. /\ Lines(sd) = <<>> /\ Lines(sd)' = <<>> /\ (Broken(sd)' <=> Broken(sd)) /\ (Blocked' <=> Blocked)
        /\ Stream(sd)' = Stream(sd)
        /\ ~ Broken(sd) /\ ~ Blocked => Stream(sd) = <<>> /\ ~ conn[sd].batch_start
    BY <1>0, <1>3, Zenon DEF Between, Lines, Broken, Blocked, Stream, Kind
  <2>4. KindsOf(t) \in Seq(Kinds) /\ Len(call[t]) \in Nat /\ DOMAIN OutcomesOf(t) = 1 .. Len(KindsOf(t))
    BY <1>0, ViewTypes
  <2>5. Len(<<>>) = 0 /\ 1 .. 0 = {}
    BY EmptySeq
  <2>6. ReadRight(KindsOf(t), OutcomesOf(t), call[t], <<>>)
    <3>1. \A i \in AnsweredOf(KindsOf(t)) : ~ (RankIn(KindsOf(t), i) <= 0)
      BY <2>4, RankPositive
    <3> QED BY <2>5, <3>1 DEF ReadRight
  <2>7. /\ InOrder(KindsOf(t), OutcomesOf(t), call[t], <<>>)
        /\ GoesOn(KindsOf(t), call[t], <<>>, NoAnswer, <<>>)
    BY <2>5 DEF InOrder, GoesOn, NoAnswer
  <2>8. ReadsRight(t)' /\ WillRead(t)'
    BY <1>0, <2>1, <2>2, <2>3, <2>6, <2>7 DEF ReadsRight, WillRead
  <2>9. Reading'
    <3> SUFFICES ASSUME NEW u \in Threads
                 PROVE  (/\ pc[u] \in {"connect", "request"} => answers[u] = <<>>
                         /\ pc[u] \in {"write", "read"} => ReadsRight(u) /\ WillRead(u)
                         /\ pc[u] = "done" =>
                               /\ ReadsRight(u)
                               /\ Len(answers[u]) = Cardinality(AnsweredOf(KindsOf(u))))'
      BY DEF Reading
    <3>1. CASE u = t
      BY <2>1, <2>8, <3>1
    <3>2. CASE u # t
      BY <1>0, <1>1, <2>1, <2>2, <3>2 DEF Reading
    <3> QED BY <3>1, <3>2
  <2>10. Progress'
    <3> SUFFICES ASSUME NEW u \in Threads, pc'[u] \in {"write", "read"}, ~ Broken(sd)', ~ Blocked'
                 PROVE  (\E p \in 0 .. Len(call[u]) : HasHandled(u, p, pc[u] = "write"))'
      BY DEF Progress
    <3>1. u = t /\ (pc'[u] = "write") = TRUE
      BY <1>1, <2>1
    <3>2. Stream(sd) = <<>> /\ conn[sd].batch_start = FALSE
      <4>1. conn[sd] \in ConnType
        BY <1>0, <1>3, StreamTypes, Zenon DEF Types, ClientTypes
      <4> QED BY <2>3, <4>1, ConnIs
    <3>3. HandledUpTo(OutcomesOf(t), 0)
      <4>1. \A i \in DOMAIN call[t] : outcome[call[t][i]] = "none"
        BY <1>0 DEF StreamInv, NotYetSent
      <4>2. \A i \in DOMAIN OutcomesOf(t) : OutcomesOf(t)[i] = "none" /\ i \in Nat /\ ~ (i <= 0)
        BY <1>0, <2>4, <4>1, ViewTypes DEF OutcomesOf
      <4> QED BY <4>2 DEF HandledUpTo
    <3>4. Comes(call[t], 0, <<>>, NothingSent, TRUE)
      BY <2>5 DEF Comes, NothingSent
    <3>5. BatchState(KindsOf(t), OutcomesOf(t), call[t], 0, conn[sd])
      BY <3>2, <2>5 DEF BatchState, InABatch
    <3>6. AtEnd(KindsOf(t), call[t], 0, <<>>, NoAnswer, <<>>)
      BY <2>4, <2>5, Ranks DEF AtEnd
    <3>7. HasHandled(t, 0, TRUE)'
      BY <1>0, <2>1, <2>2, <2>3, <3>2, <3>3, <3>4, <3>5, <3>6, Zenon DEF HasHandled
    <3>8. 0 \in 0 .. Len(call[t])
      BY <2>4
    <3> QED BY <1>0, <3>1, <3>7, <3>8, Zenon
  <2>11. Between'
    BY <1>3, ThreadsAssumption DEF Between
  <2> QED BY <2>9, <2>10, <2>11 DEF AnswerInv
<1> QED BY <1>2, <1>3 DEF Request, Goto

\* A step of the thread that holds the lock.
LEMMA ReadingAfter ==
    ASSUME Reading, UNCHANGED <<call, commands, outcome>>, NEW t \in Threads,
           \A u \in Threads \ {t} :
              pc'[u] = pc[u] /\ answers'[u] = answers[u] /\ pc[u] \notin {"write", "read"},
           pc'[t] \in {"write", "read", "done"}, ReadsRight(t)',
           pc'[t] \in {"write", "read"} => WillRead(t)',
           pc'[t] = "done" => Len(answers'[t]) = Cardinality(AnsweredOf(KindsOf(t)'))
    PROVE  Reading'
<1>1. \A u \in Threads : KindsOf(u)' = KindsOf(u) /\ OutcomesOf(u)' = OutcomesOf(u)
  BY DEF KindsOf, OutcomesOf, Kind
<1> SUFFICES ASSUME NEW u \in Threads
             PROVE  (/\ pc[u] \in {"connect", "request"} => answers[u] = <<>>
                     /\ pc[u] \in {"write", "read"} => ReadsRight(u) /\ WillRead(u)
                     /\ pc[u] = "done" =>
                           /\ ReadsRight(u)
                           /\ Len(answers[u]) = Cardinality(AnsweredOf(KindsOf(u))))'
  BY DEF Reading
<1>2. CASE u = t
  BY <1>2
<1>3. CASE u # t
  <2>1. ReadsRight(u) => ReadsRight(u)'
    BY <1>1, <1>3 DEF ReadsRight
  <2> QED BY <1>1, <1>3, <2>1 DEF Reading
<1> QED BY <1>2, <1>3

LEMMA WriteAnswers ==
    ASSUME StreamInv, AnswerInv, NEW t \in Threads, Write(t)
    PROVE  AnswerInv'
<1>0. /\ Types /\ Locked /\ CallShape /\ Reading /\ Progress /\ pc[t] = "write"
      /\ UNCHANGED <<lock, sd, call, answer, answers, commands, outcome>>
  BY DEF StreamInv, AnswerInv, Write
<1>1. /\ pc \in [Threads -> {"idle", "connect", "request", "write", "read", "done", "failed"}]
      /\ lock = t /\ lock # NoThread /\ sd \in Conns
      /\ \A u \in Threads \ {t} : pc[u] \notin {"write", "read"}
  BY <1>0, Holder, ThreadsAssumption, Zenon DEF Types, ClientTypes
<1>2. /\ ReadsRight(t) /\ WillRead(t)
      /\ KindsOf(t)' = KindsOf(t) /\ OutcomesOf(t)' = OutcomesOf(t) /\ ReadsRight(t)'
  BY <1>0 DEF Reading, KindsOf, OutcomesOf, Kind, ReadsRight
<1>3. Between'
  BY <1>0, <1>1 DEF Between
<1>4. CASE Broken(sd)
  <2>1. pc' = [pc EXCEPT ![t] = "read"] /\ UNCHANGED <<unsent, conn>>
    BY <1>4 DEF Write, Goto, Broken
  <2>2. Lines(sd)' = Lines(sd) /\ Broken(sd)'
    BY <1>0, <1>4, <2>1 DEF Lines, Broken
  <2>3. WillRead(t)'
    BY <1>0, <1>2, <2>2 DEF WillRead
  <2>4. Reading'
    BY <1>0, <1>1, <1>2, <2>1, <2>3, ReadingAfter
  <2>5. Progress'
    BY <2>2 DEF Progress
  <2> QED BY <1>3, <2>4, <2>5 DEF AnswerInv
<1>5. CASE ~ Broken(sd)
  <2> DEFINE s == Stream(sd)
             u == unsent[t]
             n == NextUnit(t)
             k == [conn[sd] EXCEPT !.to = Append(@, n)]
             ids == call[t]
  <2>1. PICK r \in Seq(UnitType) :
        /\ conn[sd] \in ConnType /\ n \in UnitType /\ n.id = ids[u.cmd] /\ n.part = u.part
        /\ conn' = [conn EXCEPT ![sd] = k] /\ k \in ConnType
        /\ Stream(sd)' = r /\ Len(r) = Len(s) + 1
        /\ \A i \in 1 .. Len(s) : r[i] = s[i]
        /\ r[Len(s) + 1] = n /\ Advance(t)
    BY <1>5, WriteFacts
  <2>2. /\ k.from = conn[sd].from /\ k.out = conn[sd].out /\ k.lost = conn[sd].lost
        /\ k.server = conn[sd].server /\ k.batch_start = conn[sd].batch_start
        /\ k.batch_cmd = conn[sd].batch_cmd /\ k.wbuf = conn[sd].wbuf
    BY <2>1 DEF ConnType
  <2>3. conn'[sd] = k /\ sd' = sd
    <3> HIDE DEF k
    <3> QED BY <1>0, <1>1, <2>1, OneConn, Zenon
  <2> HIDE DEF k, n
  <2>4. (Broken(sd)' <=> Broken(sd)) /\ Lines(sd)' = Lines(sd)
    BY <1>0, <2>2, <2>3 DEF Broken, Lines
  <2>5. WillRead(t)'
    BY <1>0, <1>2, <2>4 DEF WillRead
  <2>6. /\ u.cmd \in DOMAIN ids /\ u.cmd \in Nat \ {0} /\ u.part \in Nat \ {0}
        /\ u.part \in 1 .. Size[Kind(ids[u.cmd])] /\ unsent \in [Threads -> [cmd : Nat \ {0}, part : Nat \ {0}]]
    BY <1>0, Zenon DEF StreamInv, Continues, Types, ClientTypes
  <2>7. \/ pc'[t] = "write" /\ unsent'[t].part # 1
        \/ pc'[t] = "write" /\ u.cmd # Len(ids) /\ unsent'[t].cmd = u.cmd + 1 /\ unsent'[t].part = 1
        \/ pc'[t] = "read" /\ u.cmd = Len(ids)
    <3>1. CASE ~ IsEol(n)
      <4>1. pc'[t] = "write" /\ unsent'[t] = [u EXCEPT !.part = @ + 1]
        BY <1>1, <2>1, <2>6, <3>1 DEF Advance, Goto, n
      <4>2. unsent'[t].part = u.part + 1
        BY <2>6, <4>1
      <4> QED BY <2>6, <4>1, <4>2
    <3>2. CASE IsEol(n)
      BY <1>1, <2>1, <2>6, <3>2 DEF Advance, Goto, n
    <3> QED BY <3>1, <3>2
  <2>8. \A v \in Threads \ {t} : pc'[v] = pc[v]
    BY <1>1, <2>1 DEF Advance, Goto
  <2>9. Reading'
    BY <1>0, <1>1, <1>2, <2>5, <2>7, <2>8, ReadingAfter
  <2>10. Progress'
    <3> SUFFICES ASSUME NEW v \in Threads, pc'[v] \in {"write", "read"}, ~ Broken(sd)', ~ Blocked'
                 PROVE  (\E p \in 0 .. Len(call[v]) : HasHandled(v, p, pc[v] = "write"))'
      BY DEF Progress
    <3>1. v = t
      BY <1>1, <2>8
    <3>2. /\ s \in Seq(UnitType) /\ Len(s) \in Nat /\ ids \in Seq(Ids) /\ DOMAIN ids = 1 .. Len(ids)
          /\ Len(ids) \in Nat
      BY <1>0, <1>1, StreamTypes, CallTypes, Zenon
    <3>3. ~ Blocked
      <4> SUFFICES ASSUME s # <<>> PROVE Kind(s[1].id) # "quit"
        BY DEF Blocked
      <4>1. 1 \in 1 .. Len(s)
        <5> HIDE DEF s
        <5>1. Len(s) # 0
          BY <3>2, EmptySeq
        <5> QED BY <3>2, <5>1
      <4>2. r[1] = s[1] /\ r # <<>>
        <5>1. Len(r) # 0
          <6> HIDE DEF s
          <6> QED BY <2>1, <3>2
        <5> QED BY <2>1, <4>1, <5>1, EmptySeq
      <4>3. Kind(r[1].id)' # "quit"
        BY <2>1, <2>3, <4>2 DEF Blocked
      <4> QED BY <1>0, <4>2, <4>3 DEF Kind
    <3>4. PICK p \in 0 .. Len(ids) : HasHandled(t, p, TRUE)
      <4>1. (pc[t] = "write") = TRUE
        BY <1>0
      <4> QED BY <1>0, <1>5, <3>3, <4>1, Zenon DEF Progress
    <3>5. /\ p \in Nat /\ HandledUpTo(OutcomesOf(t), p) /\ Comes(ids, p, s, u, TRUE)
          /\ BatchState(KindsOf(t), OutcomesOf(t), ids, p, conn[sd])
          /\ AtEnd(KindsOf(t), ids, p, answers[t], answer[t], Lines(sd))
      <4>1. p \in Nat
        BY <3>2
      <4> QED BY <3>4, <4>1, Zenon DEF HasHandled
    <3>6. Successive(ids)
      BY <1>0 DEF CallShape, Successive
    <3>7. /\ Len(r) = Len(s) + 1 /\ \A i \in 1 .. Len(s) : r[i] = s[i]
          /\ r[Len(s) + 1].id = ids[u.cmd] /\ r[Len(s) + 1].part = u.part
          /\ u.cmd \in DOMAIN ids /\ u.part \in Nat \ {0}
      BY <2>1, <2>6
    <3>8. Comes(ids, p, r, unsent'[t], (pc[t] = "write")')
      <4> HIDE DEF s, u, ids
      <4>1. CASE pc'[t] = "write"
        <5>1. (pc'[t] = "write") = TRUE
          BY <4>1
        <5> DEFINE next == unsent'[t]
        <5>2. next.part # 1 \/ (u.cmd # Len(ids) /\ next.cmd = u.cmd + 1 /\ next.part = 1)
          BY <2>7, <4>1
        <5> HIDE DEF next
        <5>3. Comes(ids, p, r, next, TRUE)
          BY <1>0, <3>2, <3>5, <3>6, <3>7, <5>2, ComesWritingOn, Zenon
        <5> QED BY <5>1, <5>3, Zenon DEF next
      <4>2. CASE pc'[t] # "write"
        <5>1. (pc'[t] = "write") = FALSE
          BY <4>2
        <5>2. Comes(ids, p, r, unsent'[t], FALSE)
          BY <1>0, <2>7, <3>2, <3>5, <3>6, <3>7, <4>2, ComesWritten, Zenon
        <5> QED BY <5>1, <5>2, Zenon
      <4> QED BY <4>1, <4>2
    <3>9. BatchState(KindsOf(t), OutcomesOf(t), ids, p, k)
      BY <2>2, <3>5, SameBatch
    <3>10. HasHandled(t, p, pc[t] = "write")'
      BY <1>0, <1>2, <2>1, <2>3, <2>4, <3>5, <3>8, <3>9 DEF HasHandled
    <3> QED BY <1>0, <3>1, <3>10
  <2> QED BY <1>3, <2>9, <2>10 DEF AnswerInv
<1> QED BY <1>4, <1>5

LEMMA TailConcat ==
    ASSUME NEW S, NEW r \in Seq(S), NEW s \in Seq(S), r # <<>>
    PROVE  Tail(r \o s) = Tail(r) \o s /\ (r \o s)[1] = Head(r) /\ r \o s # <<>>
<1> DEFINE a == r \o s
           b == Tail(r)
<1>1. /\ b \in Seq(S) /\ Len(b) = Len(r) - 1 /\ Len(r) \in Nat /\ Len(r) > 0
      /\ \A l \in 1 .. Len(r) - 1 : b[l] = r[l + 1]
      /\ Head(r) = r[1] /\ Len(s) \in Nat
  BY TailIs, LenProperties
<1>2. /\ a \in Seq(S) /\ Len(a) = Len(r) + Len(s)
      /\ \A l \in 1 .. Len(r) + Len(s) : a[l] = IF l <= Len(r) THEN r[l] ELSE s[l - Len(r)]
  BY ConcatProperties
<1>3. b \o s \in Seq(S) /\ Len(b \o s) = (Len(r) - 1) + Len(s)
      /\ \A l \in 1 .. (Len(r) - 1) + Len(s) :
            (b \o s)[l] = IF l <= Len(r) - 1 THEN b[l] ELSE s[l - (Len(r) - 1)]
  <2>1. /\ Len(b \o s) = Len(b) + Len(s) /\ b \o s \in Seq(S)
        /\ \A l \in 1 .. Len(b) + Len(s) : (b \o s)[l] = IF l <= Len(b) THEN b[l] ELSE s[l - Len(b)]
    <3> HIDE DEF b
    <3> QED BY <1>1, ConcatProperties
  <2> HIDE DEF b
  <2> QED BY <1>1, <2>1
<1> HIDE DEF a, b
<1>4. a # <<>> /\ a[1] = Head(r)
  <2>1. Len(a) # 0 /\ 1 \in 1 .. Len(r) + Len(s) /\ 1 <= Len(r)
    BY <1>1, <1>2
  <2> QED BY <1>1, <1>2, <2>1, EmptySeq
<1>5. /\ Tail(a) \in Seq(S) /\ Len(Tail(a)) = Len(a) - 1
      /\ \A l \in 1 .. Len(a) - 1 : Tail(a)[l] = a[l + 1]
  BY <1>2, <1>4, TailIs
<1>6. Len(a) - 1 = (Len(r) - 1) + Len(s)
  BY <1>1, <1>2
<1>7. ASSUME NEW l \in 1 .. (Len(r) - 1) + Len(s) PROVE Tail(a)[l] = (b \o s)[l]
  <2>1. l + 1 \in 1 .. Len(r) + Len(s) /\ Tail(a)[l] = a[l + 1]
    BY <1>1, <1>5, <1>6
  <2>2. CASE l <= Len(r) - 1
    <3>1. l + 1 <= Len(r) /\ l \in 1 .. Len(r) - 1
      BY <1>1, <2>2
    <3> QED BY <1>1, <1>2, <1>3, <2>1, <2>2, <3>1
  <2>3. CASE ~ (l <= Len(r) - 1)
    <3>1. ~ (l + 1 <= Len(r)) /\ (l + 1) - Len(r) = l - (Len(r) - 1)
      BY <1>1, <2>3
    <3>2. a[l + 1] = s[(l + 1) - Len(r)]
      BY <1>2, <2>1, <3>1
    <3>3. (b \o s)[l] = s[l - (Len(r) - 1)]
      BY <1>3, <2>3, Zenon
    <3> QED BY <2>1, <3>1, <3>2, <3>3, Zenon
  <2> QED BY <2>2, <2>3, Zenon
<1>8. Tail(a) = b \o s
  BY <1>3, <1>5, <1>6, <1>7, SeqEqual, Zenon
<1> QED BY <1>4, <1>8 DEF a, b

\* The commands of a call that are answered at once.
LEMMA AnsweredIs ==
    ASSUME Types, NEW t \in Threads
    PROVE  /\ \A i \in DOMAIN call[t] : InBatch(call[t], i) <=> InABatch(KindsOf(t), i)
           /\ Answered(call[t]) = AnsweredOf(KindsOf(t))
<1> DEFINE ids == call[t]
           ks == KindsOf(t)
<1>1. DOMAIN ks = DOMAIN ids /\ \A i \in DOMAIN ids : ks[i] = Kind(ids[i])
  BY DEF KindsOf
<1>2. DOMAIN ids = 1 .. Len(ids) /\ Len(ids) \in Nat
  BY ViewTypes
<1> HIDE DEF ids, ks
<1>3. ASSUME NEW i \in DOMAIN ids
      PROVE  InBatch(ids, i) <=> InABatch(ks, i)
  <2>1. \A j \in 1 .. i - 1 : /\ j \in DOMAIN ids
                              /\ \A k \in j + 1 .. i - 1 : k \in DOMAIN ids
    BY <1>2
  <2> QED BY <1>1, <2>1 DEF InBatch, InABatch
<1>4. Answered(ids) = AnsweredOf(ks)
  BY <1>1, <1>3 DEF Answered, AnsweredOf
<1> QED BY <1>3, <1>4 DEF ids, ks

\* What the next line is, for the client.
LEMMA NextLine ==
    ASSUME Types, sd \in Conns, conn[sd].from # <<>>, sd' = sd,
           conn' = [conn EXCEPT ![sd] = [conn[sd] EXCEPT !.from = Tail(@)]]
    PROVE  /\ Lines(sd) \in Seq(LineType) /\ Lines(sd) # <<>> /\ Lines(sd)[1] = Head(conn[sd].from)
           /\ Lines(sd)' = Tail(Lines(sd)) /\ (Broken(sd)' <=> Broken(sd))
           /\ Stream(sd)' = Stream(sd) /\ conn'[sd].batch_start = conn[sd].batch_start
           /\ conn'[sd].batch_cmd = conn[sd].batch_cmd /\ conn'[sd].wbuf = conn[sd].wbuf
<1> DEFINE o == conn[sd]
           k == [o EXCEPT !.from = Tail(@)]
<1>1. o \in ConnType /\ o.from \in Seq(LineType) /\ o.out \in Seq(LineType) /\ Lines(sd) \in Seq(LineType)
  BY StreamTypes, ConnIs, LinesTypes, Zenon
<1>2. /\ k.from = Tail(o.from) /\ k.out = o.out /\ k.rbuf = o.rbuf /\ k.to = o.to
      /\ k.lost = o.lost /\ k.server = o.server /\ k.batch_start = o.batch_start
      /\ k.batch_cmd = o.batch_cmd /\ k.wbuf = o.wbuf
  BY <1>1 DEF ConnType
<1>3. conn'[sd] = k
  BY DEF Types, DaemonTypes
<1> HIDE DEF k
<1>4. (Broken(sd)' <=> Broken(sd)) /\ Stream(sd)' = Stream(sd)
  BY <1>2, <1>3, Zenon DEF Broken, Stream
<1>5. Lines(sd) # <<>> /\ Lines(sd)[1] = Head(o.from) /\ Lines(sd)' = Tail(Lines(sd))
  <2>1. CASE Broken(sd)
    <3>1. Lines(sd) = o.from /\ Lines(sd)' = Tail(o.from)
      BY <1>2, <1>3, <1>4, <2>1, Zenon DEF Lines
    <3> QED BY <1>1, <3>1, TailIs
  <2>2. CASE ~ Broken(sd)
    <3>1. Lines(sd) = o.from \o o.out /\ Lines(sd)' = Tail(o.from) \o o.out
      BY <1>2, <1>3, <1>4, <2>2, Zenon DEF Lines
    <3>2. /\ Tail(o.from \o o.out) = Tail(o.from) \o o.out /\ (o.from \o o.out)[1] = Head(o.from)
          /\ o.from \o o.out # <<>>
      BY <1>1, TailConcat, Zenon
    <3> QED BY <3>1, <3>2, Zenon
  <2> QED BY <2>1, <2>2
<1> QED BY <1>1, <1>2, <1>3, <1>4, <1>5

LEMMA ReadLineAnswers ==
    ASSUME StreamInv, AnswerInv, NEW t \in Threads, ReadLine(t)
    PROVE  AnswerInv'
<1> DEFINE ks == KindsOf(t)
           os == OutcomesOf(t)
           ids == call[t]
           s == Lines(sd)
           now == Now(t)
           got == answers[t]
           partial == answer[t]
<1>0. /\ Types /\ Locked /\ CallShape /\ Reading /\ Progress /\ pc[t] = "read" /\ conn[sd].from # <<>>
      /\ UNCHANGED <<call, unsent, commands, outcome>>
  BY DEF StreamInv, AnswerInv, ReadLine
<1>1. /\ pc \in [Threads -> {"idle", "connect", "request", "write", "read", "done", "failed"}]
      /\ answer \in [Threads -> AnswerType] /\ answers \in [Threads -> Seq(AnswerType)]
      /\ lock = t /\ lock # NoThread /\ sd \in Conns
      /\ \A u \in Threads \ {t} : pc[u] \notin {"write", "read"}
  BY <1>0, Holder, ThreadsAssumption, Zenon DEF Types, ClientTypes
<1>2. CASE partial.status = 0 /\ Text(Head(conn[sd].from)).n = NoNumber
  <2>1. Die(t)
    BY <1>2 DEF ReadLine
  <2> QED BY <1>0, <2>1, FailAnswers
<1>3. CASE ~ (partial.status = 0 /\ Text(Head(conn[sd].from)).n = NoNumber)
  <2>1. /\ conn' = [conn EXCEPT ![sd] = [conn[sd] EXCEPT !.from = Tail(@)]] /\ sd' = sd
        /\ IF Len(now.lines) >= now.status THEN Return(t, Append(got, now))
           ELSE answer' = [answer EXCEPT ![t] = now] /\ UNCHANGED <<pc, lock, answers>>
    BY <1>3, LineStep
  <2>2. /\ s \in Seq(LineType) /\ s # <<>> /\ s[1] = Head(conn[sd].from)
        /\ Lines(sd)' = Tail(s) /\ (Broken(sd)' <=> Broken(sd))
        /\ Stream(sd)' = Stream(sd) /\ conn'[sd].batch_start = conn[sd].batch_start
        /\ conn'[sd].batch_cmd = conn[sd].batch_cmd /\ conn'[sd].wbuf = conn[sd].wbuf
    BY <1>0, <1>1, <2>1, NextLine
  <2>3. now = Taken(partial, s[1])
    BY <2>2 DEF Now, Taken
  <2>4. /\ ks' = ks /\ os' = os /\ ks \in Seq(Kinds) /\ got \in Seq(AnswerType)
        /\ partial \in AnswerType /\ ids \in Seq(Ids) /\ Len(ids) \in Nat /\ Len(ks) = Len(ids)
        /\ DOMAIN ids = 1 .. Len(ids) /\ now \in AnswerType
    BY <1>0, <1>1, ViewTypes, CallTypes, NowType, Zenon DEF KindsOf, OutcomesOf, Kind
  <2>5. ReadRight(ks, os, ids, got) /\ InOrder(ks, os, ids, s) /\ GoesOn(ks, ids, got, partial, s)
    BY <1>0 DEF Reading, ReadsRight, WillRead
  <2>6. Answered(ids) = AnsweredOf(ks)
    BY <1>0, AnsweredIs
  <2> DEFINE whole == Append(got, now)
  <2> HIDE DEF ks, os, s, now, whole
  <2>7. ASSUME NEW p
        PROVE  /\ InOrder(ks, os, ids, Tail(s))
               /\ Len(now.lines) >= now.status =>
                     /\ ReadRight(ks, os, ids, whole) /\ GoesOn(ks, ids, whole, NoAnswer, Tail(s))
                     /\ AtEnd(ks, ids, p, got, partial, s) => AtEnd(ks, ids, p, whole, NoAnswer, Tail(s))
               /\ ~ (Len(now.lines) >= now.status) =>
                     /\ GoesOn(ks, ids, got, now, Tail(s))
                     /\ AtEnd(ks, ids, p, got, partial, s) => AtEnd(ks, ids, p, got, now, Tail(s))
    BY <2>2, <2>3, <2>4, <2>5, ReadOne, Zenon DEF whole
  <2>8. /\ Blocked' <=> Blocked
        /\ ~ Broken(sd) /\ ~ Blocked =>
              \E p \in 0 .. Len(ids) :
                 /\ HandledUpTo(os, p) /\ Comes(ids, p, Stream(sd), unsent[t], FALSE)
                 /\ BatchState(ks, os, ids, p, conn[sd]) /\ AtEnd(ks, ids, p, got, partial, s)
    <3>1. Blocked' <=> Blocked
      BY <1>0, <2>1, <2>2 DEF Blocked, Kind
    <3>2. (pc[t] = "write") = FALSE
      BY <1>0
    <3>3. ASSUME ~ Broken(sd), ~ Blocked PROVE \E p \in 0 .. Len(ids) : HasHandled(t, p, FALSE)
      BY <1>0, <3>2, <3>3, Zenon DEF Progress
    <3> QED BY <3>1, <3>3, Zenon DEF HasHandled, ks, os, s
  <2>9. CASE ~ (Len(now.lines) >= now.status)
    <3>1. answer'[t] = now /\ UNCHANGED <<pc, lock, answers>>
      BY <1>1, <2>1, <2>9
    <3>2. ReadsRight(t)' /\ WillRead(t)'
      BY <1>0, <2>1, <2>2, <2>4, <2>5, <2>7, <2>9, <3>1, Zenon DEF ReadsRight, WillRead, ks, os
    <3>3. Reading'
      BY <1>0, <1>1, <3>1, <3>2, ReadingAfter
    <3>4. Progress'
      <4> SUFFICES ASSUME NEW u \in Threads, pc'[u] \in {"write", "read"}, ~ Broken(sd)', ~ Blocked'
                   PROVE  (\E p \in 0 .. Len(call[u]) : HasHandled(u, p, pc[u] = "write"))'
        BY DEF Progress
      <4>1. u = t /\ (pc'[t] = "write") = FALSE
        BY <1>0, <1>1, <3>1
      <4>2. PICK p \in 0 .. Len(ids) :
               /\ HandledUpTo(os, p) /\ Comes(ids, p, Stream(sd), unsent[t], FALSE)
               /\ BatchState(ks, os, ids, p, conn[sd]) /\ AtEnd(ks, ids, p, got, partial, s)
        BY <2>1, <2>2, <2>8, Zenon
      <4>3. BatchState(ks, os, ids, p, conn'[sd])
        BY <2>2, <4>2, SameBatch
      <4>4. AtEnd(ks, ids, p, got, now, Tail(s))
        BY <2>7, <2>9, <4>2
      <4>5. HasHandled(t, p, pc[t] = "write")'
        BY <1>0, <2>1, <2>2, <2>4, <3>1, <4>1, <4>2, <4>3, <4>4, Zenon DEF HasHandled, ks, os
      <4> QED BY <1>0, <4>1, <4>5
    <3> QED BY <1>1, <3>1, <3>3, <3>4 DEF AnswerInv, Between
  <2>10. CASE Len(now.lines) >= now.status
    <3>1. /\ answers'[t] = whole /\ answer'[t] = NoAnswer
          /\ \A u \in Threads \ {t} : answers'[u] = answers[u] /\ pc'[u] = pc[u]
          /\ IF Len(whole) = Cardinality(AnsweredOf(ks)) THEN pc'[t] = "done" /\ lock' = NoThread
             ELSE pc' = pc /\ lock' = lock
      BY <1>1, <2>1, <2>6, <2>10 DEF Return, Goto, whole
    <3>2. ReadsRight(t)' /\ WillRead(t)'
      BY <1>0, <2>1, <2>2, <2>4, <2>5, <2>7, <2>10, <3>1, Zenon DEF ReadsRight, WillRead, ks, os
    <3>3. Reading'
      BY <1>0, <1>1, <2>4, <3>1, <3>2, ReadingAfter, Zenon DEF ks
    <3>4. CASE Len(whole) # Cardinality(AnsweredOf(ks))
      <4>1. Progress'
        <5> SUFFICES ASSUME NEW u \in Threads, pc'[u] \in {"write", "read"}, ~ Broken(sd)', ~ Blocked'
                     PROVE  (\E p \in 0 .. Len(call[u]) : HasHandled(u, p, pc[u] = "write"))'
          BY DEF Progress
        <5>1. u = t /\ (pc'[t] = "write") = FALSE
          BY <1>0, <1>1, <3>1, <3>4
        <5>2. PICK p \in 0 .. Len(ids) :
                 /\ HandledUpTo(os, p) /\ Comes(ids, p, Stream(sd), unsent[t], FALSE)
                 /\ BatchState(ks, os, ids, p, conn[sd]) /\ AtEnd(ks, ids, p, got, partial, s)
          BY <2>1, <2>2, <2>8
        <5>3. BatchState(ks, os, ids, p, conn'[sd])
          BY <2>2, <5>2, SameBatch
        <5>4. AtEnd(ks, ids, p, whole, NoAnswer, Tail(s))
          BY <2>7, <2>10, <5>2
        <5>5. HasHandled(t, p, pc[t] = "write")'
          BY <1>0, <2>1, <2>2, <2>4, <3>1, <5>1, <5>2, <5>3, <5>4, Zenon DEF HasHandled, ks, os
        <5> QED BY <1>0, <5>1, <5>5
      <4> QED BY <1>1, <3>1, <3>3, <3>4, <4>1 DEF AnswerInv, Between
    <3>5. CASE Len(whole) = Cardinality(AnsweredOf(ks))
      <4>1. Progress'
        BY <1>1, <3>1, <3>5, Zenon DEF Progress
      <4>2. Tail(s) \in Seq(LineType) /\ Tail(s) = <<>>
        <5>1. Tail(s) \in Seq(LineType)
          BY <2>2, TailIs
        <5> QED BY <2>4, <2>7, <2>10, <3>5, <5>1, NothingLeft, Zenon
      <4>3. ASSUME ~ Broken(sd), ~ Blocked PROVE Stream(sd) = <<>> /\ ~ conn[sd].batch_start
        <5>1. PICK p \in 0 .. Len(ids) :
                 /\ HandledUpTo(os, p) /\ Comes(ids, p, Stream(sd), unsent[t], FALSE)
                 /\ BatchState(ks, os, ids, p, conn[sd]) /\ AtEnd(ks, ids, p, got, partial, s)
          BY <2>8, <4>3, Zenon
        <5>2. RankIn(ks, p) = Cardinality(AnsweredOf(ks))
          BY <2>7, <2>10, <3>5, <4>2, <5>1 DEF AtEnd
        <5>3. \A i \in 1 .. Len(ks) : ks[i] = Kind(ids[i])
          BY <1>0, <2>4, ViewTypes DEF ks
        <5>4. \A i \in 1 .. Len(ks) : ks[i] = "batch" => \E j \in 1 .. Len(ks) : i < j /\ ks[j] = "dot"
          <6>1. \A i \in DOMAIN ids : Kind(ids[i]) = "batch" =>
                   \E j \in DOMAIN ids : i < j /\ Kind(ids[j]) = "dot"
            BY <1>0 DEF CallShape
          <6> HIDE DEF ids
          <6>2. DOMAIN ids = 1 .. Len(ks)
            BY <2>4
          <6> QED BY <5>3, <6>1, <6>2
        <5>5. Stream(sd) # <<>> /\ p < Len(ks) /\ Stream(sd)[1].id = ids[p + 1] => ks[p + 1] # "quit"
          <6>1. p < Len(ks) => p + 1 \in 1 .. Len(ks)
            BY <2>4
          <6> QED BY <4>3, <5>3, <6>1 DEF Blocked
        <5> DEFINE a == Stream(sd)
                   k == conn[sd]
        <5>6. p \in 0 .. Len(ks) /\ Comes(ids, p, a, unsent[t], FALSE) /\ BatchState(ks, os, ids, p, k)
              /\ (a # <<>> /\ p < Len(ks) /\ a[1].id = ids[p + 1] => ks[p + 1] # "quit")
          BY <2>4, <5>1, <5>5, Zenon
        <5> HIDE DEF a, k
        <5>7. a = <<>> /\ ~ k.batch_start
          BY <2>4, <5>2, <5>4, <5>6, AllHandled, Zenon
        <5> QED BY <5>7 DEF a, k
      <4>4. Between'
        BY <2>1, <2>2, <2>8, <4>2, <4>3 DEF Between
      <4> QED BY <3>3, <4>1, <4>4 DEF AnswerInv
    <3> QED BY <3>4, <3>5
  <2> QED BY <2>9, <2>10
<1> QED BY <1>2, <1>3

\* A new call changes nothing for those that run.
\* What is known of the old commands stays when new ones come.
LEMMA NewOutcomes ==
    ASSUME Types, NEW cmds \in Seq([kind : Kinds, stamp : Nat]), commands' = commands \o cmds,
           outcome' = outcome \o [k \in 1 .. Len(cmds) |-> "none"]
    PROVE  \A id \in Ids : commands'[id] = commands[id] /\ outcome'[id] = outcome[id]
<1> DEFINE new == [k \in 1 .. Len(cmds) |-> "none"]
<1>1. /\ commands \in Seq([kind : Kinds, stamp : Nat]) /\ outcome \in Seq(Outcomes)
      /\ Len(outcome) = Len(commands) /\ Len(commands) \in Nat /\ Len(cmds) \in Nat
  BY DEF Types, HistoryTypes, Outcomes
<1>2. new \in Seq(Outcomes)
  BY <1>1 DEF Outcomes
<1> HIDE DEF new
<1>3. /\ \A i \in 1 .. Len(commands) + Len(cmds) : i <= Len(commands) => (commands \o cmds)[i] = commands[i]
      /\ \A i \in 1 .. Len(outcome) + Len(new) : i <= Len(outcome) => (outcome \o new)[i] = outcome[i]
  BY <1>1, <1>2, ConcatProperties
<1>4. Len(new) \in Nat
  BY <1>2, LenProperties
<1>5. \A id \in Ids : /\ id \in 1 .. Len(commands) + Len(cmds) /\ id <= Len(commands)
                      /\ id \in 1 .. Len(commands) + Len(new)
  BY <1>1, <1>4 DEF Ids
<1> QED BY <1>1, <1>3, <1>5 DEF new

LEMMA BeginAnswers ==
    ASSUME StreamInv, AnswerInv, NEW t \in Threads, NEW cmds \in Seq([kind : Kinds, stamp : Nat]),
           pc[t] \in {"idle", "done", "failed"}, Begin(t, cmds)
    PROVE  AnswerInv'
<1>0. /\ Types /\ Locked /\ Reading /\ Progress /\ Between
      /\ commands' = commands \o cmds /\ outcome' = outcome \o [k \in 1 .. Len(cmds) |-> "none"]
      /\ UNCHANGED <<lock, sd, unsent, answer, conn>>
  BY DEF StreamInv, AnswerInv, Begin
<1>1. /\ pc'[t] = "connect" /\ answers'[t] = <<>>
      /\ \A u \in Threads \ {t} : /\ pc'[u] = pc[u] /\ answers'[u] = answers[u] /\ call'[u] = call[u]
  BY <1>0 DEF Types, ClientTypes, Begin
<1>2. \A id \in Ids : commands'[id] = commands[id] /\ outcome'[id] = outcome[id]
  BY <1>0, NewOutcomes, Zenon
<1>3. ASSUME NEW u \in Threads \ {t}
      PROVE  KindsOf(u)' = KindsOf(u) /\ OutcomesOf(u)' = OutcomesOf(u) /\ (ReadsRight(u)' <=> ReadsRight(u))
  <2>1. \A i \in DOMAIN call[u] : call[u][i] \in Ids
    BY <1>0, CallTypes
  <2>2. KindsOf(u)' = KindsOf(u) /\ OutcomesOf(u)' = OutcomesOf(u)
    BY <1>1, <1>2, <2>1, SameKinds
  <2> QED BY <1>1, <2>2 DEF ReadsRight
<1>4. ASSUME sd # 0
      PROVE  /\ Lines(sd)' = Lines(sd) /\ (Broken(sd)' <=> Broken(sd)) /\ Stream(sd)' = Stream(sd)
             /\ Blocked' <=> Blocked
  <2>1. sd \in Conns /\ Stream(sd) \in Seq(UnitType)
    BY <1>0, <1>4, StreamTypes, Zenon DEF Types, ClientTypes
  <2>2. Lines(sd)' = Lines(sd) /\ (Broken(sd)' <=> Broken(sd)) /\ Stream(sd)' = Stream(sd)
    BY <1>0 DEF Lines, Broken, Stream
  <2>3. Stream(sd) # <<>> => Stream(sd)[1].id \in Ids
    <3> DEFINE s == Stream(sd)
    <3>1. s \in Seq(UnitType)
      BY <2>1
    <3> HIDE DEF s
    <3>2. s # <<>> => 1 \in 1 .. Len(s)
      BY <3>1, EmptySeq, LenProperties
    <3>3. s # <<>> => s[1].id \in Ids
      BY <1>0, <3>1, <3>2, UnitIs, Zenon
    <3> QED BY <3>3 DEF s
  <2>4. Blocked' <=> Blocked
    BY <1>0, <1>2, <2>2, <2>3, Zenon DEF Blocked, Kind
  <2> QED BY <2>2, <2>4
<1>5. \A u \in Threads : pc[u] \in {"write", "read"} => sd # 0 /\ u # t
  BY <1>0, HolderIs
<1>6. Reading'
  <2> SUFFICES ASSUME NEW u \in Threads
               PROVE  (/\ pc[u] \in {"connect", "request"} => answers[u] = <<>>
                       /\ pc[u] \in {"write", "read"} => ReadsRight(u) /\ WillRead(u)
                       /\ pc[u] = "done" =>
                             /\ ReadsRight(u)
                             /\ Len(answers[u]) = Cardinality(AnsweredOf(KindsOf(u))))'
    BY DEF Reading
  <2>1. CASE u = t
    BY <1>1, <2>1
  <2>2. CASE u # t
    <3>1. pc'[u] \in {"write", "read"} /\ WillRead(u) => WillRead(u)'
      BY <1>0, <1>1, <1>3, <1>4, <1>5, <2>2, Zenon DEF WillRead
    <3> QED BY <1>0, <1>1, <1>3, <2>2, <3>1, Zenon DEF Reading
  <2> QED BY <2>1, <2>2
<1>7. Progress'
  <2> SUFFICES ASSUME NEW u \in Threads, pc'[u] \in {"write", "read"}, ~ Broken(sd)', ~ Blocked'
               PROVE  (\E p \in 0 .. Len(call[u]) : HasHandled(u, p, pc[u] = "write"))'
    BY DEF Progress
  <2>1. u # t /\ pc'[u] = pc[u] /\ sd # 0 /\ call'[u] = call[u]
    BY <1>1, <1>5
  <2>2. PICK p \in 0 .. Len(call[u]) : HasHandled(u, p, pc[u] = "write")
    BY <1>0, <1>4, <2>1 DEF Progress
  <2>3. HasHandled(u, p, pc[u] = "write")'
    BY <1>0, <1>1, <1>3, <1>4, <2>1, <2>2 DEF HasHandled
  <2> QED BY <2>1, <2>3
<1>8. Between'
  BY <1>0, <1>4 DEF Between
<1> QED BY <1>6, <1>7, <1>8 DEF AnswerInv

LEMMA NewCallAnswers ==
    ASSUME StreamInv, AnswerInv, NEW t \in Threads, NEW shape \in Calls[t], NewCall(t, shape)
    PROVE  AnswerInv'
<1> DEFINE cmds == [k \in 1 .. Len(shape) |-> [kind |-> shape[k], stamp |-> Len(commands) + k]]
<1>1. cmds \in Seq([kind : Kinds, stamp : Nat])
  BY NewCallCommands DEF StreamInv
<1>2. pc[t] \in {"idle", "done", "failed"} /\ Begin(t, cmds)
  BY DEF NewCall
<1> HIDE DEF cmds
<1> QED BY <1>1, <1>2, BeginAnswers, Zenon

LEMMA RetryAnswers ==
    ASSUME StreamInv, AnswerInv, NEW t \in Threads, Retry(t)
    PROVE  AnswerInv'
<1> DEFINE cmds == [k \in 1 .. Len(call[t]) |-> commands[call[t][k]]]
<1>1. cmds \in Seq([kind : Kinds, stamp : Nat])
  BY RetryCommands DEF StreamInv
<1>2. pc[t] \in {"idle", "done", "failed"} /\ Begin(t, cmds)
  BY DEF Retry
<1> HIDE DEF cmds
<1> QED BY <1>1, <1>2, BeginAnswers, Zenon

LEMMA InitAnswers == Init => AnswerInv
  BY DEF Init, AnswerInv, Reading, Progress, Between

LEMMA AnswerSteps == StreamInv /\ AnswerInv /\ [Next]_vars => AnswerInv'
<1> SUFFICES ASSUME StreamInv, AnswerInv, [Next]_vars PROVE AnswerInv'
  OBVIOUS
<1>1. ASSUME NEW t \in Threads,
             \/ \E shape \in Calls[t] : NewCall(t, shape)
             \/ Retry(t) \/ Disconnect(t) \/ Client(t)
      PROVE  AnswerInv'
  BY <1>1, NewCallAnswers, RetryAnswers, DisconnectAnswers, ConnectAnswers, RequestAnswers,
     WriteAnswers, ReadLineAnswers, ReadEofAnswers DEF Client
<1>2. ASSUME NEW c \in Conns, Server(c) \/ Lose(c)
      PROVE  AnswerInv'
  BY <1>2, ServerReadAnswers, ServerCloseAnswers, ServerWriteAnswers, ServerWriteFailsAnswers,
     ServerCommandAnswers, LoseAnswers DEF Server
<1>3. CASE Forget \/ Stop
  BY <1>3, StopAnswers DEF Forget, Stop
<1>4. CASE UNCHANGED vars
  BY <1>4, StopAnswers DEF vars
<1> QED BY <1>1, <1>2, <1>3, <1>4 DEF Next

\* The errors of a batch, by the number of its end.
LEMMA ErrorNumbersAre ==
    ASSUME Types, NEW t \in Threads, NEW i \in DOMAIN call[t],
           NEW start \in 1 .. i - 1, Opens(KindsOf(t), i, start)
    PROVE  ErrorNumbers(call[t], i) = ErrorsOf(OutcomesOf(t), call[t], i, start)
<1> DEFINE ids == call[t]
           ks == KindsOf(t)
           os == OutcomesOf(t)
           Opening(j) == Kind(ids[j]) = "batch" /\ ~ InBatch(ids, j)
                         /\ \A k \in j + 1 .. i - 1 : Kind(ids[k]) # "dot"
           chosen == CHOOSE j \in 1 .. i - 1 : Opening(j)
<1>1. /\ DOMAIN ids = 1 .. Len(ids) /\ Len(ids) \in Nat
      /\ \A j \in 1 .. Len(ids) : ks[j] = Kind(ids[j]) /\ os[j] = outcome[ids[j]]
  BY ViewTypes
<1>2. i \in Nat /\ i \in 1 .. Len(ids)
  BY <1>1
<1>3. \A j \in 1 .. i - 1 : InBatch(ids, j) <=> InABatch(ks, j)
  <2>1. \A j \in 1 .. i - 1 : j \in DOMAIN call[t]
    BY <1>1, <1>2
  <2> QED BY <2>1, AnsweredIs
<1> HIDE DEF ids, ks, os
<1>4. ASSUME NEW j \in 1 .. i - 1 PROVE Opening(j) <=> Opens(ks, i, j)
  <2>1. j \in 1 .. Len(ids) /\ \A k \in j + 1 .. i - 1 : k \in 1 .. Len(ids)
    BY <1>1, <1>2
  <2> QED BY <1>1, <1>3, <2>1 DEF Opens
<1>5. Opens(ks, i, start)
  BY DEF ks
<1>6. chosen = start
  <2> HIDE DEF Opening
  <2>1. chosen \in 1 .. i - 1 /\ Opening(chosen)
    BY <1>4, <1>5
  <2> HIDE DEF chosen
  <2>2. Opens(ks, i, chosen)
    BY <1>4, <2>1
  <2> QED BY <1>2, <1>5, <2>2, OpensOnce
<1>7. {j \in start + 1 .. i - 1 : outcome[ids[j]] = "error"} = Failed(os, i, start)
  <2>1. \A j \in start + 1 .. i - 1 : j \in 1 .. Len(ids)
    BY <1>1, <1>2
  <2> QED BY <1>1, <2>1 DEF Failed
<1>8. ErrorNumbers(ids, i)
        = {<<j - chosen, ids[j]>> : j \in {j \in chosen + 1 .. i - 1 : outcome[ids[j]] = "error"}}
  BY DEF ErrorNumbers
<1> HIDE DEF chosen
<1>9. ErrorNumbers(ids, i) = {<<j - start, ids[j]>> : j \in Failed(os, i, start)}
  BY <1>6, <1>7, <1>8
<1> QED BY <1>9 DEF ErrorsOf, ids, os

LEMMA RightAnswerIs ==
    ASSUME Types, NEW t \in Threads, NEW i \in Answered(call[t]), NEW got,
           RightAnswer(KindsOf(t), OutcomesOf(t), call[t], i, got)
    PROVE  RightResponse(call[t], i, got)
<1> DEFINE ids == call[t]
           ks == KindsOf(t)
           os == OutcomesOf(t)
<1>1. /\ i \in DOMAIN ids /\ DOMAIN ids = 1 .. Len(ids)
      /\ ks[i] = Kind(ids[i]) /\ os[i] = outcome[ids[i]]
  BY ViewTypes, Zenon DEF Answered
<1>2. CASE os[i] = "error"
  BY <1>1, <1>2 DEF RightResponse, RightAnswer
<1>3. CASE os[i] # "error" /\ ks[i] = "stats"
  BY <1>1, <1>3 DEF RightResponse, RightAnswer
<1>4. CASE os[i] # "error" /\ ks[i] = "dot"
  <2>1. PICK start \in 1 .. i - 1 : /\ Opens(ks, i, start) /\ got.status = Len(got.lines)
                                   /\ Noted(got.lines, ErrorsOf(os, ids, i, start))
    BY <1>4 DEF RightAnswer
  <2>2. ErrorNumbers(ids, i) = ErrorsOf(os, ids, i, start)
    BY <1>1, <2>1, ErrorNumbersAre
  <2>3. /\ got.status = Cardinality(ErrorNumbers(ids, i))
        /\ {<<got.lines[l].n, got.lines[l].id>> : l \in DOMAIN got.lines} = ErrorNumbers(ids, i)
    BY <2>1, <2>2 DEF Noted
  <2> HIDE DEF ids, ks, os
  <2>4. Kind(ids[i]) = "dot" /\ outcome[ids[i]] # "error"
    BY <1>1, <1>4
  <2>5. RightResponse(ids, i, got)
    BY <2>3, <2>4 DEF RightResponse
  <2> QED BY <2>5 DEF ids
<1>5. CASE os[i] # "error" /\ ks[i] \notin {"stats", "dot"}
  BY <1>1, <1>5 DEF RightResponse, RightAnswer
<1> QED BY <1>2, <1>3, <1>4, <1>5

\* What a call that has ended has read.
LEMMA AnswerOfDone ==
    ASSUME Types, Reading, NEW t \in Threads, pc[t] = "done"
    PROVE  /\ Len(answers[t]) = Cardinality(Answered(call[t]))
           /\ \A i \in Answered(call[t]) :
                 RightAnswer(KindsOf(t), OutcomesOf(t), call[t], i, answers[t][Rank(call[t], i)])
<1> DEFINE ks == KindsOf(t)
<1>1. /\ Answered(call[t]) = AnsweredOf(ks) /\ ks \in Seq(Kinds) /\ Len(ks) \in Nat
      /\ AnsweredOf(ks) \subseteq 1 .. Len(ks)
  <2>1. ks \in Seq(Kinds)
    BY ViewTypes
  <2>2. Len(ks) \in Nat
    BY ViewTypes
  <2>3. AnsweredOf(ks) \subseteq 1 .. Len(ks)
    BY <2>1 DEF AnsweredOf
  <2> QED BY <2>1, <2>2, <2>3, AnsweredIs
<1>2. Len(answers[t]) = Cardinality(AnsweredOf(ks)) /\ ReadsRight(t)
  BY DEF Reading
<1> HIDE DEF ks
<1>3. ASSUME NEW i \in Answered(call[t])
      PROVE  RightAnswer(ks, OutcomesOf(t), call[t], i, answers[t][Rank(call[t], i)])
  <2>1. Rank(call[t], i) = RankIn(ks, i)
    BY <1>1 DEF Rank, RankIn, UpTo
  <2>2. RankIn(ks, i) <= Len(answers[t])
    <3>1. i \in 1 .. Len(ks) /\ RankIn(ks, Len(ks)) = Cardinality(AnsweredOf(ks))
          /\ RankIn(ks, Len(ks)) \in Nat
      BY <1>1, Ranks
    <3>2. i = Len(ks) \/ RankIn(ks, i) <= RankIn(ks, Len(ks))
      <4>1. i \in Nat /\ (i = Len(ks) \/ i < Len(ks))
        BY <1>1, <3>1
      <4> QED BY <1>1, <4>1, RankRises
    <3> QED BY <1>2, <3>1, <3>2
  <2>3. RightAnswer(ks, OutcomesOf(t), call[t], i, answers[t][RankIn(ks, i)])
    BY <1>1, <1>2, <2>2 DEF ReadsRight, ReadRight, ks
  <2> QED BY <2>1, <2>3
<1> QED BY <1>1, <1>2, <1>3 DEF ks

LEMMA AnswersOfDone ==
    ASSUME Types, Reading
    PROVE  AnswersAreTheOnesOfTheCall
  BY AnswerOfDone, RightAnswerIs DEF AnswersAreTheOnesOfTheCall

(* A call that ends has got the responses to its own commands, in order:   *)
(* each says what the daemon has done with the command, and that to the    *)
(* end of a batch names the commands that failed.  This holds whichever    *)
(* threads share the connection, wherever it breaks, and however many      *)
(* responses were on their way when it was closed (request, response_read, *)
(* send_response).                                                         *)
THEOREM AnswersAreRight == Spec => []AnswersAreTheOnesOfTheCall
<1>1. StreamInv /\ AnswerInv => AnswersAreTheOnesOfTheCall
  BY AnswersOfDone DEF StreamInv, AnswerInv
<1> QED BY <1>1, InitAnswers, AnswerSteps, StreamsAreRight, PTL DEF Spec

-----------------------------------------------------------------------------
(* The order in which the commands of a call are handled.                  *)

\* Before a command in a stream are those that come before it in its call.
InTurn ==
    \A c \in Conns, t \in Threads : \A i, j \in DOMAIN call[t] : i < j =>
        \A b \in 1 .. Len(Stream(c)) : Stream(c)[b].id = call[t][j] =>
            outcome[call[t][i]] # "none" \/ \E a \in 1 .. b - 1 : Stream(c)[a].id = call[t][i]
\* What a thread has written is in the stream until it is handled.
SentSoFar ==
    \A t \in Threads : pc[t] = "write" /\ ~ Broken(sd) =>
        \A i \in DOMAIN call[t] : i < unsent[t].cmd =>
            outcome[call[t][i]] # "none" \/ Has(sd, call[t][i])
Beginning ==
    \A t \in Threads : \A i, j \in DOMAIN call[t] :
        i < j /\ outcome[call[t][j]] # "none" => outcome[call[t][i]] # "none"
OrderInv == InTurn /\ SentSoFar /\ Beginning

LEMMA TurnIs ==
    ASSUME InTurn, NEW c \in Conns, NEW t \in Threads, NEW i \in DOMAIN call[t],
           NEW j \in DOMAIN call[t], i < j, NEW b \in 1 .. Len(Stream(c)),
           Stream(c)[b].id = call[t][j]
    PROVE  outcome[call[t][i]] # "none" \/ \E a \in 1 .. b - 1 : Stream(c)[a].id = call[t][i]
  BY DEF InTurn

LEMMA ShrinkingOrder ==
    ASSUME StreamInv, StreamInv', OrderInv, UNCHANGED <<call, commands, outcome>>,
           \A c \in Conns : Shrinks(c),
           \A t \in Threads : pc'[t] = "write" =>
              \/ unsent'[t] = NothingSent
              \/ pc[t] = "write" /\ unsent'[t] = unsent[t] /\ sd' = sd /\ sd \in Conns
    PROVE  OrderInv'
<1>0. Types /\ Types'
  BY DEF StreamInv
<1>1. \A c \in Conns : Len(Stream(c)) \in Nat /\ Len(Stream(c)') \in Nat
  <2> SUFFICES ASSUME NEW c \in Conns PROVE Len(Stream(c)) \in Nat /\ Len(Stream(c)') \in Nat
    OBVIOUS
  <2>1. Stream(c) \in Seq(UnitType) /\ Stream(c)' \in Seq(UnitType)
    BY <1>0, StreamTypes, StreamTypesNext, Zenon
  <2> QED BY <2>1
<1>2. InTurn'
  <2> SUFFICES ASSUME NEW c \in Conns, NEW t \in Threads, NEW i \in DOMAIN call[t],
                      NEW j \in DOMAIN call[t], i < j, NEW b \in 1 .. Len(Stream(c)'),
                      Stream(c)'[b].id = call[t][j]
               PROVE  outcome[call[t][i]] # "none"
                      \/ \E a \in 1 .. b - 1 : Stream(c)'[a].id = call[t][i]
    BY DEF InTurn, Conns
  <2>1. /\ b \in 1 .. Len(Stream(c)) /\ Stream(c)[b] = Stream(c)'[b]
        /\ \A a \in 1 .. b - 1 : Stream(c)[a] = Stream(c)'[a]
    BY <1>1 DEF Shrinks
  <2> QED BY <2>1 DEF OrderInv, InTurn
<1>3. SentSoFar'
  <2> SUFFICES ASSUME NEW t \in Threads, pc'[t] = "write", ~ Broken(sd)', NEW i \in DOMAIN call[t],
                      i < unsent'[t].cmd
               PROVE  outcome[call[t][i]] # "none" \/ Has(sd, call[t][i])'
    BY DEF SentSoFar
  <2>1. CASE unsent'[t] = NothingSent
    <3>1. unsent'[t].cmd = 1 /\ i \in 1 .. Len(call[t]) /\ Len(call[t]) \in Nat
      BY <1>0, <2>1, CallTypes DEF NothingSent
    <3> QED BY <3>1
  <2>2. CASE pc[t] = "write" /\ unsent'[t] = unsent[t] /\ sd' = sd /\ sd \in Conns
    <3>1. ~ Broken(sd) /\ Stream(sd)' = Stream(sd)
      BY <2>2 DEF Shrinks, Broken
    <3> QED BY <2>2, <3>1 DEF OrderInv, SentSoFar, Has
  <2> QED BY <2>1, <2>2
<1>4. Beginning'
  BY DEF OrderInv, Beginning
<1> QED BY <1>2, <1>3, <1>4 DEF OrderInv

\* Steps in which the threads wait: nobody writes who did not write before.
LEMMA WaitingOrder ==
    ASSUME StreamInv, StreamInv', OrderInv, \A c \in Conns : Shrinks(c),
           UNCHANGED <<clientVars, commands, outcome>>
    PROVE  OrderInv'
<1>1. \A t \in Threads : pc'[t] = "write" =>
         pc[t] = "write" /\ unsent'[t] = unsent[t] /\ sd' = sd /\ sd \in Conns
  BY Holder DEF StreamInv, clientVars
<1> QED BY <1>1, ShrinkingOrder DEF clientVars

LEMMA ReaderOrder ==
    ASSUME StreamInv, StreamInv', OrderInv, NEW t \in Threads,
           Connect(t) \/ Disconnect(t) \/ ReadLine(t) \/ ReadEof(t)
    PROVE  OrderInv'
<1>0. Types /\ Locked
  BY DEF StreamInv
<1>1. /\ \A c \in Conns : Shrinks(c)
      /\ UNCHANGED <<call, unsent, commands, outcome>>
  <2>1. \A c \in Conns : Shrinks(c)
    BY ConnectStep, DisconnectStep, ReadLineStep, ReadEofStep
  <2> QED BY <2>1 DEF Connect, Disconnect, ReadLine, ReadEof
<1>2. pc \in [Threads -> {"idle", "connect", "request", "write", "read", "done", "failed"}]
  BY <1>0 DEF Types, ClientTypes
<1>3. \A u \in Threads : pc[u] # "write"
  <2>1. CASE Connect(t) \/ Disconnect(t)
    BY <1>0, <2>1, ThreadsAssumption DEF Connect, Disconnect, Locked
  <2>2. CASE ReadLine(t) \/ ReadEof(t)
    <3>1. pc[t] = "read"
      BY <2>2 DEF ReadLine, ReadEof
    <3> QED BY <1>0, <3>1, Holder
  <2> QED BY <2>1, <2>2
<1>4. pc' = pc \/ \E l \in {"request", "failed", "done"} : pc' = [pc EXCEPT ![t] = l]
  BY Zenon DEF Connect, Disconnect, ReadLine, ReadEof, Die, Return, Goto
<1>5. \A u \in Threads : pc'[u] # "write"
  BY <1>2, <1>3, <1>4
<1> QED BY <1>1, <1>5, ShrinkingOrder

LEMMA RequestOrder ==
    ASSUME StreamInv, StreamInv', OrderInv, NEW t \in Threads, Request(t)
    PROVE  OrderInv'
<1>0. Types /\ Locked /\ lock = NoThread
  BY DEF StreamInv, Request
<1>1. /\ \A u \in Threads : pc[u] # "write"
      /\ pc \in [Threads -> {"idle", "connect", "request", "write", "read", "done", "failed"}]
      /\ unsent \in [Threads -> [cmd : Nat \ {0}, part : Nat \ {0}]]
  BY <1>0, ThreadsAssumption DEF Locked, Types, ClientTypes
<1>2. UNCHANGED <<call, commands, outcome, conn>>
  BY DEF Request
<1>3. \A c \in Conns : Shrinks(c)
  BY <1>0, <1>2, SameShrinks
<1>4. \A u \in Threads : pc'[u] = "write" => unsent'[u] = NothingSent
  BY <1>1 DEF Request, Goto
<1> QED BY <1>2, <1>3, <1>4, ShrinkingOrder

LEMMA WriteOrder ==
    ASSUME StreamInv, StreamInv', OrderInv, NEW t \in Threads, Write(t)
    PROVE  OrderInv'
<1>0. /\ Types /\ Locked /\ CallShape /\ Continues /\ pc[t] = "write"
      /\ UNCHANGED <<sd, call, commands, outcome>>
  BY DEF StreamInv, Write
<1>1. /\ sd \in Conns /\ \A u \in Threads \ {t} : pc[u] # "write"
      /\ pc \in [Threads -> {"idle", "connect", "request", "write", "read", "done", "failed"}]
      /\ unsent \in [Threads -> [cmd : Nat \ {0}, part : Nat \ {0}]]
  BY <1>0, Holder, Zenon DEF Types, ClientTypes
<1>2. CASE Broken(sd)
  <2>1. pc' = [pc EXCEPT ![t] = "read"] /\ UNCHANGED conn
    BY <1>2 DEF Write, Goto, Broken
  <2>2. \A u \in Threads : pc'[u] # "write"
    BY <1>1, <2>1
  <2>3. \A c \in Conns : Shrinks(c)
    BY <1>0, <2>1, SameShrinks
  <2> QED BY <1>0, <2>2, <2>3, ShrinkingOrder
<1>3. CASE ~ Broken(sd)
  <2> DEFINE s == Stream(sd)
             n == Len(Stream(sd))
             m == unsent[t].cmd
  <2>1. /\ NextUnit(t).id = call[t][m] /\ Len(Stream(sd)') = n + 1
        /\ \A a \in 1 .. n : Stream(sd)'[a] = s[a]
        /\ Stream(sd)'[n + 1] = NextUnit(t)
        /\ \A d \in Conns \ {sd} : conn'[d] = conn[d]
        /\ Advance(t)
    BY <1>3, WriteFacts, Zenon
  <2>2. n \in Nat /\ m \in Nat /\ m \in DOMAIN call[t]
    <3>1. Stream(sd) \in Seq(UnitType)
      BY <1>0, <1>1, StreamTypes, Zenon
    <3>2. m \in DOMAIN call[t]
      BY <1>0, Zenon DEF Continues
    <3> QED BY <1>1, <3>1, <3>2
  <2>3. \A d \in Conns \ {sd} : Stream(d)' = Stream(d)
    BY <2>1 DEF Stream
  <2>4. \A i \in DOMAIN call[t] : call[t][i] = call[t][m] => i = m
    <3> SUFFICES ASSUME NEW i \in DOMAIN call[t], call[t][i] = call[t][m] PROVE i = m
      OBVIOUS
    <3>1. /\ call[t][i] = call[t][1] + i - 1 /\ call[t][m] = call[t][1] + m - 1
      BY <1>0, <2>2, Zenon DEF CallShape
    <3>2. DOMAIN call[t] = 1 .. Len(call[t]) /\ Len(call[t]) \in Nat /\ call[t] \in Seq(Ids)
      BY <1>0, CallTypes
    <3>3. call[t][1] \in Nat /\ i \in Nat /\ m \in Nat
      <4>1. 1 \in DOMAIN call[t] /\ i \in Nat
        BY <2>2, <3>2
      <4> QED BY <1>0, <2>2, <4>1, CallTypes DEF Ids
    <3>4. \A p, q, r \in Nat : p + q - 1 = p + r - 1 => q = r
      OBVIOUS
    <3>5. call[t][1] + i - 1 = call[t][1] + m - 1
      BY <3>1
    <3> HIDE DEF m
    <3> QED BY <3>3, <3>4, <3>5
  <2>5. InTurn'
    <3> SUFFICES ASSUME NEW c \in Conns, NEW u \in Threads, NEW i \in DOMAIN call[u],
                        NEW j \in DOMAIN call[u], i < j, NEW b \in 1 .. Len(Stream(c)'),
                        Stream(c)'[b].id = call[u][j]
                 PROVE  outcome[call[u][i]] # "none"
                        \/ \E a \in 1 .. b - 1 : Stream(c)'[a].id = call[u][i]
      BY <1>0 DEF InTurn, Conns
    <3>1. CASE c # sd
      <4>1. b \in 1 .. Len(Stream(c)) /\ Stream(c)[b].id = call[u][j] /\ Stream(c)' = Stream(c)
        BY <2>3, <3>1
      <4>2. outcome[call[u][i]] # "none" \/ \E a \in 1 .. b - 1 : Stream(c)[a].id = call[u][i]
        BY <4>1, TurnIs, Zenon DEF OrderInv
      <4> QED BY <4>1, <4>2
    <3>2. CASE c = sd /\ b \in 1 .. n
      <4>1. \A a \in 1 .. b - 1 : a \in 1 .. n
        BY <2>2, <3>2
      <4>2. /\ Stream(sd)'[b] = Stream(sd)[b]
            /\ \A a \in 1 .. b - 1 : Stream(sd)'[a] = Stream(sd)[a]
        BY <2>1, <3>2, <4>1, Zenon
      <4>3. Stream(sd)[b].id = call[u][j]
        BY <1>0, <3>2, <4>2
      <4>4. outcome[call[u][i]] # "none" \/ \E a \in 1 .. b - 1 : Stream(sd)[a].id = call[u][i]
        <5>1. sd \in Conns /\ b \in 1 .. Len(Stream(sd)) /\ InTurn
          BY <1>1, <3>2 DEF OrderInv
        <5> QED BY <4>3, <5>1, TurnIs, Zenon
      <4> QED BY <1>0, <3>2, <4>2, <4>4
    <3>3. CASE c = sd /\ b = n + 1
      <4>1. call[u][j] = call[t][m]
        BY <1>0, <2>1, <3>3
      <4>2. u = t
        BY <1>0, <2>2, <4>1, Zenon DEF CallShape
      <4>3. j = m
        BY <2>4, <4>1, <4>2
      <4>4. outcome[call[t][i]] # "none" \/ Has(sd, call[t][i])
        BY <1>0, <1>3, <4>2, <4>3 DEF OrderInv, SentSoFar
      <4>5. CASE Has(sd, call[t][i])
        <5>1. PICK a \in 1 .. n : Stream(sd)[a].id = call[t][i]
          BY <4>5 DEF Has
        <5>2. a \in 1 .. b - 1
          BY <2>2, <3>3
        <5>3. Stream(sd)'[a] = Stream(sd)[a]
          BY <2>1
        <5> QED BY <1>0, <3>3, <4>2, <5>1, <5>2, <5>3
      <4> QED BY <4>2, <4>4, <4>5
    <3>4. c = sd => b \in 1 .. n \/ b = n + 1
      <4>1. c = sd => Len(Stream(c)') = n + 1
        BY <1>0, <2>1
      <4>2. \A l \in Nat : \A x \in 1 .. l + 1 : x \in 1 .. l \/ x = l + 1
        OBVIOUS
      <4> HIDE DEF n
      <4> QED BY <2>2, <4>1, <4>2
    <3> QED BY <3>1, <3>2, <3>3, <3>4
  <2>6. SentSoFar'
    <3> SUFFICES ASSUME NEW u \in Threads, pc'[u] = "write", NEW i \in DOMAIN call[u],
                        i < unsent'[u].cmd
                 PROVE  outcome[call[u][i]] # "none" \/ Has(sd, call[u][i])'
      BY <1>0 DEF SentSoFar
    <3>1. u = t
      BY <1>1, <2>1 DEF Advance, Goto
    <3>2. unsent'[t].cmd = m \/ unsent'[t].cmd = m + 1
      BY <1>1, <2>1 DEF Advance
    <3>3. i \in Nat
      BY <1>0, CallTypes
    <3>4. CASE i = m
      <4>1. n + 1 \in 1 .. Len(Stream(sd)') /\ Stream(sd)'[n + 1].id = call[t][i]
        BY <2>1, <2>2, <3>4
      <4>2. Has(sd, call[t][i])'
        BY <1>0, <4>1 DEF Has
      <4> QED BY <3>1, <4>2
    <3>5. CASE i < m
      <4>1. outcome[call[t][i]] # "none" \/ Has(sd, call[t][i])
        BY <1>0, <1>3, <3>1, <3>5 DEF OrderInv, SentSoFar
      <4>2. Has(sd, call[t][i]) => Has(sd, call[t][i])'
        <5> SUFFICES ASSUME NEW a \in 1 .. n, Stream(sd)[a].id = call[t][i]
                     PROVE  Has(sd, call[t][i])'
          BY DEF Has
        <5>1. a \in 1 .. Len(Stream(sd)') /\ Stream(sd)'[a].id = call[t][i]
          BY <2>1, <2>2
        <5> QED BY <1>0, <5>1 DEF Has
      <4> QED BY <3>1, <4>1, <4>2
    <3> QED BY <2>2, <3>1, <3>2, <3>3, <3>4, <3>5
  <2>7. Beginning'
    BY <1>0 DEF OrderInv, Beginning
  <2> QED BY <2>5, <2>6, <2>7 DEF OrderInv
<1> QED BY <1>2, <1>3

\* The commands of a new call are nowhere yet.
LEMMA BeginOrder ==
    ASSUME StreamInv, StreamInv', OrderInv, NEW t \in Threads,
           NEW cmds \in Seq([kind : Kinds, stamp : Nat]),
           pc[t] \in {"idle", "done", "failed"}, Begin(t, cmds)
    PROVE  OrderInv'
<1>0. /\ Types /\ Locked /\ UNCHANGED <<sd, unsent, conn>>
      /\ commands' = commands \o cmds /\ outcome' = outcome \o [k \in 1 .. Len(cmds) |-> "none"]
  BY DEF StreamInv, Begin
<1>1. /\ pc'[t] = "connect"
      /\ \A u \in Threads \ {t} : pc'[u] = pc[u] /\ call'[u] = call[u]
  BY <1>0 DEF Types, ClientTypes, Begin
<1>2. \A id \in Ids : outcome'[id] = outcome[id]
  BY <1>0, NewOutcomes, Zenon
<1>3. ASSUME NEW u \in Threads \ {t}, NEW i \in DOMAIN call[u]
      PROVE  outcome'[call[u][i]] = outcome[call[u][i]]
  BY <1>0, <1>2, CallTypes
<1>4. \A c : Stream(c)' = Stream(c) /\ (Broken(c)' <=> Broken(c)) /\ \A id : Has(c, id)' <=> Has(c, id)
  BY <1>0 DEF Stream, Broken, Has
<1>5. \A i \in DOMAIN call'[t] : /\ outcome'[call'[t][i]] = "none"
                                /\ \A c \in Conns : ~ Has(c, call'[t][i])
  BY <1>1, <1>4 DEF StreamInv, NotYetSent, Conns
<1>6. InTurn'
  <2> SUFFICES ASSUME NEW c \in Conns, NEW u \in Threads, NEW i \in DOMAIN call'[u],
                      NEW j \in DOMAIN call'[u], i < j, NEW b \in 1 .. Len(Stream(c)),
                      Stream(c)[b].id = call'[u][j]
               PROVE  outcome'[call'[u][i]] # "none"
                      \/ \E a \in 1 .. b - 1 : Stream(c)[a].id = call'[u][i]
    BY <1>4 DEF InTurn, Conns
  <2>1. u # t
    BY <1>5 DEF Has
  <2>2. call'[u] = call[u]
    BY <1>1, <2>1
  <2>3. i \in DOMAIN call[u] /\ j \in DOMAIN call[u] /\ Stream(c)[b].id = call[u][j]
    BY <2>2
  <2>4. outcome[call[u][i]] # "none" \/ \E a \in 1 .. b - 1 : Stream(c)[a].id = call[u][i]
    BY <2>3, TurnIs, Zenon DEF OrderInv
  <2>5. outcome'[call[u][i]] = outcome[call[u][i]]
    BY <1>3, <2>1, <2>3
  <2> QED BY <2>2, <2>4, <2>5
<1>7. SentSoFar'
  <2> SUFFICES ASSUME NEW u \in Threads, pc'[u] = "write", ~ Broken(sd), NEW i \in DOMAIN call'[u],
                      i < unsent[u].cmd
               PROVE  outcome'[call'[u][i]] # "none" \/ Has(sd, call'[u][i])
    BY <1>0, <1>4 DEF SentSoFar
  <2>1. u # t
    BY <1>1
  <2> QED BY <1>1, <1>3, <2>1 DEF OrderInv, SentSoFar
<1>8. Beginning'
  <2> SUFFICES ASSUME NEW u \in Threads, NEW i \in DOMAIN call'[u], NEW j \in DOMAIN call'[u],
                      i < j, outcome'[call'[u][j]] # "none"
               PROVE  outcome'[call'[u][i]] # "none"
    BY DEF Beginning
  <2>1. u # t
    BY <1>5
  <2> QED BY <1>1, <1>3, <2>1 DEF OrderInv, Beginning
<1> QED BY <1>6, <1>7, <1>8 DEF OrderInv

LEMMA CommandOrder ==
    ASSUME StreamInv, StreamInv', OrderInv, NEW c \in Conns, ServerCommand(c)
    PROVE  OrderInv'
<1> DEFINE o == conn[c]
           s == Stream(c)
           n == Len(Stream(c))
<1>0. /\ Types /\ UNCHANGED <<sd, pc, call, unsent, commands>> /\ o.server = "open"
  BY Zenon DEF StreamInv, ServerCommand, daemonOnly, clientVars, Ready
<1>1. PICK e \in 1 .. Len(o.rbuf), k \in ConnType, result \in {"ok", "error"} :
         /\ o.rbuf[e].id \in Ids /\ IsEol(o.rbuf[e]) /\ s[e] = o.rbuf[e]
         /\ \A a \in 1 .. e : s[a].id = o.rbuf[e].id
         /\ conn' = [conn EXCEPT ![c] = k] /\ outcome' = [outcome EXCEPT ![o.rbuf[e].id] = result]
         /\ k.from = o.from /\ k.closed = o.closed /\ k.lost = o.lost
         /\ k.batch_cmd <= o.batch_cmd + 1
         /\ \/ /\ k.server = "open" /\ k.to = o.to
               /\ k.rbuf = SubSeq(o.rbuf, e + 1, Len(o.rbuf))
            \/ /\ k.server = "closed" /\ k.rbuf = <<>> /\ k.to = <<>>
               /\ k.out = <<>> /\ k.wbuf = <<>>
         /\ last_update_stamp' \in Nat
  BY CommandFacts, Zenon
<1> DEFINE id == o.rbuf[e].id
<1>2. /\ Stream(c)' = k.rbuf \o k.to /\ conn'[c] = k /\ \A d \in Conns \ {c} : conn'[d] = conn[d]
  BY <1>0, <1>1, OneConn, Zenon
<1>3. /\ o.rbuf \in Seq(UnitType) /\ Len(o.rbuf) \in Nat /\ n \in Nat /\ Len(o.rbuf) <= n
      /\ e \in Nat /\ e <= n /\ 1 <= e
  <2>1. /\ o.rbuf \in Seq(UnitType) /\ Len(o.rbuf) \in Nat /\ Len(o.to) \in Nat
        /\ n = Len(o.rbuf) + Len(o.to)
    BY <1>0, StreamTypes, ConnIs, Zenon
  <2>2. e \in Nat /\ 1 <= e /\ e <= Len(o.rbuf)
    BY <2>1
  <2>3. \A p, q, r \in Nat : r <= p => p + q \in Nat /\ p <= p + q /\ r <= p + q
    OBVIOUS
  <2>4. n \in Nat /\ Len(o.rbuf) <= n /\ e <= n
    BY <2>1, <2>2, <2>3
  <2> QED BY <2>1, <2>2, <2>4, Zenon
<1>4. \A x \in Ids : outcome'[x] = IF x = id THEN result ELSE outcome[x]
  <2>1. DOMAIN outcome = Ids
    BY <1>0 DEF Types, HistoryTypes, Ids
  <2> QED BY <1>1, <2>1
<1>5. \A x \in Ids : outcome[x] # "none" => outcome'[x] # "none"
  BY <1>1, <1>4
<1>6. \A u \in Threads : \A i \in DOMAIN call[u] : call[u][i] \in Ids
  BY <1>0, CallTypes
<1>7. /\ n - e \in Nat
      /\ \/ /\ Len(Stream(c)') = n - e
            /\ \A a \in 1 .. n - e : Stream(c)'[a] = s[e + a]
         \/ Len(Stream(c)') = 0 /\ Broken(c)'
  <2>1. n - e \in Nat
    BY <1>3
  <2>2. CASE k.server = "open" /\ k.to = o.to /\ k.rbuf = SubSeq(o.rbuf, e + 1, Len(o.rbuf))
    <3>1. /\ k.rbuf \in Seq(UnitType) /\ Len(k.rbuf) = Len(o.rbuf) - e
          /\ \A i \in 1 .. Len(o.rbuf) - e : k.rbuf[i] = o.rbuf[e + i]
      <4>1. \A a \in e + 1 .. Len(o.rbuf) : o.rbuf[a] \in UnitType
        BY <1>3, ElementOfSeq
      <4>2. /\ k.rbuf \in Seq(UnitType)
            /\ Len(k.rbuf) = IF e + 1 <= Len(o.rbuf) THEN Len(o.rbuf) - (e + 1) + 1 ELSE 0
            /\ \A i \in 1 .. Len(o.rbuf) - (e + 1) + 1 : k.rbuf[i] = o.rbuf[e + 1 + i - 1]
        BY <1>3, <2>2, <4>1, SubSeqProperties
      <4>3. \A i \in 1 .. Len(o.rbuf) - e : e + 1 + i - 1 = e + i /\ i \in 1 .. Len(o.rbuf) - (e + 1) + 1
        BY <1>3
      <4>4. e <= Len(o.rbuf)
        OBVIOUS
      <4> QED BY <1>3, <4>2, <4>3, <4>4
    <3>2. /\ Len(k.rbuf \o o.to) = n - e /\ \A i \in 1 .. n - e : (k.rbuf \o o.to)[i] = s[e + i]
      BY <1>0, <3>1, RestOfStream, Zenon
    <3> QED BY <1>2, <2>1, <2>2, <3>2
  <2>3. CASE k.server = "closed" /\ k.rbuf = <<>> /\ k.to = <<>>
    <3>1. Len(Stream(c)') = 0
      BY <1>2, <2>3, ConcatEmptySeq, EmptySeq
    <3>2. Broken(c)'
      BY <1>2, <2>3 DEF Broken
    <3> QED BY <2>1, <3>1, <3>2
  <2> QED BY <1>1, <2>2, <2>3
<1>8. \A d \in Conns \ {c} : Stream(d)' = Stream(d) /\ (Broken(d)' <=> Broken(d))
  BY <1>2 DEF Stream, Broken
<1>9. \A a \in 1 .. e : s[a].id = id
  BY <1>1
<1> HIDE DEF id, o, n, s
<1>10. InTurn'
  <2> SUFFICES ASSUME NEW d \in Conns, NEW u \in Threads, NEW i \in DOMAIN call[u],
                      NEW j \in DOMAIN call[u], i < j, NEW b \in 1 .. Len(Stream(d)'),
                      Stream(d)'[b].id = call[u][j]
               PROVE  outcome'[call[u][i]] # "none"
                      \/ \E a \in 1 .. b - 1 : Stream(d)'[a].id = call[u][i]
    BY <1>0 DEF InTurn, Conns
  <2>1. CASE d # c
    BY <1>5, <1>6, <1>8, <2>1 DEF OrderInv, InTurn
  <2>2. CASE d = c
    <3>1. /\ Len(Stream(c)') = n - e /\ b \in 1 .. n - e
          /\ \A a \in 1 .. n - e : Stream(c)'[a] = s[e + a]
      BY <1>7, <2>2
    <3>2. e + b \in 1 .. n /\ s[e + b].id = call[u][j]
      BY <1>3, <2>2, <3>1
    <3>3. outcome[call[u][i]] # "none" \/ \E a \in 1 .. e + b - 1 : s[a].id = call[u][i]
      BY <3>2 DEF OrderInv, InTurn, s, n
    <3>4. ASSUME NEW a \in 1 .. e + b - 1, s[a].id = call[u][i]
          PROVE  outcome'[call[u][i]] # "none" \/ \E x \in 1 .. b - 1 : Stream(c)'[x].id = call[u][i]
      <4>1. CASE a \in 1 .. e
        BY <1>1, <1>4, <1>6, <1>9, <3>4, <4>1
      <4>2. CASE ~ (a \in 1 .. e)
        <5>1. a - e \in 1 .. b - 1 /\ a - e \in 1 .. n - e /\ e + (a - e) = a
          BY <1>3, <3>1, <4>2
        <5> QED BY <3>1, <3>4, <5>1
      <4> QED BY <4>1, <4>2
    <3> QED BY <1>5, <1>6, <2>2, <3>3, <3>4
  <2> QED BY <2>1, <2>2
<1>11. SentSoFar'
  <2> SUFFICES ASSUME NEW u \in Threads, pc[u] = "write", ~ Broken(sd)', NEW i \in DOMAIN call[u],
                      i < unsent[u].cmd
               PROVE  outcome'[call[u][i]] # "none" \/ Has(sd, call[u][i])'
    BY <1>0 DEF SentSoFar
  <2>1. sd \in Conns
    BY Holder DEF StreamInv
  <2>2. CASE sd # c
    <3>1. Has(sd, call[u][i])' <=> Has(sd, call[u][i])
      BY <1>0, <1>8, <2>1, <2>2 DEF Has
    <3>2. ~ Broken(sd)
      BY <1>0, <1>8, <2>1, <2>2 DEF Broken
    <3> QED BY <1>5, <1>6, <3>1, <3>2 DEF OrderInv, SentSoFar
  <2>3. CASE sd = c
    <3>1. ~ Broken(c)' /\ ~ Broken(c)
      <4>1. /\ Broken(sd)' <=> (conn'[sd].lost \/ conn'[sd].server = "closed")
            /\ Broken(c)' <=> (conn'[c].lost \/ conn'[c].server = "closed")
        BY <1>0 DEF Broken
      <4>2. ~ Broken(c)' /\ ~ conn'[c].lost
        BY <2>3, <4>1
      <4>3. ~ conn[c].lost /\ conn[c].server = "open"
        BY <1>0, <1>1, <1>2, <4>2 DEF o
      <4> QED BY <4>2, <4>3 DEF Broken
    <3>2. /\ Len(Stream(c)') = n - e /\ \A a \in 1 .. n - e : Stream(c)'[a] = s[e + a]
      BY <1>7, <3>1
    <3>3. outcome[call[u][i]] # "none" \/ Has(c, call[u][i])
      BY <2>3, <3>1 DEF OrderInv, SentSoFar
    <3>4. ASSUME NEW a \in 1 .. n, s[a].id = call[u][i]
          PROVE  outcome'[call[u][i]] # "none" \/ Has(c, call[u][i])'
      <4>1. CASE a \in 1 .. e
        BY <1>1, <1>4, <1>6, <1>9, <3>4, <4>1
      <4>2. CASE ~ (a \in 1 .. e)
        <5>1. a - e \in 1 .. n - e /\ e + (a - e) = a
          BY <1>3, <4>2
        <5>2. a - e \in 1 .. Len(Stream(c)') /\ Stream(c)'[a - e].id = call[u][i]
          BY <3>2, <3>4, <5>1
        <5> QED BY <1>0, <5>2 DEF Has
      <4> QED BY <4>1, <4>2, Zenon
    <3>5. Has(c, call[u][i]) => \E a \in 1 .. n : s[a].id = call[u][i]
      BY DEF Has, n, s
    <3>6. outcome'[call[u][i]] # "none" \/ Has(c, call[u][i])'
      BY <1>5, <1>6, <3>3, <3>4, <3>5
    <3>7. Has(sd, call[u][i])' <=> Has(c, call[u][i])'
      BY <1>0, <2>3 DEF Has
    <3> QED BY <3>6, <3>7
  <2> QED BY <2>2, <2>3
<1>12. Beginning'
  <2> SUFFICES ASSUME NEW u \in Threads, NEW i \in DOMAIN call[u], NEW j \in DOMAIN call[u],
                      i < j, outcome'[call[u][j]] # "none"
               PROVE  outcome'[call[u][i]] # "none"
    BY <1>0 DEF Beginning
  <2>1. CASE call[u][j] = id
    <3>1. 1 \in 1 .. n /\ s[1].id = call[u][j]
      BY <1>3, <1>9, <2>1
    <3>2. outcome[call[u][i]] # "none"
      <4>1. outcome[call[u][i]] # "none" \/ \E a \in 1 .. 1 - 1 : s[a].id = call[u][i]
        BY <3>1 DEF OrderInv, InTurn, s, n
      <4> QED BY <4>1
    <3> QED BY <1>5, <1>6, <3>2
  <2>2. CASE call[u][j] # id
    BY <1>4, <1>5, <1>6, <2>2 DEF OrderInv, Beginning
  <2> QED BY <2>1, <2>2
<1> QED BY <1>10, <1>11, <1>12 DEF OrderInv

LEMMA InitOrder == Init => OrderInv
  BY DEF Init, OrderInv, InTurn, SentSoFar, Beginning

LEMMA OrderSteps == StreamInv /\ OrderInv /\ [Next]_vars => OrderInv'
<1> SUFFICES ASSUME StreamInv, OrderInv, [Next]_vars PROVE OrderInv'
  OBVIOUS
<1>0. StreamInv'
  BY StreamSteps
<1>1. ASSUME NEW t \in Threads, NEW shape \in Calls[t], NewCall(t, shape) PROVE OrderInv'
  <2> DEFINE cmds == [k \in 1 .. Len(shape) |-> [kind |-> shape[k], stamp |-> Len(commands) + k]]
  <2>1. cmds \in Seq([kind : Kinds, stamp : Nat])
    BY NewCallCommands DEF StreamInv
  <2>2. pc[t] \in {"idle", "done", "failed"} /\ Begin(t, cmds)
    BY <1>1 DEF NewCall
  <2> HIDE DEF cmds
  <2> QED BY <1>0, <2>1, <2>2, BeginOrder, Zenon
<1>2. ASSUME NEW t \in Threads, Retry(t) PROVE OrderInv'
  <2> DEFINE cmds == [k \in 1 .. Len(call[t]) |-> commands[call[t][k]]]
  <2>1. cmds \in Seq([kind : Kinds, stamp : Nat])
    BY <1>2, RetryCommands DEF StreamInv
  <2>2. pc[t] \in {"idle", "done", "failed"} /\ Begin(t, cmds)
    BY <1>2 DEF Retry
  <2> HIDE DEF cmds
  <2> QED BY <1>0, <2>1, <2>2, BeginOrder, Zenon
<1>3. ASSUME NEW t \in Threads, Disconnect(t) \/ Client(t) PROVE OrderInv'
  BY <1>0, <1>3, ReaderOrder, RequestOrder, WriteOrder DEF Client
<1>4. ASSUME NEW c \in Conns, Server(c) \/ Lose(c) PROVE OrderInv'
  <2>1. CASE ServerCommand(c)
    BY <1>0, <2>1, CommandOrder
  <2>2. CASE ~ ServerCommand(c)
    <3>1. \A d \in Conns : Shrinks(d)
      BY <1>4, <2>2, ServerReadStep, ServerCloseStep, ServerWriteStep, ServerWriteFailsStep, LoseStep
         DEF Server
    <3>2. UNCHANGED <<clientVars, commands, outcome>>
      BY <1>4, <2>2, Zenon DEF Server, ServerRead, ServerClose, ServerWrite, ServerWriteFails, Lose,
                               daemonOnly
    <3> QED BY <1>0, <3>1, <3>2, WaitingOrder
  <2> QED BY <2>1, <2>2
<1>5. CASE Forget \/ Stop
  BY <1>0, <1>5, StopStep, WaitingOrder DEF Forget, Stop
<1>6. CASE UNCHANGED vars
  <2>1. \A c \in Conns : Shrinks(c)
    BY <1>6, SameShrinks DEF StreamInv, vars
  <2> QED BY <1>0, <1>6, <2>1, WaitingOrder DEF vars
<1> QED BY <1>1, <1>2, <1>3, <1>4, <1>5, <1>6 DEF Next

LEMMA OrderOfDone ==
    ASSUME Types, Beginning, Reading
    PROVE  CallsAreHandledInOrder
<1> SUFFICES ASSUME NEW t \in Threads, pc[t] = "done", NEW j \in Answered(call[t])
             PROVE  outcome[call[t][j]] # "none"
  BY DEF Beginning, CallsAreHandledInOrder
<1>1. RightAnswer(KindsOf(t), OutcomesOf(t), call[t], j, answers[t][Rank(call[t], j)])
  BY AnswerOfDone
<1>2. j \in DOMAIN call[t] /\ DOMAIN call[t] = 1 .. Len(call[t]) /\ Len(call[t]) \in Nat
  BY CallTypes DEF Answered
<1>3. OutcomesOf(t)[j] # "none"
  BY <1>1, <1>2 DEF RightAnswer, Settled
<1> QED BY <1>2, <1>3 DEF OutcomesOf

(* What the daemon does of a call is a beginning of it, without a gap,     *)
(* wherever the call fails; and of a call that ends it has done everything *)
(* up to the last answer, with the commands of batches, which are not      *)
(* answered (next_cmd, request, send_response).                            *)
THEOREM CommandsInOrder == Spec => []CallsAreHandledInOrder
<1>1. StreamInv /\ AnswerInv /\ OrderInv => CallsAreHandledInOrder
  BY OrderOfDone DEF StreamInv, AnswerInv, OrderInv
<1> QED BY <1>1, InitAnswers, AnswerSteps, InitOrder, OrderSteps, StreamsAreRight, PTL DEF Spec
=============================================================================
