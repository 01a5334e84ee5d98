------------------------- MODULE ConfigReloadProofs -------------------------
(***************************************************************************)
(* Proofs about the configuration and its reload: the variables keep their *)
(* types, Tor and the state disk only get lines that passed the validators *)
(* of torrc.go (Tor, in a hot reload, their words), and Engine.Config      *)
(* names what Tor has been given.  They hold for every set of files, of    *)
(* bridge lines, however these are split, and of relays, and for any       *)
(* number of edits.                                                        *)
(***************************************************************************)
EXTENDS ConfigReload, SequenceTheorems, WellFoundedInduction, TLAPS

-----------------------------------------------------------------------------
(* The operators of Config *)

\* A non-empty set of indices of a sequence has a largest element.
LEMMA LastIndex ==
    ASSUME NEW n \in Nat, NEW T, T \subseteq 1..n, T # {}
    PROVE  \E i \in T : \A j \in T : j <= i
<1> DEFINE M == {n - i : i \in T}
<1>1. M \subseteq Nat /\ M # {}
  <2>1. \A i \in T : i \in 1..n /\ n - i \in Nat
    OBVIOUS
  <2>2. M \subseteq Nat
    BY <2>1
  <2>3. PICK i \in T : TRUE
    OBVIOUS
  <2>4. n - i \in M
    BY <2>3
  <2> QED BY <2>2, <2>4
<1>2. PICK m \in M : \A k \in M : <<k, m>> \notin OpToRel(<, Nat)
  BY <1>1, WFMin, NatLessThanWellFounded
<1>3. \A k \in M : m <= k
  <2> SUFFICES ASSUME NEW k \in M, k < m PROVE FALSE
    BY <1>1
  <2>1. k \in Nat /\ m \in Nat
    BY <1>1
  <2>2. <<k, m>> \in OpToRel(<, Nat)
    BY <2>1 DEF OpToRel
  <2> QED BY <1>2, <2>2
<1>4. PICK i \in T : m = n - i
  OBVIOUS
<1>5. ASSUME NEW j \in T PROVE j <= i
  <2>1. n - j \in M
    OBVIOUS
  <2>2. n - i <= n - j /\ i \in 1..n /\ j \in 1..n
    BY <1>3, <1>4, <2>1
  <2> QED BY <2>2
<1> QED BY <1>5

\* The lines that TorrcOverlay can make of a Config.
OverlayLines(c) ==
    {Line("UseBridges", "1"), Line("ClientTransportPlugin", c.bridge.transport),
     Line(ProxyOption(c.proxy.type), c.proxy.address),
     Line("ExcludeNodes", c.relays.exclude), Line("ExcludeExitNodes", c.relays.exit),
     Line("StrictNodes", "1"), Line("HiddenServicePort", "fhe_index")}
    \cup {Line("Bridge", c.bridge.lines[i]) : i \in DOMAIN c.bridge.lines}

ValidLines(c) == {l \in OverlayLines(c) : LineValid(l)}

\* A line that is there under a condition, as a sequence of at most one.
LEMMA LineIfSeq ==
    ASSUME NEW S, NEW cond, NEW o, NEW v, cond => Line(o, v) \in S
    PROVE  LineIf(cond, o, v) \in Seq(S)
  BY DEF LineIf

\* An overlay that passed the validators has no ill-formed line.
LEMMA OverlayValid ==
    ASSUME NEW c \in ConfigType, OverlayOK(c)
    PROVE  TorrcOverlay(c) \in Seq(ValidLines(c))
<1> DEFINE V == ValidLines(c)
           b == c.bridge
           plugin == LineIf(b.transport \notin {"", "none"}, "ClientTransportPlugin", b.transport)
           bridgeLines == [i \in DOMAIN b.lines |-> Line("Bridge", b.lines[i])]
           bridges == LineIf(TRUE, "UseBridges", "1") \o plugin \o bridgeLines
           proxy == LineIf(UsesProxy(c) /\ Lower(c.proxy.type) \in {"http", "https", "socks5"},
                           ProxyOption(c.proxy.type), c.proxy.address)
           exclude == LineIf(c.relays.exclude # {}, "ExcludeNodes", c.relays.exclude)
           exit == LineIf(c.relays.exit # {}, "ExcludeExitNodes", c.relays.exit)
           strict == LineIf(c.relays.strict, "StrictNodes", "1")
           service == LineIf(c.fhe.enabled /\ c.fhe.share, "HiddenServicePort", "fhe_index")
<1>1. b.use => bridges \in Seq(V)
  <2> SUFFICES ASSUME b.use PROVE bridges \in Seq(V)
    OBVIOUS
  <2>1. LineIf(TRUE, "UseBridges", "1") \in Seq(V)
    <3>1. Line("UseBridges", "1") \in V
      BY DEF ValidLines, OverlayLines, LineValid, Line
    <3> QED BY <3>1, LineIfSeq
  <2>2. plugin \in Seq(V)
    <3>1. b.transport \in Transports
      BY DEF OverlayOK
    <3>2. Line("ClientTransportPlugin", b.transport) \in V
      BY <3>1 DEF ValidLines, OverlayLines, LineValid, Line
    <3> QED BY <3>2, LineIfSeq
  <2>3. bridgeLines \in Seq(V)
    <3>1. b.lines \in Seq(BridgeLines \cup {Bad}) /\ \A i \in DOMAIN b.lines : b.lines[i] # Bad
      BY DEF ConfigType, BridgeType, OverlayOK
    <3>2. \A i \in DOMAIN b.lines : Line("Bridge", b.lines[i]) \in V
      BY <3>1 DEF ValidLines, OverlayLines, LineValid, Line
    <3>3. DOMAIN b.lines = 1..Len(b.lines) /\ Len(b.lines) \in Nat
      BY <3>1
    <3> HIDE DEF V
    <3> QED BY <3>2, <3>3
  <2> HIDE DEF V, plugin, bridgeLines
  <2> QED BY <2>1, <2>2, <2>3, ConcatProperties
<1>2. proxy \in Seq(V)
  <2>1. ASSUME UsesProxy(c) PROVE Line(ProxyOption(c.proxy.type), c.proxy.address) \in V
    <3>1. c.proxy.address \in ProxyAddresses
      BY <2>1 DEF OverlayOK, ConfigType, ProxyType
    <3>2. ProxyOption(c.proxy.type) \in {"HTTPProxy", "HTTPSProxy", "Socks5Proxy"}
      BY DEF ProxyOption
    <3> QED BY <3>1, <3>2 DEF ValidLines, OverlayLines, LineValid, Line, Proxies
  <2> QED BY <2>1, LineIfSeq
<1>3. exclude \in Seq(V) /\ exit \in Seq(V)
  <2>1. c.relays.exclude \subseteq Relays /\ c.relays.exit \subseteq Relays
    BY DEF OverlayOK, RelaysValid, ConfigType, RelaysType
  <2>2. Line("ExcludeNodes", c.relays.exclude) \in V /\ Line("ExcludeExitNodes", c.relays.exit) \in V
    BY <2>1 DEF ValidLines, OverlayLines, LineValid, Line
  <2> QED BY <2>2, LineIfSeq
<1>4. strict \in Seq(V) /\ service \in Seq(V)
  <2>1. Line("StrictNodes", "1") \in V /\ Line("HiddenServicePort", "fhe_index") \in V
    BY DEF ValidLines, OverlayLines, LineValid, Line
  <2> QED BY <2>1, LineIfSeq
<1>5. TorrcOverlay(c) = (IF b.use THEN bridges ELSE <<>>) \o proxy \o exclude \o exit \o strict \o service
  BY DEF TorrcOverlay
<1> HIDE DEF V, bridges, proxy, exclude, exit, strict, service
<1>6. (IF b.use THEN bridges ELSE <<>>) \in Seq(V)
  BY <1>1
<1> QED BY <1>2, <1>3, <1>4, <1>5, <1>6, ConcatProperties DEF V

\* Each directive is the last line of its option, so it is one of the lines.
LEMMA DirectiveIsLine ==
    ASSUME NEW S, NEW lines \in Seq(S), NEW o \in DOMAIN parseTorrcOverlay(lines)
    PROVE  \E i \in DOMAIN lines : lines[i][1] = o /\ lines[i][2] = parseTorrcOverlay(lines)[o]
<1> DEFINE T == {i \in DOMAIN lines : lines[i][1] = o}
           i0 == CHOOSE i \in DOMAIN lines : /\ lines[i][1] = o
                                             /\ \A j \in DOMAIN lines : j > i => lines[j][1] # o
<1>1. o \in {lines[i][1] : i \in DOMAIN lines}
  BY DEF parseTorrcOverlay
<1>2. DOMAIN lines = 1..Len(lines) /\ Len(lines) \in Nat
  OBVIOUS
<1>3. PICK i \in T : \A j \in T : j <= i
  BY <1>1, <1>2, LastIndex
<1>4. \A j \in DOMAIN lines : j > i => lines[j][1] # o
  BY <1>2, <1>3
<1>5. i0 \in DOMAIN lines /\ lines[i0][1] = o
  BY <1>3, <1>4
<1>6. parseTorrcOverlay(lines)[o] = lines[i0][2]
  BY <1>1 DEF parseTorrcOverlay
<1> QED BY <1>5, <1>6

\* A line that may be among Tor's: it was in an overlay, or is a word of a bridge
\* line.
TorLine(l) == LineValid(l) \/ \E b \in BridgeLines : l \in Rest[b]

\* Splitting a line at its spaces gives lines of that kind, and words that Tor
\* does not recognize.
LEMMA WordsOfLine ==
    ASSUME NEW l, LineValid(l), l = Line(l[1], l[2])
    PROVE  \A w \in Words(l) : w = Unrecognized \/ TorLine(w)
<1>1. CASE l[1] = "Bridge"
  <2>1. l[2] \in BridgeLines
    BY <1>1 DEF LineValid, Proxies
  <2>2. First[l[2]] \in BridgeLines
    BY <2>1, TextAssumption
  <2>3. LineValid(Line("Bridge", First[l[2]]))
    BY <2>2 DEF LineValid, Line
  <2>4. Words(l) = {Line("Bridge", First[l[2]])} \cup Rest[l[2]]
    BY <1>1 DEF Words
  <2> QED BY <2>1, <2>3, <2>4 DEF TorLine
<1>2. CASE l[1] # "Bridge"
  <2>1. Words(l) \subseteq {l, Unrecognized}
    BY <1>2 DEF Words
  <2> QED BY <2>1 DEF TorLine
<1> QED BY <1>1, <1>2

\* What SETCONF leads to: the words that were sent, and lines that were there.
LEMMA SetConfResult ==
    ASSUME NEW conf, NEW d, NEW res \in SetConf(conf, d)
    PROVE  Accepted(d) /\ Sent(d) \subseteq res /\ \A l \in res : l \in conf \/ l \in Sent(d)
<1>1. Accepted(d)
  BY DEF SetConf
<1>2. res = {l \in conf : \A w \in Sent(d) : w[1] # l[1]} \cup Sent(d)
  BY <1>1 DEF SetConf
<1> QED BY <1>1, <1>2

\* SETCONF with the directives of a valid overlay gives Tor validated lines and
\* words of bridge lines only.
LEMMA SetConfValid ==
    ASSUME NEW c \in ConfigType, OverlayOK(c), NEW conf, \A l \in conf : TorLine(l),
           NEW res \in SetConf(conf, Directives(c))
    PROVE  \A l \in res : TorLine(l)
<1>1. ASSUME NEW o \in DOMAIN Directives(c)
      PROVE  \A w \in Words(Line(o, Directives(c)[o])) : w = Unrecognized \/ TorLine(w)
  <2>1. PICK i \in DOMAIN TorrcOverlay(c) :
          TorrcOverlay(c)[i][1] = o /\ TorrcOverlay(c)[i][2] = Directives(c)[o]
    BY OverlayValid, DirectiveIsLine DEF Directives
  <2>2. TorrcOverlay(c)[i] \in ValidLines(c)
    BY <2>1, OverlayValid
  <2>3. LineValid(TorrcOverlay(c)[i])
    BY <2>2 DEF ValidLines
  <2> DEFINE l == Line(o, Directives(c)[o])
  <2>4. l[1] = o /\ l[2] = Directives(c)[o]
    BY DEF Line
  <2>5. LineValid(l)
    BY <2>1, <2>3, <2>4 DEF LineValid
  <2>6. l = Line(l[1], l[2])
    BY <2>4
  <2> HIDE DEF l
  <2>7. \A w \in Words(l) : w = Unrecognized \/ TorLine(w)
    BY <2>5, <2>6, WordsOfLine
  <2> QED BY <2>7 DEF l
<1>2. \A w \in Sent(Directives(c)) : TorLine(w)
  <2>1. Unrecognized \notin Sent(Directives(c))
    BY SetConfResult DEF Accepted
  <2> QED BY <1>1, <2>1 DEF Sent
<1> QED BY <1>2, SetConfResult
-----------------------------------------------------------------------------
(* Type correctness *)

\* A Config that is saved and loaded again is one, with the current version.
LEMMA SavedTyped == ASSUME NEW c \in ConfigType PROVE Typed(File("json", c))
<1> DEFINE m == Merged(File("json", c))
<1>1. DOMAIN c = Fields /\ DOMAIN DefaultConfig = Fields
  BY DEF ConfigType, DefaultConfig, Fields
<1>2. DOMAIN migrateJSON(c) = Fields
      /\ \A k \in Fields \ {"version"} : migrateJSON(c)[k] = c[k]
  <2>1. CASE c.version >= 1
    BY <1>1, <2>1 DEF migrateJSON, Fields
  <2>2. CASE ~(c.version >= 1)
    <3>1. migrateJSON(c) = With(c, [version |-> 1])
      BY <1>1, <2>2 DEF migrateJSON
    <3> QED BY <1>1, <3>1 DEF With, Fields
  <2> QED BY <2>1, <2>2
<1>3. m = With(With(DefaultConfig, migrateJSON(c)), [version |-> 1])
  BY DEF Merged, File
<1>4. /\ DOMAIN With(DefaultConfig, migrateJSON(c)) = Fields
      /\ \A k \in Fields \ {"version"} : With(DefaultConfig, migrateJSON(c))[k] = c[k]
  BY <1>1, <1>2 DEF With
<1>5. m = [k \in Fields |-> IF k = "version" THEN 1 ELSE c[k]]
  BY <1>3, <1>4 DEF With, Fields
<1>6. m = [version |-> 1, mem |-> c.mem, verbose |-> c.verbose, other |-> c.other,
           bridge |-> c.bridge, proxy |-> c.proxy, relays |-> c.relays, fhe |-> c.fhe,
           vector |-> c.vector]
  BY <1>5 DEF Fields
<1>7. m \in ConfigType
  BY <1>6 DEF ConfigType
<1> QED BY <1>7 DEF Typed, File

\* Without a file the defaults are loaded; a file that is half written is not.
LEMMA NoFileTyped == Typed(Absent) /\ Typed(Garbage) /\ DefaultConfig \in ConfigType
<1>1. DefaultConfig \in ConfigType
  BY DEF DefaultConfig, ConfigType, BridgeType, ProxyType, RelaysType, FheType,
         VectorType, ProxyTypes, ProxyAddresses, Transports
<1>2. Typed(Absent)
  BY <1>1 DEF Typed, Absent, File, Merged
<1>3. Typed(Garbage)
  BY DEF Typed, Garbage, File, Loads
<1> QED BY <1>1, <1>2, <1>3

\* TypeOK is not inductive: a file that is still to be written must give a
\* Config too, each write leaves room for its two events, and a call of
\* ReloadConfig that is under way has an argument.
TypeInv ==
    /\ TypeOK
    /\ Typed(file)
    /\ writing = <<>> \/ \E f : writing = <<f>> /\ Typed(f)
    /\ events + Len(writing) <= 2 * edits
    /\ \A p \in Callers : pc[p] # "idle" => new[p] \in ConfigType

\* Steps that leave the files, the watch and the edits alone keep TypeInv if
\* they keep the types of what they change.
LEMMA FilesQuiet ==
    ASSUME TypeInv, UNCHANGED <<mode, keeps, file, writing, edits, crashed>>,
           watched' \in BOOLEAN, events' \in Nat, events' <= events,
           timer' \in {"nil", "armed", "fired"}, loop' \in {"select", "reload", "exited"},
           main' \in {"run", "closing", "ended"}, cfg' \in ConfigType,
           loaded' \in ConfigType \cup {NoConfig}, logVerbose' \in BOOLEAN,
           engine' \in {"starting", "booting", "running", "shutdown", "ended"},
           control' \in BOOLEAN,
           pc' \in [Callers -> {"idle", "decide", "setconf", "signal", "store", "storeEarly"}],
           new' \in [Callers -> ConfigType \cup {NoConfig}],
           \A p \in Callers : pc'[p] # "idle" => new'[p] \in ConfigType,
           early' \in BOOLEAN, failed' \in BOOLEAN
    PROVE  TypeInv'
<1>1. events \in 0..2 * MaxEdits /\ edits \in 0..MaxEdits /\ Len(writing) \in Nat
  BY DEF TypeInv, TypeOK
<1>2. events' \in 0..2 * MaxEdits /\ events' + Len(writing') <= 2 * edits'
  BY <1>1, ReloadAssumption DEF TypeInv
<1> QED BY <1>2 DEF TypeInv, TypeOK

\* A write adds at most two events, one now and one when it ends.
LEMMA WriteRoom ==
    ASSUME NEW e \in Nat, NEW d \in Nat, e <= 2 * d, NEW x \in Nat, x <= e + 1
    PROVE  x + 1 <= 2 * (d + 1) /\ x + 0 <= 2 * (d + 1)
  OBVIOUS

\* Room for the events e of d writes, of which w events are still to come.
LEMMA EventRoom ==
    ASSUME NEW e \in Nat, NEW d \in 0..MaxEdits, NEW w \in Nat, e + w <= 2 * d
    PROVE  e \in 0..2 * MaxEdits
<1>1. MaxEdits \in Nat
  BY ReloadAssumption
<1> QED BY <1>1

\* The second event of a write fits into the bound on events.
LEMMA EndRoom ==
    ASSUME NEW e \in Nat, NEW d \in 0..MaxEdits, e + 1 <= 2 * d, NEW x \in Nat, x <= e + 1
    PROVE  x + 0 <= 2 * d /\ x \in 0..2 * MaxEdits
<1>1. MaxEdits \in Nat
  BY ReloadAssumption
<1> QED BY <1>1

\* A write of the file, by whoever: two steps, with an event each.
LEMMA BeginWriteType == ASSUME TypeInv, NEW f, Typed(f), BeginWrite(f) PROVE TypeInv'
<1>1. /\ writing = <<>> /\ edits < MaxEdits /\ file' = Garbage /\ writing' = <<f>>
      /\ edits' = edits + 1 /\ events' \in {events, events + 1}
  BY DEF BeginWrite, Notified
<1>2. Len(writing) = 0 /\ Len(writing') = 1
  BY <1>1
<1>3. events \in Nat /\ edits \in Nat /\ events <= 2 * edits
  BY <1>2 DEF TypeInv, TypeOK
<1>4. edits' \in 0..MaxEdits /\ events' + Len(writing') <= 2 * edits' /\ events' \in 0..2 * MaxEdits
  <2>1. MaxEdits \in Nat
    BY ReloadAssumption
  <2>2. edits' \in 0..MaxEdits
    BY <1>1, <1>3, <2>1
  <2>3. events' \in Nat /\ events' <= events + 1 /\ edits' = edits + 1
    BY <1>1, <1>3
  <2>4. events' + Len(writing') <= 2 * edits'
    BY <1>2, <1>3, <2>3, WriteRoom
  <2> QED BY <1>2, <2>2, <2>3, <2>4, EventRoom
<1>5. Typed(Garbage)
  BY NoFileTyped
<1>6. UNCHANGED <<mode, keeps, watched, watchVars, engineVars, reloadVars>>
  BY DEF BeginWrite
<1>7. file'.kind \in {"absent", "garbage", "insecure", "json"} /\ Typed(file')
  BY <1>1, <1>5 DEF Typed
<1>8. TypeOK'
  BY <1>2, <1>4, <1>6, <1>7 DEF TypeInv, TypeOK, watchVars, engineVars, reloadVars
<1> QED BY <1>1, <1>4, <1>6, <1>7, <1>8 DEF TypeInv, reloadVars

\* The end of a write keeps the types.
LEMMA EndWriteType == ASSUME TypeInv, EndWrite PROVE TypeInv'
<1>1. /\ writing # <<>> /\ file' = writing[1] /\ writing' = <<>>
      /\ edits' = edits /\ events' \in {events, events + 1}
  BY DEF EndWrite, Notified
<1>2. PICK f : writing = <<f>> /\ Typed(f)
  BY <1>1 DEF TypeInv
<1>3. Len(writing) = 1 /\ Len(writing') = 0 /\ file' = f
  BY <1>1, <1>2
<1>4. events \in Nat /\ edits \in 0..MaxEdits /\ events + 1 <= 2 * edits
  BY <1>3 DEF TypeInv, TypeOK
<1>5. events' + Len(writing') <= 2 * edits' /\ events' \in 0..2 * MaxEdits
  <2>1. events' \in Nat /\ events' <= events + 1 /\ edits' = edits
    BY <1>1, <1>4
  <2>2. events' + 0 <= 2 * edits /\ events' \in 0..2 * MaxEdits
    BY <1>4, <2>1, EndRoom
  <2> QED BY <1>3, <2>1, <2>2
<1>6. UNCHANGED <<mode, keeps, watched, watchVars, engineVars, reloadVars>>
  BY DEF EndWrite
<1>7. file'.kind \in {"absent", "garbage", "insecure", "json"} /\ Typed(file')
  BY <1>2, <1>3 DEF Typed
<1>8. TypeOK'
  BY <1>1, <1>3, <1>5, <1>6, <1>7 DEF TypeInv, TypeOK, watchVars, engineVars, reloadVars
<1> QED BY <1>1, <1>5, <1>6, <1>7, <1>8 DEF TypeInv, reloadVars

\* An editor that renames a new file over the old one keeps the types.
LEMMA RenameType == ASSUME TypeInv, EditorRenames PROVE TypeInv'
<1>1. /\ writing = <<>> /\ edits < MaxEdits /\ file' \in Contents /\ writing' = <<>>
      /\ edits' = edits + 1 /\ events' \in {events, events + 1} /\ watched' = FALSE
  BY DEF EditorRenames, Notified
<1>2. Len(writing) = 0 /\ Len(writing') = 0
  BY <1>1
<1>3. events \in Nat /\ edits \in Nat /\ events <= 2 * edits
  BY <1>2 DEF TypeInv, TypeOK
<1>4. edits' \in 0..MaxEdits /\ events' + Len(writing') <= 2 * edits' /\ events' \in 0..2 * MaxEdits
  <2>1. MaxEdits \in Nat
    BY ReloadAssumption
  <2>2. edits' \in 0..MaxEdits
    BY <1>1, <1>3, <2>1
  <2>3. events' \in Nat /\ events' <= events + 1 /\ edits' = edits + 1
    BY <1>1, <1>3
  <2>4. events' + Len(writing') <= 2 * edits'
    BY <1>2, <1>3, <2>3, WriteRoom
  <2> QED BY <1>2, <2>2, <2>3, <2>4, EventRoom
<1>5. Typed(file')
  BY <1>1, ReloadAssumption
<1>6. UNCHANGED <<mode, keeps, watchVars, engineVars, reloadVars>>
  BY DEF EditorRenames
<1>7. file'.kind \in {"absent", "garbage", "insecure", "json"} /\ watched' \in BOOLEAN
  BY <1>1, <1>5 DEF Typed
<1>8. TypeOK'
  BY <1>2, <1>4, <1>6, <1>7 DEF TypeInv, TypeOK, watchVars, engineVars, reloadVars
<1> QED BY <1>1, <1>4, <1>5, <1>6, <1>8 DEF TypeInv, reloadVars

\* The watcher's goroutine and main's Close.
LEMMA WatcherType == ASSUME TypeInv, WatcherStep \/ CloseBegins \/ CloseWaits PROVE TypeInv'
<1>0. events \in Nat
  BY DEF TypeInv, TypeOK
<1>1. CASE ReadEvent
  BY <1>0, <1>1, FilesQuiet DEF ReadEvent, TypeInv, TypeOK, engineVars, reloadVars
<1>2. CASE TimerFires
  <2>1. CASE Loads(file) /\ onChange(Merged(file))
    <3>1. Merged(file) \in ConfigType
      BY <2>1 DEF TypeInv, Typed
    <3>2. /\ loop' = "reload" /\ timer' = "fired"
          /\ pc' = [pc EXCEPT !["watcher"] = "decide"]
          /\ new' = [new EXCEPT !["watcher"] = Merged(file)]
      BY <1>2, <2>1 DEF TimerFires
    <3>3. /\ pc' \in [Callers -> {"idle", "decide", "setconf", "signal", "store", "storeEarly"}]
          /\ new' \in [Callers -> ConfigType \cup {NoConfig}]
          /\ \A p \in Callers : pc'[p] # "idle" => new'[p] \in ConfigType
      BY <3>1, <3>2 DEF TypeInv, TypeOK, Callers
    <3> QED BY <1>0, <1>2, <3>2, <3>3, FilesQuiet DEF TimerFires, TypeInv, TypeOK, engineVars, fileVars
  <2>2. CASE ~(Loads(file) /\ onChange(Merged(file)))
    BY <1>0, <1>2, <2>2, FilesQuiet DEF TimerFires, TypeInv, TypeOK, engineVars, fileVars
  <2> QED BY <2>1, <2>2
<1>3. CASE ReloadReturns \/ CloseWaits
  BY <1>0, <1>3, FilesQuiet
     DEF ReloadReturns, CloseWaits, TypeInv, TypeOK, engineVars, reloadVars, fileVars
<1>4. CASE LoopExits
  BY <1>0, <1>4, FilesQuiet DEF LoopExits, TypeInv, TypeOK, engineVars, reloadVars, fileVars
<1>5. CASE CloseBegins
  <2>1. main' \in {"closing", "ended"} /\ events' = 0 /\ watched' = FALSE
    BY <1>5 DEF CloseBegins
  <2>2. watched' \in BOOLEAN /\ main' \in {"run", "closing", "ended"}
    BY <2>1
  <2>3. events' = 0
    BY <2>1
  <2>4. events' \in Nat /\ events' <= events
    BY <1>0, <2>3
  <2>5. UNCHANGED <<mode, keeps, file, writing, timer, loop, engineVars, reloadVars, edits>>
    BY <1>5 DEF CloseBegins
  <2> QED BY <2>2, <2>4, <2>5, FilesQuiet DEF TypeInv, TypeOK, engineVars, reloadVars
<1> QED BY <1>1, <1>2, <1>3, <1>4, <1>5 DEF WatcherStep

\* ReloadConfig, called by the watcher or by the GUI.
PCs == {"idle", "decide", "setconf", "signal", "store", "storeEarly"}

\* What it decides: SETCONF only for a running engine and a valid overlay, and
\* RELOAD at once only for an empty one.
LEMMA ReloadDecides ==
    ASSUME NEW p, ReloadConfig(p)
    PROVE  \E s \in PCs \ {"decide", "store"} :
             /\ pc' = [pc EXCEPT ![p] = s]
             /\ s \in {"setconf", "signal"} => engine = "running" /\ OverlayOK(new[p])
             /\ s = "signal" => TorrcOverlay(new[p]) = <<>>
<1> DEFINE c == new[p]
           push == HotReloadable(EngineConfig, c) # {} /\ control /\ engine = "running"
           changes == Diff(EngineConfig, c) # {}
           s == CASE ~changes -> "idle"
                  [] changes /\ ~push -> "storeEarly"
                  [] push /\ ~OverlayOK(c) -> "idle"
                  [] push /\ OverlayOK(c) /\ TorrcOverlay(c) = <<>> -> "signal"
                  [] OTHER -> "setconf"
<1>0. push => changes
  BY DEF HotReloadable
<1>1. pc' = [pc EXCEPT ![p] = s]
  BY DEF ReloadConfig
<1>2. ~push \/ ~OverlayOK(c) => s \in {"idle", "storeEarly"}
  <2> HIDE DEF changes, push
  <2> QED BY <1>0
<1>3. push /\ OverlayOK(c) => s = IF TorrcOverlay(c) = <<>> THEN "signal" ELSE "setconf"
  <2> HIDE DEF changes, push
  <2> QED BY <1>0
<1> HIDE DEF s
<1>4. /\ s \in PCs \ {"decide", "store"}
      /\ s \in {"setconf", "signal"} => engine = "running" /\ OverlayOK(c)
      /\ s = "signal" => TorrcOverlay(c) = <<>>
  BY <1>2, <1>3 DEF PCs
<1> QED BY <1>1, <1>4

\* A step of ReloadConfig that moves only its caller keeps the types.
LEMMA CallType ==
    ASSUME TypeInv, NEW p \in Callers, pc[p] # "idle", NEW s \in PCs,
           pc' = [pc EXCEPT ![p] = s], new' = new \/ Argument(p), new' = new => s # "idle",
           UNCHANGED <<mode, keeps, fileVars, watchVars, cfg, engine, control, crashed, edits>>,
           loaded' \in ConfigType \cup {NoConfig}, logVerbose' \in BOOLEAN,
           early' \in BOOLEAN, failed' \in BOOLEAN
    PROVE  TypeInv'
<1>1. pc \in [Callers -> PCs] /\ new \in [Callers -> ConfigType \cup {NoConfig}]
  BY DEF TypeInv, TypeOK, PCs
<1>2. pc' \in [Callers -> PCs] /\ pc'[p] = s /\ \A q \in Callers \ {p} : pc'[q] = pc[q]
  BY <1>1
<1>3. new' = new \/ new' = [new EXCEPT ![p] = IF s = "idle" THEN NoConfig ELSE new[p]]
  BY <1>2 DEF Argument
<1>4. new' \in [Callers -> ConfigType \cup {NoConfig}]
  BY <1>1, <1>3
<1>5. \A q \in Callers : pc'[q] # "idle" => new'[q] \in ConfigType
  BY <1>1, <1>2, <1>3 DEF TypeInv
<1>6. events \in Nat /\ events <= events
  BY DEF TypeInv, TypeOK
<1> QED BY <1>2, <1>4, <1>5, <1>6, FilesQuiet DEF TypeInv, TypeOK, PCs, fileVars, watchVars

\* Every step of ReloadConfig, of the watcher or of the GUI, keeps the types.
LEMMA ReloadType == ASSUME TypeInv, NEW p \in Callers, ReloadStep(p) PROVE TypeInv'
<1>0. logVerbose \in BOOLEAN /\ early \in BOOLEAN /\ failed \in BOOLEAN
      /\ loaded \in ConfigType \cup {NoConfig}
  BY DEF TypeInv, TypeOK
<1>1. CASE ReloadConfig(p)
  <2>1. PICK s \in PCs : pc' = [pc EXCEPT ![p] = s]
    BY <1>1, ReloadDecides
  <2>2. /\ pc[p] = "decide" /\ failed' \in BOOLEAN /\ Argument(p)
        /\ UNCHANGED <<mode, keeps, fileVars, watchVars, engineVars, early, crashed, edits>>
    BY <1>1 DEF ReloadConfig
  <2>3. pc'[p] = s
    BY <2>1 DEF TypeInv, TypeOK
  <2>4. new' = new => s # "idle"
    BY <2>2, <2>3, ReloadAssumption DEF Argument, TypeInv, TypeOK
  <2> QED BY <1>0, <2>1, <2>2, <2>4, CallType DEF engineVars
<1>2. CASE NilControl(p)
  <2>1. UNCHANGED <<mode, keeps, fileVars, watchVars, engineVars, pc, new, early, failed, edits>>
        /\ crashed' = TRUE
    BY <1>2 DEF NilControl
  <2> QED BY <2>1 DEF TypeInv, TypeOK, fileVars, watchVars, engineVars
<1>3. CASE DoSetConf(p)
  <2>1. PICK s \in {"signal", "idle"} : pc' = [pc EXCEPT ![p] = s]
    BY <1>3 DEF DoSetConf
  <2>2. /\ pc[p] = "setconf" /\ failed' \in BOOLEAN /\ Argument(p)
        /\ UNCHANGED <<mode, keeps, fileVars, watchVars, engineVars, early, crashed, edits>>
    BY <1>0, <1>3 DEF DoSetConf
  <2>3. pc'[p] = s
    BY <2>1 DEF TypeInv, TypeOK, PCs
  <2>4. new' = new => s # "idle"
    BY <2>2, <2>3, ReloadAssumption DEF Argument, TypeInv, TypeOK
  <2> QED BY <1>0, <2>1, <2>2, <2>4, CallType DEF engineVars, PCs
<1>4. CASE SignalReload(p)
  <2>1. /\ pc[p] = "signal" /\ pc' = [pc EXCEPT ![p] = "store"] /\ new' = new
        /\ UNCHANGED <<mode, keeps, fileVars, watchVars, engineVars, early, failed, crashed, edits>>
    BY <1>4 DEF SignalReload
  <2> QED BY <1>0, <2>1, CallType DEF engineVars, PCs
<1>5. CASE Store(p)
  <2>1. /\ pc[p] # "idle" /\ pc' = [pc EXCEPT ![p] = "idle"] /\ Argument(p)
        /\ early' \in BOOLEAN /\ failed' \in BOOLEAN
        /\ UNCHANGED <<mode, keeps, fileVars, watchVars, cfg, engine, control, crashed, edits>>
    BY <1>5 DEF Store
  <2>2. new[p] \in ConfigType
    BY <2>1 DEF TypeInv
  <2>3. loaded' \in ConfigType \cup {NoConfig} /\ logVerbose' \in BOOLEAN
    BY <1>0, <1>5, <2>2 DEF Store, ConfigType
  <2>4. new' # new
    BY <2>1, <2>2, ReloadAssumption DEF Argument, TypeInv, TypeOK
  <2> QED BY <2>1, <2>3, <2>4, CallType DEF PCs
<1> QED BY <1>1, <1>2, <1>3, <1>4, <1>5 DEF ReloadStep

\* The engine's own steps.
LEMMA EngineType ==
    ASSUME TypeInv, VMStart \/ ControlConnects \/ Bootstrapped \/ RunEnds
    PROVE  TypeInv'
<1>0. events \in Nat /\ events <= events
  BY DEF TypeInv, TypeOK
<1>1. CASE VMStart
  <2>1. /\ engine' = "booting"
        /\ UNCHANGED <<mode, keeps, fileVars, watchVars, cfg, loaded, logVerbose, control, reloadVars, edits>>
    BY <1>1 DEF VMStart
  <2> QED BY <1>0, <2>1, FilesQuiet DEF TypeInv, TypeOK, fileVars, watchVars, reloadVars
<1>2. CASE ControlConnects
  <2>1. /\ control' = TRUE
        /\ UNCHANGED <<mode, keeps, fileVars, watchVars, cfg, loaded, logVerbose, engine, reloadVars, edits>>
    BY <1>2 DEF ControlConnects
  <2> QED BY <1>0, <2>1, FilesQuiet DEF TypeInv, TypeOK, fileVars, watchVars, reloadVars
<1>3. CASE Bootstrapped \/ RunEnds
  <2>1. /\ engine' \in {"running", "shutdown", "ended"} /\ control' \in BOOLEAN
        /\ UNCHANGED <<mode, keeps, fileVars, watchVars, cfg, loaded, logVerbose, reloadVars, edits>>
    BY <1>3 DEF Bootstrapped, RunEnds, EngineMoves
  <2> QED BY <1>0, <2>1, FilesQuiet DEF TypeInv, TypeOK, fileVars, watchVars, reloadVars
<1> QED BY <1>1, <1>2, <1>3

\* An edit in the GUI: one more edit, and no event.
LEMMA EditType ==
    ASSUME TypeInv, edits < MaxEdits, edits' = edits + 1, cfg' \in ConfigType,
           pc' \in [Callers -> {"idle", "decide", "setconf", "signal", "store", "storeEarly"}],
           new' \in [Callers -> ConfigType \cup {NoConfig}],
           \A p \in Callers : pc'[p] # "idle" => new'[p] \in ConfigType,
           UNCHANGED <<mode, keeps, fileVars, watchVars, loaded, logVerbose, engine, control,
                       early, failed, crashed>>
    PROVE  TypeInv'
<1>1. events \in Nat /\ edits \in Nat /\ Len(writing) \in Nat /\ events + Len(writing) <= 2 * edits
  BY DEF TypeInv, TypeOK
<1>2. edits' \in 0..MaxEdits
  <2>1. MaxEdits \in Nat
    BY ReloadAssumption
  <2> QED BY <1>1, <2>1
<1>3. events + Len(writing) <= 2 * (edits + 1)
  BY <1>1
<1>4. events' + Len(writing') <= 2 * edits'
  BY <1>3 DEF fileVars
<1> QED BY <1>2, <1>4 DEF TypeInv, TypeOK, fileVars, watchVars

\* A tab that stores a configuration keeps the types.
LEMMA GuiSetsType == ASSUME TypeInv, NEW c \in ConfigType, GuiSets(c) PROVE TypeInv'
<1>1. /\ edits < MaxEdits /\ edits' = edits + 1 /\ cfg' = c
      /\ UNCHANGED <<mode, keeps, fileVars, watchVars, loaded, logVerbose, engine, control, reloadVars>>
  BY DEF GuiSets
<1>2. /\ pc' \in [Callers -> {"idle", "decide", "setconf", "signal", "store", "storeEarly"}]
      /\ new' \in [Callers -> ConfigType \cup {NoConfig}]
      /\ \A p \in Callers : pc'[p] # "idle" => new'[p] \in ConfigType
  BY <1>1 DEF TypeInv, TypeOK, reloadVars
<1> QED BY <1>1, <1>2, EditType DEF reloadVars

\* The GUI's fields only hold what a Config may hold.
LEMMA GroupTyped ==
    ASSUME NEW c \in ConfigType
    PROVE  /\ \A m \in Nat : [c EXCEPT !.mem = m] \in ConfigType
           /\ \A v \in BOOLEAN : [c EXCEPT !.verbose = v] \in ConfigType
           /\ \A b \in BridgeType : [c EXCEPT !.bridge = b] \in ConfigType
           /\ \A x \in ProxyType : [c EXCEPT !.proxy = x] \in ConfigType
           /\ \A r \in RelaysType : [c EXCEPT !.relays = r] \in ConfigType
           /\ c.bridge \in BridgeType /\ c.proxy \in ProxyType /\ c.relays \in RelaysType
  BY DEF ConfigType

\* The settings tab keeps the types.
LEMMA SettingsType == ASSUME TypeInv, EditSettings PROVE TypeInv'
<1>1. cfg \in ConfigType
  BY DEF TypeInv, TypeOK
<1>2. \A m \in MemSizes : [cfg EXCEPT !.mem = m] \in ConfigType
  BY <1>1, GroupTyped, ReloadAssumption
<1>3. \A v \in BOOLEAN : [cfg EXCEPT !.verbose = v] \in ConfigType
  BY <1>1, GroupTyped
<1>4. [cfg EXCEPT !.mem = 256, !.verbose = FALSE] \in ConfigType
  <2> DEFINE d == [cfg EXCEPT !.mem = 256]
  <2>1. d \in ConfigType
    BY <1>1, GroupTyped
  <2>2. [d EXCEPT !.verbose = FALSE] \in ConfigType
    <3> HIDE DEF d
    <3> QED BY <2>1, GroupTyped
  <2> QED BY <2>2
<1> QED BY <1>2, <1>3, <1>4, GuiSetsType DEF EditSettings

\* The bridges tab keeps the types.
LEMMA BridgesType == ASSUME TypeInv, EditBridges PROVE TypeInv'
<1>1. cfg \in ConfigType /\ cfg.bridge \in BridgeType
  BY GroupTyped DEF TypeInv, TypeOK
<1>2. /\ \A on \in BOOLEAN : [cfg.bridge EXCEPT !.use = on] \in BridgeType
      /\ \A t \in Transports : [cfg.bridge EXCEPT !.transport = t] \in BridgeType
      /\ \A s \in Seq(BridgeLines \cup {Bad}) : [cfg.bridge EXCEPT !.lines = s] \in BridgeType
  BY <1>1 DEF BridgeType
<1>3. \A on \in BOOLEAN : [cfg EXCEPT !.bridge.use = on] \in ConfigType
  BY <1>1, <1>2, GroupTyped
<1>4. \A t \in Transports : [cfg EXCEPT !.bridge.transport = t] \in ConfigType
  BY <1>1, <1>2, GroupTyped
<1>5. \A s \in Seq(BridgeLines \cup {Bad}) : [cfg EXCEPT !.bridge.lines = s] \in ConfigType
  BY <1>1, <1>2, GroupTyped
<1>6. <<>> \in Seq(BridgeLines \cup {Bad}) /\ \A b \in BridgeLines \cup {Bad} : <<b>> \in Seq(BridgeLines \cup {Bad})
  OBVIOUS
<1> QED BY <1>3, <1>4, <1>5, <1>6, GuiSetsType DEF EditBridges

\* The proxy tab keeps the types.
LEMMA ProxyEditType == ASSUME TypeInv, EditProxy PROVE TypeInv'
<1>1. cfg \in ConfigType /\ cfg.proxy \in ProxyType
  BY GroupTyped DEF TypeInv, TypeOK
<1>2. /\ \A t \in {"", "HTTP", "HTTPS", "SOCKS5"} : [cfg.proxy EXCEPT !.type = t] \in ProxyType
      /\ \A a \in ProxyAddresses \cup {Bad} : [cfg.proxy EXCEPT !.address = a] \in ProxyType
  BY <1>1 DEF ProxyType, ProxyTypes
<1>3. \A t \in {"", "HTTP", "HTTPS", "SOCKS5"} : [cfg EXCEPT !.proxy.type = t] \in ConfigType
  BY <1>1, <1>2, GroupTyped
<1>4. \A a \in ProxyAddresses \cup {Bad} : [cfg EXCEPT !.proxy.address = a] \in ConfigType
  BY <1>1, <1>2, GroupTyped
<1> QED BY <1>3, <1>4, GuiSetsType DEF EditProxy

\* A configuration whose lists of relays are edited is a configuration.
LEMMA RelaysEditTyped ==
    ASSUME NEW c \in ConfigType, NEW r \in Relays \cup {Bad}
    PROVE  /\ [c EXCEPT !.relays.exclude = c.relays.exclude \cup {r}] \in ConfigType
           /\ [c EXCEPT !.relays.exit = c.relays.exit \cup {r}] \in ConfigType
           /\ [c EXCEPT !.relays.exclude = c.relays.exclude \ {r}] \in ConfigType
           /\ [c EXCEPT !.relays.exit = c.relays.exit \ {r}] \in ConfigType
           /\ \A on \in BOOLEAN : [c EXCEPT !.relays.strict = on] \in ConfigType
<1>1. c.relays \in RelaysType
  BY GroupTyped
<1>2. /\ [c.relays EXCEPT !.exclude = c.relays.exclude \cup {r}] \in RelaysType
      /\ [c.relays EXCEPT !.exit = c.relays.exit \cup {r}] \in RelaysType
  BY <1>1 DEF RelaysType
<1>3. /\ [c.relays EXCEPT !.exclude = c.relays.exclude \ {r}] \in RelaysType
      /\ [c.relays EXCEPT !.exit = c.relays.exit \ {r}] \in RelaysType
      /\ \A on \in BOOLEAN : [c.relays EXCEPT !.strict = on] \in RelaysType
  BY <1>1 DEF RelaysType
<1> QED BY <1>2, <1>3, GroupTyped

\* The relays tab keeps the types.
LEMMA RelaysTabType ==
    ASSUME TypeInv, EditExclude \/ EditExit \/ CountrySelect \/ StrictCheck
    PROVE  TypeInv'
<1>1. cfg \in ConfigType
  BY DEF TypeInv, TypeOK
<1>2. ASSUME NEW r \in Relays \cup {Bad},
             \/ AddEntry("exclude", r) \/ AddEntry("exit", r)
             \/ RemoveEntry("exclude", r) \/ RemoveEntry("exit", r)
      PROVE  TypeInv'
  BY <1>1, <1>2, RelaysEditTyped, GuiSetsType DEF AddEntry, RemoveEntry
<1>3. CASE StrictCheck
  BY <1>1, <1>3, RelaysEditTyped, GuiSetsType DEF StrictCheck
<1> QED BY <1>2, <1>3 DEF EditExclude, EditExit, CountrySelect

\* The circuit tab's Block keeps the types.
LEMMA BlockType == ASSUME TypeInv, Block PROVE TypeInv'
<1>1. cfg \in ConfigType /\ pc \in [Callers -> PCs] /\ new \in [Callers -> ConfigType \cup {NoConfig}]
  BY DEF TypeInv, TypeOK, PCs
<1>2. /\ edits < MaxEdits /\ edits' = edits + 1
      /\ UNCHANGED <<mode, keeps, fileVars, watchVars, loaded, logVerbose, engine, control,
                     early, failed, crashed>>
  BY DEF Block
<1>3. cfg' \in ConfigType
  <2>1. PICK r \in Relays : cfg' \in {[cfg EXCEPT !.relays.exclude = cfg.relays.exclude \cup {r}],
                                    [cfg EXCEPT !.relays.exit = cfg.relays.exit \cup {r}]}
    BY DEF Block
  <2>2. /\ [cfg EXCEPT !.relays.exclude = cfg.relays.exclude \cup {r}] \in ConfigType
        /\ [cfg EXCEPT !.relays.exit = cfg.relays.exit \cup {r}] \in ConfigType
    BY <1>1, RelaysEditTyped
  <2> QED BY <2>1, <2>2, Zenon
<1>4. \/ UNCHANGED <<pc, new>>
      \/ pc' = [pc EXCEPT !["gui"] = "decide"] /\ new' = [new EXCEPT !["gui"] = cfg']
  BY DEF Block
<1>5. /\ pc' \in [Callers -> PCs] /\ new' \in [Callers -> ConfigType \cup {NoConfig}]
      /\ \A p \in Callers : pc'[p] # "idle" => new'[p] \in ConfigType
  <2>1. CASE UNCHANGED <<pc, new>>
    BY <1>1, <2>1 DEF TypeInv
  <2>2. CASE pc' = [pc EXCEPT !["gui"] = "decide"] /\ new' = [new EXCEPT !["gui"] = cfg']
    BY <1>1, <1>3, <2>2 DEF TypeInv, Callers, PCs
  <2> QED BY <1>4, <2>1, <2>2
<1> QED BY <1>2, <1>3, <1>5, EditType DEF PCs

\* Whatever is done in the GUI keeps the types.
LEMMA GuiType == ASSUME TypeInv, GuiStep PROVE TypeInv'
<1>1. CASE SaveConfig
  <2>1. BeginWrite(File("json", cfg)) /\ Typed(File("json", cfg))
    BY <1>1, SavedTyped DEF SaveConfig, TypeInv, TypeOK
  <2> QED BY <2>1, BeginWriteType
<1> QED BY <1>1, SettingsType, BridgesType, ProxyEditType, RelaysTabType, BlockType DEF GuiStep

\* The types hold when the controller starts.
LEMMA InitType == Init => TypeInv
<1> SUFFICES ASSUME Init PROVE TypeInv
  OBVIOUS
<1>1. Typed(file) /\ Loads(file) /\ Merged(file) \in ConfigType
  <2>1. file \in Contents \cup {Absent} /\ Loads(file)
    BY DEF Init
  <2>2. Typed(file)
    BY <2>1, NoFileTyped, ReloadAssumption
  <2> QED BY <2>1, <2>2 DEF Typed
<1>2. cfg \in ConfigType
  <2>1. PICK flag \in BOOLEAN : cfg = InitialConfig(file, flag, mode)
    BY DEF Init
  <2> DEFINE v == [Merged(file) EXCEPT !.verbose = flag]
             c == [v EXCEPT !.other = "detected"]
  <2>2. v \in ConfigType
    BY <1>1, GroupTyped
  <2>3. c \in ConfigType
    <3> HIDE DEF v
    <3> QED BY <2>2 DEF ConfigType
  <2>4. [c EXCEPT !.bridge.transport = "none"] \in ConfigType
    <3> HIDE DEF c
    <3>1. [c.bridge EXCEPT !.transport = "none"] \in BridgeType
      <4>1. c.bridge \in BridgeType
        BY <2>3, GroupTyped
      <4> QED BY <4>1 DEF BridgeType, Transports
    <3> QED BY <2>3, <3>1, GroupTyped
  <2>5. cfg \in {c, [c EXCEPT !.bridge.transport = "none"]}
    BY <2>1 DEF InitialConfig
  <2> QED BY <2>3, <2>4, <2>5
<1>3. logVerbose \in BOOLEAN
  BY <1>2 DEF Init, ConfigType
<1>4. /\ mode \in {"headless", "gui"} /\ keeps \in BOOLEAN
      /\ watched \in BOOLEAN /\ loop \in {"select", "reload", "exited"}
  BY ReloadAssumption DEF Init
<1>5. Len(writing) = 0 /\ events = 0 /\ edits = 0
  BY DEF Init
<1>6. events \in 0..2 * MaxEdits /\ edits \in 0..MaxEdits /\ events + Len(writing) <= 2 * edits
  <2>1. MaxEdits \in Nat
    BY ReloadAssumption
  <2> QED BY <1>5, <2>1
<1>7. /\ writing = <<>> /\ timer = "nil" /\ main = "run" /\ loaded = NoConfig
      /\ engine = "starting" /\ control = FALSE
      /\ pc = [p \in Callers |-> "idle"] /\ new = [p \in Callers |-> NoConfig]
      /\ early = FALSE /\ failed = FALSE /\ crashed = FALSE
  BY DEF Init
<1>8. /\ pc \in [Callers -> {"idle", "decide", "setconf", "signal", "store", "storeEarly"}]
      /\ new \in [Callers -> ConfigType \cup {NoConfig}] /\ \A p \in Callers : pc[p] = "idle"
  BY <1>7
<1>9. file.kind \in {"absent", "garbage", "insecure", "json"} /\ Len(writing) <= 1
  BY <1>1, <1>5 DEF Typed
<1>10. TypeOK
  BY <1>2, <1>3, <1>4, <1>6, <1>7, <1>8, <1>9 DEF TypeOK
<1> QED BY <1>1, <1>6, <1>7, <1>8, <1>10 DEF TypeInv

\* A step that changes nothing keeps the types.
LEMMA StutterType == ASSUME TypeInv, UNCHANGED vars PROVE TypeInv'
  BY DEF TypeInv, TypeOK, vars, fileVars, watchVars, engineVars, reloadVars

\* The types, with the bound on events, always hold.
LEMMA TypeInvariant == Spec => []TypeInv
<1>1. TypeInv /\ [Next]_vars => TypeInv'
  <2> SUFFICES ASSUME TypeInv, [Next]_vars PROVE TypeInv'
    OBVIOUS
  <2>1. CASE EditorWrites
    BY <2>1, BeginWriteType, ReloadAssumption DEF EditorWrites
  <2> QED
    BY <2>1, EndWriteType, RenameType, WatcherType, ReloadType, EngineType, GuiType, StutterType
       DEF Next
<1> QED BY <1>1, InitType, PTL DEF Spec

\* Every variable of the configuration and its reload stays in its range, for
\* every set of files: in particular a Config object is never left with a value
\* that is none, however the tabs of the GUI edit it in place.
THEOREM TypeCorrect == Spec => []TypeOK
<1>1. TypeInv => TypeOK
  BY DEF TypeInv
<1> QED BY <1>1, TypeInvariant, PTL

-----------------------------------------------------------------------------
(* Only validated lines reach Tor *)

\* A call that is about to send SETCONF has an argument whose overlay passed.
ValidInv ==
    /\ TorOnlyValidated
    /\ \A p \in Callers : pc[p] = "setconf" => OverlayOK(new[p])

\* The init script copies lines of torrc.override and adds none.
LEMMA BootConfValid ==
    ASSUME NEW o, \A i \in DOMAIN o : LineValid(o[i])
    PROVE  \A l \in BootConf(o) : LineValid(l)
  BY DEF BootConf

\* Every line of an overlay that passed the validators is valid.
LEMMA OverlayLinesValid ==
    ASSUME NEW c \in ConfigType, OverlayOK(c)
    PROVE  \A i \in DOMAIN TorrcOverlay(c) : LineValid(TorrcOverlay(c)[i])
<1>1. \A i \in DOMAIN TorrcOverlay(c) : TorrcOverlay(c)[i] \in ValidLines(c)
  BY OverlayValid
<1> QED BY <1>1 DEF ValidLines

\* A step that neither reaches Tor nor brings a call to SETCONF keeps ValidInv.
LEMMA ValidQuiet ==
    ASSUME ValidInv, UNCHANGED <<torConf, override>>,
           \A p \in Callers : pc'[p] = "setconf" => pc[p] = "setconf" /\ new'[p] = new[p]
    PROVE  ValidInv'
  BY DEF ValidInv, TorOnlyValidated

\* ReloadConfig tests the overlay before the call that sends it.
LEMMA ReloadValid == ASSUME TypeInv, ValidInv, NEW p \in Callers, ReloadStep(p) PROVE ValidInv'
<1>0. pc \in [Callers -> PCs] /\ new \in [Callers -> ConfigType \cup {NoConfig}]
  BY DEF TypeInv, TypeOK, PCs
<1>1. CASE ReloadConfig(p)
  <2>1. PICK s \in PCs \ {"decide", "store"} :
          pc' = [pc EXCEPT ![p] = s] /\ (s \in {"setconf", "signal"} => OverlayOK(new[p]))
    BY <1>1, ReloadDecides
  <2>2. UNCHANGED <<torConf, override>> /\ Argument(p)
    BY <1>1 DEF ReloadConfig, engineVars
  <2>3. ASSUME NEW q \in Callers, pc'[q] = "setconf" PROVE OverlayOK(new'[q])
    <3>1. CASE q = p
      <4>1. s = "setconf" /\ new' = new
        BY <1>0, <2>1, <2>2, <2>3, <3>1 DEF Argument
      <4> QED BY <2>1, <3>1, <4>1
    <3>2. CASE q # p
      BY <1>0, <2>1, <2>2, <2>3, <3>2 DEF Argument, ValidInv
    <3> QED BY <3>1, <3>2
  <2> QED BY <2>2, <2>3 DEF ValidInv, TorOnlyValidated
<1>2. CASE NilControl(p)
  BY <1>2, ValidQuiet DEF NilControl, engineVars
<1>3. CASE DoSetConf(p)
  <2>1. /\ pc[p] = "setconf" /\ torConf' \in {torConf} \cup SetConf(torConf, Directives(new[p]))
        /\ UNCHANGED override /\ Argument(p)
    BY <1>3 DEF DoSetConf, engineVars
  <2>2. OverlayOK(new[p]) /\ new[p] \in ConfigType
    BY <2>1 DEF ValidInv, TypeInv
  <2>3. \A l \in torConf' : TorLine(l)
    BY <2>1, <2>2, SetConfValid DEF ValidInv, TorOnlyValidated, TorLine
  <2>4. PICK s \in {"signal", "idle"} : pc' = [pc EXCEPT ![p] = s]
    BY <1>3 DEF DoSetConf
  <2>5. \A q \in Callers : pc'[q] = "setconf" => OverlayOK(new'[q])
    BY <1>0, <2>1, <2>4 DEF Argument, ValidInv
  <2> QED BY <2>1, <2>3, <2>5 DEF ValidInv, TorOnlyValidated, TorLine
<1>4. CASE SignalReload(p)
  <2>1. torConf' \in {torConf, BootConf(override)} /\ UNCHANGED <<override, new>>
        /\ pc' = [pc EXCEPT ![p] = "store"]
    BY <1>4 DEF SignalReload, engineVars
  <2>2. \A l \in torConf' : TorLine(l)
    BY <2>1, BootConfValid DEF ValidInv, TorOnlyValidated, TorLine
  <2>3. \A q \in Callers : pc'[q] = "setconf" => OverlayOK(new'[q])
    BY <1>0, <2>1 DEF ValidInv
  <2> QED BY <2>1, <2>2, <2>3 DEF ValidInv, TorOnlyValidated, TorLine
<1>5. CASE Store(p)
  <2>1. UNCHANGED <<torConf, override>> /\ pc' = [pc EXCEPT ![p] = "idle"] /\ Argument(p)
    BY <1>5 DEF Store
  <2> QED BY <1>0, <2>1, ValidQuiet DEF Argument
<1> QED BY <1>1, <1>2, <1>3, <1>4, <1>5 DEF ReloadStep

\* vm.Instance.Start, which does not start with an overlay that is refused.
LEMMA VMStartValid == ASSUME TypeInv, ValidInv, VMStart PROVE ValidInv'
<1>1. cfg \in ConfigType /\ OverlayOK(cfg)
  BY DEF VMStart, TypeInv, TypeOK
<1>2. override' \in {override, TorrcOverlay(cfg)} /\ torConf' = BootConf(override')
      /\ UNCHANGED <<pc, new>>
  BY DEF VMStart, WriteStateDiskFile, reloadVars
<1>3. \A i \in DOMAIN override' : LineValid(override'[i])
  BY <1>1, <1>2, OverlayLinesValid DEF ValidInv, TorOnlyValidated
<1>4. \A l \in torConf' : LineValid(l)
  BY <1>2, <1>3, BootConfValid
<1> QED BY <1>2, <1>3, <1>4 DEF ValidInv, TorOnlyValidated

\* A Tor that has not been configured has no ill-formed line.
LEMMA InitValid == ASSUME Init PROVE ValidInv
<1>1. torConf = {} /\ pc = [p \in Callers |-> "idle"]
  BY DEF Init
<1>2. \A i \in DOMAIN override : LineValid(override[i])
  <2>1. CASE override = <<>>
    BY <2>1
  <2>2. CASE override # <<>>
    <3>1. PICK f \in Earlier :
            Loads(f) /\ OverlayOK(Merged(f)) /\ override = TorrcOverlay(Merged(f))
      BY <2>2 DEF Init
    <3>2. Merged(f) \in ConfigType
      BY <3>1, ReloadAssumption DEF Typed
    <3> QED BY <3>1, <3>2, OverlayLinesValid
  <2> QED BY <2>1, <2>2
<1> QED BY <1>1, <1>2 DEF ValidInv, TorOnlyValidated

\* Every other step leaves Tor's lines alone, and no call that is about to send
\* SETCONF begins in it.
LEMMA OtherValid ==
    ASSUME TypeInv, ValidInv,
           \/ EditorWrites \/ EndWrite \/ EditorRenames \/ WatcherStep \/ CloseBegins \/ CloseWaits
           \/ ControlConnects \/ Bootstrapped \/ RunEnds \/ GuiStep \/ UNCHANGED vars
    PROVE  ValidInv'
<1>0. pc \in [Callers -> PCs] /\ new \in [Callers -> ConfigType \cup {NoConfig}]
  BY DEF TypeInv, TypeOK, PCs
<1>1. CASE TimerFires
  <2>1. UNCHANGED <<torConf, override>>
    BY <1>1 DEF TimerFires, engineVars
  <2>2. \/ UNCHANGED <<pc, new>>
        \/ /\ pc' = [pc EXCEPT !["watcher"] = "decide"]
           /\ new' = [new EXCEPT !["watcher"] = Merged(file)]
    BY <1>1 DEF TimerFires
  <2> QED BY <1>0, <2>1, <2>2, ValidQuiet
<1>2. CASE Block
  <2>1. UNCHANGED <<torConf, override>>
    BY <1>2 DEF Block
  <2>2. \/ UNCHANGED <<pc, new>>
        \/ pc' = [pc EXCEPT !["gui"] = "decide"] /\ new' = [new EXCEPT !["gui"] = cfg']
    BY <1>2 DEF Block
  <2> QED BY <1>0, <2>1, <2>2, ValidQuiet
<1>3. CASE ~TimerFires /\ ~Block
  <2>1. UNCHANGED <<torConf, override, pc, new>>
    BY <1>3 DEF EditorWrites, BeginWrite, EndWrite, EditorRenames, WatcherStep, ReadEvent,
       ReloadReturns, LoopExits, CloseBegins, CloseWaits, ControlConnects, Bootstrapped, RunEnds,
       EngineMoves, GuiStep, EditSettings, EditBridges, EditProxy, EditExclude, EditExit,
       CountrySelect, StrictCheck, SaveConfig, AddEntry, RemoveEntry, GuiSets,
       vars, engineVars, reloadVars
  <2> QED BY <2>1, ValidQuiet
<1> QED BY <1>1, <1>2, <1>3

\* Whatever is typed into the GUI or written to the file, every line that the
\* state disk, or Tor at boot, ever gets passed the validators of torrc.go; what
\* Tor gets by a hot reload, where SETCONF splits values at their spaces, are
\* such lines and the further words of bridge lines that passed.
THEOREM OnlyValidatedLines == Spec => []TorOnlyValidated
<1>1. Init => ValidInv
  BY InitValid
<1>2. TypeInv /\ ValidInv /\ [Next]_vars => ValidInv'
  BY ReloadValid, VMStartValid, OtherValid DEF Next
<1>3. ValidInv => TorOnlyValidated
  BY DEF ValidInv
<1> QED BY <1>1, <1>2, <1>3, TypeInvariant, PTL DEF Spec

-----------------------------------------------------------------------------
(* Engine.Config names what Tor has been given *)

\* Tor has taken all that the directives of a Config come to.
Given(conf, c) == Accepted(Directives(c)) /\ Sent(Directives(c)) \subseteq conf

\* TorMatchesEngine is not inductive.  What is needed besides: before Running no
\* call talks to Tor, so that a boot discards nothing a stored Config stands for;
\* a call that is past SETCONF has given Tor its argument; and until then Tor
\* still has what was stored last.  The watcher's goroutine makes one call at a
\* time.
MatchInv ==
    mode = "headless" /\ keeps =>
      /\ pc["gui"] = "idle"
      /\ pc["watcher"] # "idle" => loop = "reload"
      /\ engine \in {"starting", "booting"} =>
           /\ pc["watcher"] \notin {"setconf", "signal", "store"}
           /\ loaded = NoConfig \/ early
      /\ pc["watcher"] \in {"signal", "store"} => Given(torConf, new["watcher"])
      /\ \/ loaded = NoConfig \/ early \/ failed
         \/ pc["watcher"] \in {"signal", "store"}
         \/ Given(torConf, loaded)

\* A SETCONF that succeeds gives Tor every word it sends.
LEMMA SetConfGives ==
    ASSUME NEW conf, NEW c, NEW res \in SetConf(conf, Directives(c))
    PROVE  Given(res, c)
  BY SetConfResult DEF Given

\* An empty overlay asks nothing of Tor.
LEMMA EmptyGiven == ASSUME NEW conf, NEW c, TorrcOverlay(c) = <<>> PROVE Given(conf, c)
<1>1. DOMAIN Directives(c) = {}
  BY DEF Directives, parseTorrcOverlay
<1> QED BY <1>1 DEF Given, Accepted, Sent

\* ReloadConfig keeps Tor and the engine's configuration in agreement.
LEMMA ReloadMatch == ASSUME TypeInv, MatchInv, NEW p \in Callers, ReloadStep(p) PROVE MatchInv'
<1> SUFFICES ASSUME mode' = "headless", keeps' PROVE MatchInv'
  BY DEF MatchInv
<1>1. pc \in [Callers -> PCs] /\ new \in [Callers -> ConfigType \cup {NoConfig}]
  BY DEF TypeInv, TypeOK, PCs
<1>2. mode = "headless" /\ keeps
  BY DEF ReloadStep, ReloadConfig, NilControl, DoSetConf, SignalReload, Store
<1>3. p = "watcher"
  BY <1>2 DEF ReloadStep, ReloadConfig, NilControl, DoSetConf, SignalReload, Store, MatchInv, Callers
<1>4. "watcher" \in Callers /\ "gui" \in Callers
  BY DEF Callers
<1>5. CASE ReloadConfig(p)
  <2>1. PICK s \in PCs \ {"decide", "store"} :
          /\ pc' = [pc EXCEPT ![p] = s]
          /\ s \in {"setconf", "signal"} => engine = "running" /\ OverlayOK(new[p])
          /\ s = "signal" => TorrcOverlay(new[p]) = <<>>
    BY <1>5, ReloadDecides
  <2>2. pc[p] = "decide" /\ Argument(p) /\ UNCHANGED <<torConf, loaded, engine, early, loop>>
        /\ (failed => failed')
    BY <1>5 DEF ReloadConfig, engineVars, watchVars
  <2>3. pc'["watcher"] = s /\ pc'["gui"] = pc["gui"]
    BY <1>1, <1>3, <1>4, <2>1
  <2>4. s # "idle" => new' = new
    BY <1>1, <1>3, <2>2, <2>3 DEF Argument
  <2>5. s = "signal" => Given(torConf', new'["watcher"])
    BY <1>3, <2>1, <2>4, EmptyGiven
  <2> QED BY <1>2, <1>3, <2>1, <2>2, <2>3, <2>5 DEF MatchInv
<1>6. CASE NilControl(p)
  BY <1>6 DEF NilControl, engineVars, watchVars, MatchInv
<1>7. CASE DoSetConf(p)
  <2>1. pc[p] = "setconf" /\ Argument(p) /\ UNCHANGED <<loaded, engine, early, loop>>
    BY <1>7 DEF DoSetConf, engineVars, watchVars
  <2>2. CASE torConf' \in SetConf(torConf, Directives(new[p])) /\ pc' = [pc EXCEPT ![p] = "signal"]
    <3>1. pc'["watcher"] = "signal" /\ pc'["gui"] = pc["gui"]
      BY <1>1, <1>3, <1>4, <2>2
    <3>2. new' = new
      BY <1>1, <1>3, <2>1, <3>1 DEF Argument
    <3>3. Given(torConf', new'["watcher"])
      BY <1>3, <2>2, <3>2, SetConfGives
    <3> QED BY <1>2, <1>3, <2>1, <3>1, <3>3 DEF MatchInv
  <2>3. CASE pc' = [pc EXCEPT ![p] = "idle"] /\ failed'
    <3>1. pc'["watcher"] = "idle" /\ pc'["gui"] = pc["gui"]
      BY <1>1, <1>3, <1>4, <2>3
    <3> QED BY <1>2, <1>3, <2>1, <2>3, <3>1 DEF MatchInv
  <2> QED BY <1>7, <2>2, <2>3 DEF DoSetConf
<1>8. CASE SignalReload(p)
  <2>1. /\ pc[p] = "signal" /\ pc' = [pc EXCEPT ![p] = "store"]
        /\ UNCHANGED <<torConf, new, loaded, engine, early, failed, loop>>
    BY <1>2, <1>8 DEF SignalReload, engineVars, watchVars
  <2>2. pc'["watcher"] = "store" /\ pc'["gui"] = pc["gui"]
    BY <1>1, <1>3, <1>4, <2>1
  <2> QED BY <1>2, <1>3, <2>1, <2>2 DEF MatchInv
<1>9. CASE Store(p)
  <2>1. /\ pc[p] \in {"store", "storeEarly"} /\ pc' = [pc EXCEPT ![p] = "idle"]
        /\ early' = (pc[p] = "storeEarly") /\ UNCHANGED <<torConf, engine, loop>>
    BY <1>9 DEF Store, watchVars
  <2>2. loaded' = new["watcher"]
    BY <1>3, <1>9 DEF Store
  <2>3. pc'["watcher"] = "idle" /\ pc'["gui"] = pc["gui"]
    BY <1>1, <1>3, <1>4, <2>1
  <2> QED BY <1>2, <1>3, <2>1, <2>2, <2>3 DEF MatchInv
<1> QED BY <1>5, <1>6, <1>7, <1>8, <1>9 DEF ReloadStep

\* The engine: only a boot changes Tor's options, and it comes before Running.
LEMMA EngineMatch ==
    ASSUME MatchInv, VMStart \/ ControlConnects \/ Bootstrapped \/ RunEnds
    PROVE  MatchInv'
<1>1. CASE VMStart
  <2>1. engine = "starting" /\ engine' = "booting" /\ UNCHANGED <<mode, keeps, loop, loaded, pc, new, early, failed>>
    BY <1>1 DEF VMStart, reloadVars, watchVars
  <2> QED BY <2>1 DEF MatchInv
<1>2. CASE ControlConnects \/ Bootstrapped \/ RunEnds
  <2>1. /\ UNCHANGED <<mode, keeps, loop, loaded, pc, new, early, failed, torConf>>
        /\ engine' \in {engine, "running", "shutdown", "ended"}
    BY <1>2 DEF ControlConnects, Bootstrapped, RunEnds, EngineMoves, reloadVars, watchVars
  <2> QED BY <2>1 DEF MatchInv
<1> QED BY <1>1, <1>2

\* Every other step leaves Tor, the engine and the stored Config alone; the
\* watcher may call ReloadConfig, and without a GUI nobody else does.
LEMMA OtherMatch ==
    ASSUME TypeInv, MatchInv,
           \/ EditorWrites \/ EndWrite \/ EditorRenames \/ WatcherStep \/ CloseBegins \/ CloseWaits
           \/ GuiStep \/ UNCHANGED vars
    PROVE  MatchInv'
<1>1. CASE TimerFires
  <2>1. UNCHANGED <<mode, keeps, torConf, loaded, engine, early, failed>>
    BY <1>1 DEF TimerFires, engineVars
  <2>2. CASE UNCHANGED <<loop, pc, new>>
    BY <2>1, <2>2 DEF MatchInv
  <2>3. CASE ~UNCHANGED <<loop, pc, new>>
    <3>1. pc' = [pc EXCEPT !["watcher"] = "decide"] /\ loop = "select" /\ loop' = "reload"
      BY <1>1, <2>3 DEF TimerFires
    <3>2. pc'["watcher"] = "decide" /\ pc'["gui"] = pc["gui"]
      BY <3>1 DEF TypeInv, TypeOK, Callers
    <3> QED BY <2>1, <3>1, <3>2 DEF MatchInv
  <2> QED BY <2>2, <2>3
<1>2. CASE Block
  BY <1>2 DEF Block, GuiIdle, MatchInv
<1>3. CASE ReloadReturns \/ LoopExits
  <2>1. /\ UNCHANGED <<mode, keeps, torConf, loaded, engine, pc, new, early, failed>>
        /\ loop = "select" \/ pc["watcher"] = "idle"
    BY <1>3 DEF ReloadReturns, LoopExits, engineVars, reloadVars
  <2> QED BY <2>1 DEF MatchInv
<1>4. CASE ~TimerFires /\ ~Block /\ ~ReloadReturns /\ ~LoopExits
  <2>1. UNCHANGED <<mode, keeps, torConf, loop, loaded, engine, pc, new, early, failed>>
    BY <1>4 DEF EditorWrites, BeginWrite, EndWrite, EditorRenames, WatcherStep, ReadEvent,
       CloseBegins, CloseWaits,
       GuiStep, EditSettings, EditBridges, EditProxy, EditExclude, EditExit,
       CountrySelect, StrictCheck, SaveConfig, AddEntry, RemoveEntry, GuiSets,
       vars, watchVars, engineVars, reloadVars
  <2> QED BY <2>1 DEF MatchInv
<1> QED BY <1>1, <1>2, <1>3, <1>4

\* Without a GUI, whenever no reload is under way and the last one neither failed
\* nor came before Running, Tor has taken every word that the directives of
\* Engine.Config come to: a Config that Tor refuses, as it does any with a plugin
\* or a hidden service, is never stored as the current one.
THEOREM EngineConfigGiven == Spec => []TorMatchesEngine
<1>1. Init => MatchInv
  BY DEF Init, MatchInv, Callers
<1>2. TypeInv /\ MatchInv /\ [Next]_vars => MatchInv'
  BY ReloadMatch, EngineMatch, OtherMatch DEF Next
<1>3. MatchInv => TorMatchesEngine
  BY DEF MatchInv, TorMatchesEngine, Given
<1> QED BY <1>1, <1>2, <1>3, TypeInvariant, PTL DEF Spec
=============================================================================
