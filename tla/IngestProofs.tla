---------------------------- MODULE IngestProofs ----------------------------
(***************************************************************************)
(* What holds of Ingest for any set of posts, any channel capacity and any *)
(* number of warnings.                                                     *)
(***************************************************************************)
EXTENDS Ingest, TLAPS

\* How far a post's handler and its operation have come together: the
\* operation starts when the handler goes into its loop, and each kind of post
\* has its own part of the way.
PhaseInv ==
  \A o \in Posts :
    /\ hpc[o] \in {"new", "update"} => opc[o] = "off"
    /\ hpc[o] = "loop" => opc[o] # "off"
    /\ hpc[o] = "update" => o \in PcapPosts
    /\ opc[o] \in {"warn", "send", "close"} => o \in LogPosts
    /\ opc[o] \in {"slurp", "cleanup", "abort", "clear"} => o \in PcapPosts
    /\ opc[o] = "slurp" => o \notin last
    /\ opc[o] = "off" => o \notin last
    /\ ended[o] # "none" => hpc[o] = "returned" /\ opc[o] = "closed"

\* An error ends a write: up to its end an operation has none.
ErrInv ==
  \A o \in Posts :
    /\ opc[o] \notin {"close", "abort", "clear", "closed"} => opErr[o] = "none"
    /\ opc[o] \in {"abort", "clear"} => opErr[o] # "none"

\* Every warning a post has raised is with the client, in the channel, or still
\* to be sent, as long as somebody receives them.
Underway(o) == ch[o] + toWarn[o] + IF opc[o] = "send" THEN 1 ELSE 0
WarnInv ==
  \A o \in Posts :
    /\ delivered[o] + Underway(o) <= raised[o]
    /\ hpc[o] = "loop" \/ ended[o] # "none" =>
         delivered[o] + Underway(o) = raised[o]
    /\ opc[o] # "warn" => toWarn[o] = 0
    /\ ended[o] # "none" => ch[o] = 0
    /\ opc[o] = "off" => raised[o] = 0 /\ delivered[o] = 0

\* What a post writes is its own: a log and a pcap's last snapshot all of it.
ContentInv ==
  \A o \in Posts :
    /\ content[o] \subseteq Records(o)
    /\ opc[o] = "acquire" \/ Writing(o) =>
         (o \in LogPosts \cup last => content[o] = Records(o))

\* A post that got to its end without an error has been installed, and a log
\* is installed once.
ResultInv ==
  \A o \in Posts :
    /\ opc[o] = "span" /\ content[o] = Records(o) => o \in installed
    /\ opc[o] \in {"close", "cleanup", "closed"} /\ opErr[o] = "none" =>
         o \in installed \/ Records(o) = {}
    /\ ended[o] = "ok" => opErr[o] = "none"
    /\ o \in LogPosts /\ o \in installed =>
         /\ opc[o] \in {"span", "close", "closed"}
         /\ opErr[o] # "conflict"

\* The span and info.json are the same, and cover all.zng but for the write
\* that has just renamed it.
StoreInv ==
  /\ ~torn /\ deleting # "removed" =>
       /\ span = info
       /\ (\A o \in Posts : opc[o] # "span") => file \subseteq span
  /\ deleting # "removed" =>
       \A o \in Posts : opc[o] = "span" => file = content[o]
  /\ deleting = "removed" => file = {} /\ info = {}

\* A pcap post whose abort is past pcap.json, and past the store, does not come
\* back but in what the abort failed to remove.
AbortInv ==
  \A o \in PcapPosts :
    /\ opc[o] \in {"clear", "closed"} /\ opErr[o] # "none" =>
         /\ meta # o
         /\ pcapJson = o => <<o, "pcap.json">> \in kept
    /\ opc[o] = "closed" /\ opErr[o] # "none" =>
         (file \cap Records(o) # {} => <<o, "all.zng">> \in kept)

\* Who is in its handler is registered, so that nobody stores a pcap in a space
\* that was removed; the memory names the pcap of pcap.json or none.
MetaInv ==
  /\ \A o \in Posts : hpc[o] \in {"update", "loop"} => o \in registered
  /\ deleting = "removed" => registered = {} /\ pcapJson = Nil
  /\ PcapSurvives

WriterInv == \A o \in Posts : Writing(o) <=> wsem = o

IngestInv ==
  TypeOK /\ WriterInv /\ PhaseInv /\ ErrInv /\ WarnInv /\ ContentInv /\ ResultInv
  /\ StoreInv /\ AbortInv /\ MetaInv

USE PostAssumption, ChannelAssumption
    DEF Posts, OpPCs, HandlerPCs, Errs, OpGoto, Leave, Writing, Unlock, postVars,
        warnVars, guardVars, storeVars, pcapVars, metaVars

\* The records of a post are its own.
LEMMA RecordsOf ==
  ASSUME NEW o \in Posts
  PROVE  /\ Records(o) \subseteq Posts \X {1, 2}
         /\ Records(o) # {} => FirstOf(o) \subseteq Records(o)
         /\ \A p \in Posts \ {o} : Records(o) \cap Records(p) = {}
  BY DEF Records, FirstOf

\* IngestInv holds before the first post.
LEMMA IngestInit == Init => IngestInv
<1> SUFFICES ASSUME Init PROVE IngestInv
  OBVIOUS
<1> USE DEF Init
<1>1. TypeOK
  <2>1. 0 \in 0..MaxWarn /\ 0 \in 0..ChanCap
    OBVIOUS
  <2>2. /\ toWarn \in [Posts -> 0..MaxWarn] /\ raised \in [Posts -> 0..MaxWarn]
        /\ delivered \in [Posts -> 0..MaxWarn] /\ ch \in [Posts -> 0..ChanCap]
    BY <2>1
  <2>3. {file, span, info} \subseteq SUBSET (Posts \X {1, 2})
    OBVIOUS
  <2> QED BY <2>2, <2>3 DEF TypeOK
<1>2. WriterInv /\ PhaseInv /\ ErrInv
  BY DEF WriterInv, PhaseInv, ErrInv
<1>3. WarnInv
  BY DEF WarnInv, Underway
<1>4. ContentInv /\ ResultInv /\ StoreInv /\ AbortInv /\ MetaInv
  BY DEF ContentInv, ResultInv, StoreInv, AbortInv, MetaInv, PcapSurvives
<1> QED BY <1>1, <1>2, <1>3, <1>4 DEF IngestInv

\* The steps of a handler (handleLogPost, handlePcapPost), of its client and of
\* the analyzers keep IngestInv.
LEMMA IngestHandler ==
  ASSUME IngestInv, NEW o \in Posts, PostLog(o) \/ PostPcap(o) \/ Refuse(o) \/ Handler(o) \/ ClientLeaves(o)
         \/ AnalyzersEnd(o)
  PROVE  IngestInv'
<1> USE DEF IngestInv
<1>1. CASE PostLog(o)
  <2> USE <1>1 DEF PostLog
  <2>1. TypeOK'
    BY DEF TypeOK
  <2>2. WriterInv'
    BY DEF TypeOK, WriterInv, PhaseInv
  <2>3. PhaseInv'
    BY DEF TypeOK, PhaseInv, ErrInv
  <2>4. ErrInv'
    BY DEF TypeOK, ErrInv, PhaseInv
  <2>5. WarnInv'
    BY DEF TypeOK, WarnInv, Underway, PhaseInv
  <2>6. ContentInv'
    BY RecordsOf DEF TypeOK, ContentInv, PhaseInv
  <2>7. ResultInv'
    BY DEF TypeOK, ResultInv, PhaseInv, ErrInv, ContentInv
  <2>8. StoreInv'
    BY DEF TypeOK, StoreInv, WriterInv, PhaseInv, ContentInv
  <2>9. AbortInv'
    BY RecordsOf DEF TypeOK, AbortInv, PhaseInv, ErrInv, ContentInv
  <2>10. MetaInv'
    BY DEF TypeOK, MetaInv, PcapSurvives, PhaseInv
  <2> QED BY <2>1, <2>2, <2>3, <2>4, <2>5, <2>6, <2>7, <2>8, <2>9, <2>10
<1>2. CASE PostPcap(o)
  <2> USE <1>2 DEF PostPcap
  <2>1. TypeOK'
    BY DEF TypeOK
  <2>2. WriterInv'
    BY DEF TypeOK, WriterInv, PhaseInv
  <2>3. PhaseInv'
    BY DEF TypeOK, PhaseInv, ErrInv
  <2>4. ErrInv'
    BY DEF TypeOK, ErrInv, PhaseInv
  <2>5. WarnInv'
    BY DEF TypeOK, WarnInv, Underway, PhaseInv
  <2>6. ContentInv'
    BY RecordsOf DEF TypeOK, ContentInv, PhaseInv
  <2>7. ResultInv'
    BY DEF TypeOK, ResultInv, PhaseInv, ErrInv, ContentInv
  <2>8. StoreInv'
    BY DEF TypeOK, StoreInv, WriterInv, PhaseInv, ContentInv
  <2>9. AbortInv'
    BY RecordsOf DEF TypeOK, AbortInv, PhaseInv, ErrInv, ContentInv
  <2>10. MetaInv'
    BY DEF TypeOK, MetaInv, PcapSurvives, PhaseInv
  <2> QED BY <2>1, <2>2, <2>3, <2>4, <2>5, <2>6, <2>7, <2>8, <2>9, <2>10
<1>3. CASE Refuse(o)
  <2> USE <1>3 DEF Refuse
  <2>1. TypeOK'
    BY DEF TypeOK
  <2>2. WriterInv'
    BY DEF TypeOK, WriterInv, PhaseInv
  <2>3. PhaseInv'
    BY DEF TypeOK, PhaseInv, ErrInv
  <2>4. ErrInv'
    BY DEF TypeOK, ErrInv, PhaseInv
  <2>5. WarnInv'
    BY DEF TypeOK, WarnInv, Underway, PhaseInv
  <2>6. ContentInv'
    BY RecordsOf DEF TypeOK, ContentInv, PhaseInv
  <2>7. ResultInv'
    BY DEF TypeOK, ResultInv, PhaseInv, ErrInv, ContentInv
  <2>8. StoreInv'
    BY DEF TypeOK, StoreInv, WriterInv, PhaseInv, ContentInv
  <2>9. AbortInv'
    BY RecordsOf DEF TypeOK, AbortInv, PhaseInv, ErrInv, ContentInv
  <2>10. MetaInv'
    BY DEF TypeOK, MetaInv, PcapSurvives, PhaseInv
  <2> QED BY <2>1, <2>2, <2>3, <2>4, <2>5, <2>6, <2>7, <2>8, <2>9, <2>10
<1>4. CASE UpdatePcap(o)
  <2> USE <1>4 DEF UpdatePcap, Replace
  <2>1. TypeOK'
    <3>1. meta' \in PcapPosts \cup {Nil} /\ pcapJson' \in PcapPosts \cup {Nil}
      BY DEF TypeOK, PhaseInv
    <3>2. kept' \subseteq PcapPosts \X {"pcap.json", "all.zng"}
      BY DEF TypeOK, PhaseInv
    <3> QED BY <3>1, <3>2 DEF TypeOK
  <2>2. WriterInv'
    BY DEF TypeOK, WriterInv, PhaseInv
  <2>3. PhaseInv'
    BY DEF TypeOK, PhaseInv, ErrInv
  <2>4. ErrInv'
    BY DEF TypeOK, ErrInv, PhaseInv
  <2>5. WarnInv'
    BY DEF TypeOK, WarnInv, Underway, PhaseInv
  <2>6. ContentInv'
    BY RecordsOf DEF TypeOK, ContentInv, PhaseInv
  <2>7. ResultInv'
    BY DEF TypeOK, ResultInv, PhaseInv, ErrInv, ContentInv
  <2>8. StoreInv'
    BY DEF TypeOK, StoreInv, WriterInv, PhaseInv, ContentInv
  <2>9. AbortInv'
    BY RecordsOf DEF TypeOK, AbortInv, PhaseInv, ErrInv, ContentInv
  <2>10. MetaInv'
    BY DEF TypeOK, MetaInv, PcapSurvives, PhaseInv
  <2> QED BY <2>1, <2>2, <2>3, <2>4, <2>5, <2>6, <2>7, <2>8, <2>9, <2>10
<1>5. CASE RefuseUpdated(o)
  <2> USE <1>5 DEF RefuseUpdated, Replace
  <2>1. TypeOK'
    <3>1. meta' \in PcapPosts \cup {Nil} /\ pcapJson' \in PcapPosts \cup {Nil}
      BY DEF TypeOK, PhaseInv
    <3>2. kept' \subseteq PcapPosts \X {"pcap.json", "all.zng"}
      BY DEF TypeOK, PhaseInv
    <3> QED BY <3>1, <3>2 DEF TypeOK
  <2>2. WriterInv'
    BY DEF TypeOK, WriterInv, PhaseInv
  <2>3. PhaseInv'
    BY DEF TypeOK, PhaseInv, ErrInv
  <2>4. ErrInv'
    BY DEF TypeOK, ErrInv, PhaseInv
  <2>5. WarnInv'
    BY DEF TypeOK, WarnInv, Underway, PhaseInv
  <2>6. ContentInv'
    BY RecordsOf DEF TypeOK, ContentInv, PhaseInv
  <2>7. ResultInv'
    BY DEF TypeOK, ResultInv, PhaseInv, ErrInv, ContentInv
  <2>8. StoreInv'
    BY DEF TypeOK, StoreInv, WriterInv, PhaseInv, ContentInv
  <2>9. AbortInv'
    BY RecordsOf DEF TypeOK, AbortInv, PhaseInv, ErrInv, ContentInv
  <2>10. MetaInv'
    BY DEF TypeOK, MetaInv, PcapSurvives, PhaseInv
  <2> QED BY <2>1, <2>2, <2>3, <2>4, <2>5, <2>6, <2>7, <2>8, <2>9, <2>10
<1>6. CASE ForwardWarning(o)
  <2> USE <1>6 DEF ForwardWarning
  <2>1. TypeOK'
    BY DEF TypeOK, WarnInv, Underway
  <2>2. WriterInv'
    BY DEF TypeOK, WriterInv, PhaseInv
  <2>3. PhaseInv'
    BY DEF TypeOK, PhaseInv, ErrInv
  <2>4. ErrInv'
    BY DEF TypeOK, ErrInv, PhaseInv
  <2>5. WarnInv'
    <3>1. Underway(o) \in Nat /\ delivered[o] \in Nat /\ raised[o] \in Nat
      BY DEF TypeOK, Underway
    <3>2. /\ delivered'[o] + Underway(o)' = delivered[o] + Underway(o)
          /\ raised'[o] = raised[o]
      BY DEF TypeOK, Underway, PhaseInv
    <3>3. \A p \in Posts \ {o} :
            UNCHANGED <<delivered[p], Underway(p), raised[p], toWarn[p], ch[p], hpc[p],
                        ended[p], opc[p]>>
      BY DEF TypeOK, Underway
    <3>4. /\ opc'[o] # "warn" => toWarn'[o] = 0
          /\ ended'[o] # "none" => ch'[o] = 0
          /\ opc'[o] = "off" => raised'[o] = 0 /\ delivered'[o] = 0
      BY DEF TypeOK, WarnInv, PhaseInv
    <3>5. /\ delivered[o] + Underway(o) <= raised[o]
          /\ hpc'[o] = "loop" \/ ended'[o] # "none" =>
               delivered[o] + Underway(o) = raised[o]
      BY DEF TypeOK, WarnInv
    <3>6. ASSUME NEW p \in Posts
          PROVE  /\ delivered'[p] + Underway(p)' <= raised'[p]
                 /\ hpc'[p] = "loop" \/ ended'[p] # "none" =>
                      delivered'[p] + Underway(p)' = raised'[p]
                 /\ opc'[p] # "warn" => toWarn'[p] = 0
                 /\ ended'[p] # "none" => ch'[p] = 0
                 /\ opc'[p] = "off" => raised'[p] = 0 /\ delivered'[p] = 0
      <4>1. CASE p = o
        BY <4>1, <3>2, <3>4, <3>5
      <4>2. CASE p # o
        <5> HIDE <1>6
        <5> QED BY <4>2, <3>3 DEF WarnInv
      <4> QED BY <4>1, <4>2
    <3> QED BY <3>6 DEF WarnInv
  <2>6. ContentInv'
    BY RecordsOf DEF TypeOK, ContentInv, PhaseInv
  <2>7. ResultInv'
    BY DEF TypeOK, ResultInv, PhaseInv, ErrInv, ContentInv
  <2>8. StoreInv'
    BY DEF TypeOK, StoreInv, WriterInv, PhaseInv, ContentInv
  <2>9. AbortInv'
    BY RecordsOf DEF TypeOK, AbortInv, PhaseInv, ErrInv, ContentInv
  <2>10. MetaInv'
    BY DEF TypeOK, MetaInv, PcapSurvives, PhaseInv
  <2> QED BY <2>1, <2>2, <2>3, <2>4, <2>5, <2>6, <2>7, <2>8, <2>9, <2>10
<1>7. CASE SendFails(o)
  <2> USE <1>7 DEF SendFails
  <2>1. TypeOK'
    <3>1. ch' \in [Posts -> 0..ChanCap]
      BY DEF TypeOK
    <3>2. hpc' \in [Posts -> HandlerPCs] /\ registered' \subseteq Posts
      BY DEF TypeOK
    <3> QED BY <3>1, <3>2 DEF TypeOK
  <2>2. WriterInv'
    BY DEF TypeOK, WriterInv, PhaseInv
  <2>3. PhaseInv'
    BY DEF TypeOK, PhaseInv, ErrInv
  <2>4. ErrInv'
    BY DEF TypeOK, ErrInv, PhaseInv
  <2>5. WarnInv'
    BY DEF TypeOK, WarnInv, Underway, PhaseInv
  <2>6. ContentInv'
    BY RecordsOf DEF TypeOK, ContentInv, PhaseInv
  <2>7. ResultInv'
    BY DEF TypeOK, ResultInv, PhaseInv, ErrInv, ContentInv
  <2>8. StoreInv'
    BY DEF TypeOK, StoreInv, WriterInv, PhaseInv, ContentInv
  <2>9. AbortInv'
    BY RecordsOf DEF TypeOK, AbortInv, PhaseInv, ErrInv, ContentInv
  <2>10. MetaInv'
    BY DEF TypeOK, MetaInv, PcapSurvives, PhaseInv
  <2> QED BY <2>1, <2>2, <2>3, <2>4, <2>5, <2>6, <2>7, <2>8, <2>9, <2>10
<1>8. CASE SendEnd(o)
  <2> USE <1>8 DEF SendEnd, OpOver, Result
  <2>1. TypeOK'
    BY DEF TypeOK
  <2>2. WriterInv'
    BY DEF TypeOK, WriterInv, PhaseInv
  <2>3. PhaseInv'
    BY DEF TypeOK, PhaseInv, ErrInv
  <2>4. ErrInv'
    BY DEF TypeOK, ErrInv, PhaseInv
  <2>5. WarnInv'
    BY DEF TypeOK, WarnInv, Underway, PhaseInv
  <2>6. ContentInv'
    BY RecordsOf DEF TypeOK, ContentInv, PhaseInv
  <2>7. ResultInv'
    BY DEF TypeOK, ResultInv, PhaseInv, ErrInv, ContentInv
  <2>8. StoreInv'
    BY DEF TypeOK, StoreInv, WriterInv, PhaseInv, ContentInv
  <2>9. AbortInv'
    BY RecordsOf DEF TypeOK, AbortInv, PhaseInv, ErrInv, ContentInv
  <2>10. MetaInv'
    BY DEF TypeOK, MetaInv, PcapSurvives, PhaseInv
  <2> QED BY <2>1, <2>2, <2>3, <2>4, <2>5, <2>6, <2>7, <2>8, <2>9, <2>10
<1>9. CASE ClientLeaves(o)
  <2> USE <1>9 DEF ClientLeaves
  <2>1. TypeOK'
    BY DEF TypeOK
  <2>2. WriterInv'
    BY DEF TypeOK, WriterInv, PhaseInv
  <2>3. PhaseInv'
    BY DEF TypeOK, PhaseInv, ErrInv
  <2>4. ErrInv'
    BY DEF TypeOK, ErrInv, PhaseInv
  <2>5. WarnInv'
    BY DEF TypeOK, WarnInv, Underway, PhaseInv
  <2>6. ContentInv'
    BY RecordsOf DEF TypeOK, ContentInv, PhaseInv
  <2>7. ResultInv'
    BY DEF TypeOK, ResultInv, PhaseInv, ErrInv, ContentInv
  <2>8. StoreInv'
    BY DEF TypeOK, StoreInv, WriterInv, PhaseInv, ContentInv
  <2>9. AbortInv'
    BY RecordsOf DEF TypeOK, AbortInv, PhaseInv, ErrInv, ContentInv
  <2>10. MetaInv'
    BY DEF TypeOK, MetaInv, PcapSurvives, PhaseInv
  <2> QED BY <2>1, <2>2, <2>3, <2>4, <2>5, <2>6, <2>7, <2>8, <2>9, <2>10
<1>10. CASE AnalyzersEnd(o)
  <2> USE <1>10 DEF AnalyzersEnd
  <2>1. TypeOK'
    BY DEF TypeOK
  <2>2. WriterInv'
    BY DEF TypeOK, WriterInv, PhaseInv
  <2>3. PhaseInv'
    BY DEF TypeOK, PhaseInv, ErrInv
  <2>4. ErrInv'
    BY DEF TypeOK, ErrInv, PhaseInv
  <2>5. WarnInv'
    BY DEF TypeOK, WarnInv, Underway, PhaseInv
  <2>6. ContentInv'
    BY RecordsOf DEF TypeOK, ContentInv, PhaseInv
  <2>7. ResultInv'
    BY DEF TypeOK, ResultInv, PhaseInv, ErrInv, ContentInv
  <2>8. StoreInv'
    BY DEF TypeOK, StoreInv, WriterInv, PhaseInv, ContentInv
  <2>9. AbortInv'
    BY RecordsOf DEF TypeOK, AbortInv, PhaseInv, ErrInv, ContentInv
  <2>10. MetaInv'
    BY DEF TypeOK, MetaInv, PcapSurvives, PhaseInv
  <2> QED BY <2>1, <2>2, <2>3, <2>4, <2>5, <2>6, <2>7, <2>8, <2>9, <2>10
<1> QED BY <1>1, <1>2, <1>3, <1>4, <1>5, <1>6, <1>7, <1>8, <1>9, <1>10 DEF Handler

\* The steps of LogOp.start keep IngestInv.
LEMMA IngestLog ==
  ASSUME IngestInv, NEW o \in Posts, LogStep(o)
  PROVE  IngestInv'
<1> USE DEF IngestInv
<1>1. CASE SendOpenWarning(o)
  <2> USE <1>1 DEF SendOpenWarning, HasRoom
  <2>1. TypeOK'
    BY DEF TypeOK
  <2>2. WriterInv'
    BY DEF TypeOK, WriterInv, PhaseInv
  <2>3. PhaseInv'
    BY DEF TypeOK, PhaseInv, ErrInv
  <2>4. ErrInv'
    BY DEF TypeOK, ErrInv, PhaseInv
  <2>5. WarnInv'
    <3>1. Underway(o) \in Nat /\ delivered[o] \in Nat /\ raised[o] \in Nat
      BY DEF TypeOK, Underway
    <3>2. /\ delivered'[o] + Underway(o)' = delivered[o] + Underway(o)
          /\ raised'[o] = raised[o]
      BY DEF TypeOK, Underway, PhaseInv
    <3>3. \A p \in Posts \ {o} :
            UNCHANGED <<delivered[p], Underway(p), raised[p], toWarn[p], ch[p], hpc[p],
                        ended[p], opc[p]>>
      BY DEF TypeOK, Underway
    <3>4. /\ opc'[o] # "warn" => toWarn'[o] = 0
          /\ ended'[o] # "none" => ch'[o] = 0
          /\ opc'[o] = "off" => raised'[o] = 0 /\ delivered'[o] = 0
      BY DEF TypeOK, WarnInv, PhaseInv
    <3>5. /\ delivered[o] + Underway(o) <= raised[o]
          /\ hpc'[o] = "loop" \/ ended'[o] # "none" =>
               delivered[o] + Underway(o) = raised[o]
      BY DEF TypeOK, WarnInv
    <3>6. ASSUME NEW p \in Posts
          PROVE  /\ delivered'[p] + Underway(p)' <= raised'[p]
                 /\ hpc'[p] = "loop" \/ ended'[p] # "none" =>
                      delivered'[p] + Underway(p)' = raised'[p]
                 /\ opc'[p] # "warn" => toWarn'[p] = 0
                 /\ ended'[p] # "none" => ch'[p] = 0
                 /\ opc'[p] = "off" => raised'[p] = 0 /\ delivered'[p] = 0
      <4>1. CASE p = o
        BY <4>1, <3>2, <3>4, <3>5
      <4>2. CASE p # o
        <5> HIDE <1>1
        <5> QED BY <4>2, <3>3 DEF WarnInv
      <4> QED BY <4>1, <4>2
    <3> QED BY <3>6 DEF WarnInv
  <2>6. ContentInv'
    BY RecordsOf DEF TypeOK, ContentInv, PhaseInv
  <2>7. ResultInv'
    BY DEF TypeOK, ResultInv, PhaseInv, ErrInv, ContentInv
  <2>8. StoreInv'
    BY DEF TypeOK, StoreInv, WriterInv, PhaseInv, ContentInv
  <2>9. AbortInv'
    BY RecordsOf DEF TypeOK, AbortInv, PhaseInv, ErrInv, ContentInv
  <2>10. MetaInv'
    BY DEF TypeOK, MetaInv, PcapSurvives, PhaseInv
  <2> QED BY <2>1, <2>2, <2>3, <2>4, <2>5, <2>6, <2>7, <2>8, <2>9, <2>10
<1>2. CASE StartWrite(o)
  <2> USE <1>2 DEF StartWrite
  <2>1. TypeOK'
    BY RecordsOf DEF TypeOK
  <2>2. WriterInv'
    BY DEF TypeOK, WriterInv, PhaseInv
  <2>3. PhaseInv'
    BY DEF TypeOK, PhaseInv, ErrInv
  <2>4. ErrInv'
    BY DEF TypeOK, ErrInv, PhaseInv
  <2>5. WarnInv'
    BY DEF TypeOK, WarnInv, Underway, PhaseInv
  <2>6. ContentInv'
    BY RecordsOf DEF TypeOK, ContentInv, PhaseInv
  <2>7. ResultInv'
    BY DEF TypeOK, ResultInv, PhaseInv, ErrInv, ContentInv
  <2>8. StoreInv'
    BY DEF TypeOK, StoreInv, WriterInv, PhaseInv, ContentInv
  <2>9. AbortInv'
    BY RecordsOf DEF TypeOK, AbortInv, PhaseInv, ErrInv, ContentInv
  <2>10. MetaInv'
    BY DEF TypeOK, MetaInv, PcapSurvives, PhaseInv
  <2> QED BY <2>1, <2>2, <2>3, <2>4, <2>5, <2>6, <2>7, <2>8, <2>9, <2>10
<1>3. CASE CloseLog(o)
  <2> USE <1>3 DEF CloseLog
  <2>1. TypeOK'
    BY DEF TypeOK
  <2>2. WriterInv'
    BY DEF TypeOK, WriterInv, PhaseInv
  <2>3. PhaseInv'
    BY DEF TypeOK, PhaseInv, ErrInv
  <2>4. ErrInv'
    BY DEF TypeOK, ErrInv, PhaseInv
  <2>5. WarnInv'
    BY DEF TypeOK, WarnInv, Underway, PhaseInv
  <2>6. ContentInv'
    BY RecordsOf DEF TypeOK, ContentInv, PhaseInv
  <2>7. ResultInv'
    BY DEF TypeOK, ResultInv, PhaseInv, ErrInv, ContentInv
  <2>8. StoreInv'
    BY DEF TypeOK, StoreInv, WriterInv, PhaseInv, ContentInv
  <2>9. AbortInv'
    BY RecordsOf DEF TypeOK, AbortInv, PhaseInv, ErrInv, ContentInv
  <2>10. MetaInv'
    BY DEF TypeOK, MetaInv, PcapSurvives, PhaseInv
  <2> QED BY <2>1, <2>2, <2>3, <2>4, <2>5, <2>6, <2>7, <2>8, <2>9, <2>10
<1> QED BY <1>1, <1>2, <1>3 DEF LogStep

\* The steps of PcapOp.run keep IngestInv.
LEMMA IngestPcap ==
  ASSUME IngestInv, NEW o \in Posts, PcapStep(o)
  PROVE  IngestInv'
<1> USE DEF IngestInv
<1>1. CASE Tick(o)
  <2> USE <1>1 DEF Tick
  <2>1. TypeOK'
    BY RecordsOf DEF TypeOK
  <2>2. WriterInv'
    BY DEF TypeOK, WriterInv, PhaseInv
  <2>3. PhaseInv'
    BY DEF TypeOK, PhaseInv, ErrInv
  <2>4. ErrInv'
    BY DEF TypeOK, ErrInv, PhaseInv
  <2>5. WarnInv'
    BY DEF TypeOK, WarnInv, Underway, PhaseInv
  <2>6. ContentInv'
    BY RecordsOf DEF TypeOK, ContentInv, PhaseInv
  <2>7. ResultInv'
    BY DEF TypeOK, ResultInv, PhaseInv, ErrInv, ContentInv
  <2>8. StoreInv'
    BY DEF TypeOK, StoreInv, WriterInv, PhaseInv, ContentInv
  <2>9. AbortInv'
    BY RecordsOf DEF TypeOK, AbortInv, PhaseInv, ErrInv, ContentInv
  <2>10. MetaInv'
    BY DEF TypeOK, MetaInv, PcapSurvives, PhaseInv
  <2> QED BY <2>1, <2>2, <2>3, <2>4, <2>5, <2>6, <2>7, <2>8, <2>9, <2>10
<1>2. CASE SlurpDone(o)
  <2> USE <1>2 DEF SlurpDone
  <2>1. TypeOK'
    BY RecordsOf DEF TypeOK, PhaseInv
  <2>2. WriterInv'
    BY DEF TypeOK, WriterInv, PhaseInv
  <2>3. PhaseInv'
    BY DEF TypeOK, PhaseInv, ErrInv
  <2>4. ErrInv'
    BY DEF TypeOK, ErrInv, PhaseInv
  <2>5. WarnInv'
    <3>1. Underway(o) \in Nat /\ delivered[o] \in Nat /\ raised[o] \in Nat
      BY DEF TypeOK, Underway
    <3>2. /\ delivered'[o] + Underway(o)' = delivered[o] + Underway(o)
          /\ raised'[o] = raised[o]
      BY DEF TypeOK, Underway, PhaseInv
    <3>3. \A p \in Posts \ {o} :
            UNCHANGED <<delivered[p], Underway(p), raised[p], toWarn[p], ch[p], hpc[p],
                        ended[p], opc[p]>>
      BY DEF TypeOK, Underway
    <3>4. /\ opc'[o] # "warn" => toWarn'[o] = 0
          /\ ended'[o] # "none" => ch'[o] = 0
          /\ opc'[o] = "off" => raised'[o] = 0 /\ delivered'[o] = 0
      BY DEF TypeOK, WarnInv, PhaseInv
    <3>5. /\ delivered[o] + Underway(o) <= raised[o]
          /\ hpc'[o] = "loop" \/ ended'[o] # "none" =>
               delivered[o] + Underway(o) = raised[o]
      BY DEF TypeOK, WarnInv
    <3>6. ASSUME NEW p \in Posts
          PROVE  /\ delivered'[p] + Underway(p)' <= raised'[p]
                 /\ hpc'[p] = "loop" \/ ended'[p] # "none" =>
                      delivered'[p] + Underway(p)' = raised'[p]
                 /\ opc'[p] # "warn" => toWarn'[p] = 0
                 /\ ended'[p] # "none" => ch'[p] = 0
                 /\ opc'[p] = "off" => raised'[p] = 0 /\ delivered'[p] = 0
      <4>1. CASE p = o
        BY <4>1, <3>2, <3>4, <3>5
      <4>2. CASE p # o
        <5> HIDE <1>2
        <5> QED BY <4>2, <3>3 DEF WarnInv
      <4> QED BY <4>1, <4>2
    <3> QED BY <3>6 DEF WarnInv
  <2>6. ContentInv'
    BY RecordsOf DEF TypeOK, ContentInv, PhaseInv
  <2>7. ResultInv'
    BY DEF TypeOK, ResultInv, PhaseInv, ErrInv, ContentInv
  <2>8. StoreInv'
    BY DEF TypeOK, StoreInv, WriterInv, PhaseInv, ContentInv
  <2>9. AbortInv'
    <3> SUFFICES ASSUME NEW p \in PcapPosts
                 PROVE  /\ opc'[p] \in {"clear", "closed"} /\ opErr'[p] # "none" =>
                             /\ meta' # p
                             /\ pcapJson' = p => <<p, "pcap.json">> \in kept'
                        /\ opc'[p] = "closed" /\ opErr'[p] # "none" =>
                             (file' \cap Records(p) # {} => <<p, "all.zng">> \in kept')
      BY DEF AbortInv
    <3>1. CASE p = o
      BY <3>1 DEF TypeOK, AbortInv, PhaseInv, ErrInv
    <3>2. CASE p # o
      BY <3>2, RecordsOf DEF TypeOK, AbortInv, PhaseInv, ErrInv, ContentInv
    <3> QED BY <3>1, <3>2
  <2>10. MetaInv'
    BY DEF TypeOK, MetaInv, PcapSurvives, PhaseInv
  <2> QED BY <2>1, <2>2, <2>3, <2>4, <2>5, <2>6, <2>7, <2>8, <2>9, <2>10
<1>3. CASE CleanupFails(o)
  <2> USE <1>3 DEF CleanupFails
  <2>1. TypeOK'
    BY DEF TypeOK
  <2>2. WriterInv'
    BY DEF TypeOK, WriterInv, PhaseInv
  <2>3. PhaseInv'
    BY DEF TypeOK, PhaseInv, ErrInv
  <2>4. ErrInv'
    BY DEF TypeOK, ErrInv, PhaseInv
  <2>5. WarnInv'
    BY DEF TypeOK, WarnInv, Underway, PhaseInv
  <2>6. ContentInv'
    BY RecordsOf DEF TypeOK, ContentInv, PhaseInv
  <2>7. ResultInv'
    BY DEF TypeOK, ResultInv, PhaseInv, ErrInv, ContentInv
  <2>8. StoreInv'
    BY DEF TypeOK, StoreInv, WriterInv, PhaseInv, ContentInv
  <2>9. AbortInv'
    BY RecordsOf DEF TypeOK, AbortInv, PhaseInv, ErrInv, ContentInv
  <2>10. MetaInv'
    BY DEF TypeOK, MetaInv, PcapSurvives, PhaseInv
  <2> QED BY <2>1, <2>2, <2>3, <2>4, <2>5, <2>6, <2>7, <2>8, <2>9, <2>10
<1>4. CASE Cleanup(o)
  <2> USE <1>4 DEF Cleanup
  <2>1. TypeOK'
    BY DEF TypeOK
  <2>2. WriterInv'
    BY DEF TypeOK, WriterInv, PhaseInv
  <2>3. PhaseInv'
    BY DEF TypeOK, PhaseInv, ErrInv
  <2>4. ErrInv'
    BY DEF TypeOK, ErrInv, PhaseInv
  <2>5. WarnInv'
    BY DEF TypeOK, WarnInv, Underway, PhaseInv
  <2>6. ContentInv'
    BY RecordsOf DEF TypeOK, ContentInv, PhaseInv
  <2>7. ResultInv'
    BY DEF TypeOK, ResultInv, PhaseInv, ErrInv, ContentInv
  <2>8. StoreInv'
    BY DEF TypeOK, StoreInv, WriterInv, PhaseInv, ContentInv
  <2>9. AbortInv'
    BY RecordsOf DEF TypeOK, AbortInv, PhaseInv, ErrInv, ContentInv
  <2>10. MetaInv'
    BY DEF TypeOK, MetaInv, PcapSurvives, PhaseInv
  <2> QED BY <2>1, <2>2, <2>3, <2>4, <2>5, <2>6, <2>7, <2>8, <2>9, <2>10
<1>5. CASE AbortMeta(o)
  <2> USE <1>5 DEF AbortMeta
  <2>1. TypeOK'
    <3>1. meta' \in PcapPosts \cup {Nil} /\ pcapJson' \in PcapPosts \cup {Nil}
      BY DEF TypeOK, PhaseInv
    <3>2. kept' \subseteq PcapPosts \X {"pcap.json", "all.zng"}
      BY DEF TypeOK, PhaseInv
    <3> QED BY <3>1, <3>2 DEF TypeOK
  <2>2. WriterInv'
    BY DEF TypeOK, WriterInv, PhaseInv
  <2>3. PhaseInv'
    BY DEF TypeOK, PhaseInv, ErrInv
  <2>4. ErrInv'
    BY DEF TypeOK, ErrInv, PhaseInv
  <2>5. WarnInv'
    BY DEF TypeOK, WarnInv, Underway, PhaseInv
  <2>6. ContentInv'
    BY RecordsOf DEF TypeOK, ContentInv, PhaseInv
  <2>7. ResultInv'
    BY DEF TypeOK, ResultInv, PhaseInv, ErrInv, ContentInv
  <2>8. StoreInv'
    BY DEF TypeOK, StoreInv, WriterInv, PhaseInv, ContentInv
  <2>9. AbortInv'
    <3> SUFFICES ASSUME NEW p \in PcapPosts
                 PROVE  /\ opc'[p] \in {"clear", "closed"} /\ opErr'[p] # "none" =>
                             /\ meta' # p
                             /\ pcapJson' = p => <<p, "pcap.json">> \in kept'
                        /\ opc'[p] = "closed" /\ opErr'[p] # "none" =>
                             (file' \cap Records(p) # {} => <<p, "all.zng">> \in kept')
      BY DEF AbortInv
    <3>1. CASE p = o
      BY <3>1 DEF TypeOK, AbortInv, PhaseInv, ErrInv
    <3>2. CASE p # o
      BY <3>2, RecordsOf DEF TypeOK, AbortInv, PhaseInv, ErrInv, ContentInv
    <3> QED BY <3>1, <3>2
  <2>10. MetaInv'
    BY DEF TypeOK, MetaInv, PcapSurvives, PhaseInv
  <2> QED BY <2>1, <2>2, <2>3, <2>4, <2>5, <2>6, <2>7, <2>8, <2>9, <2>10
<1>6. CASE Clear(o)
  <2> USE <1>6 DEF Clear, EmptyStore
  <2>1. TypeOK'
    BY DEF TypeOK
  <2>2. WriterInv'
    BY DEF TypeOK, WriterInv, PhaseInv
  <2>3. PhaseInv'
    BY DEF TypeOK, PhaseInv, ErrInv
  <2>4. ErrInv'
    BY DEF TypeOK, ErrInv, PhaseInv
  <2>5. WarnInv'
    BY DEF TypeOK, WarnInv, Underway, PhaseInv
  <2>6. ContentInv'
    BY RecordsOf DEF TypeOK, ContentInv, PhaseInv
  <2>7. ResultInv'
    BY DEF TypeOK, ResultInv, PhaseInv, ErrInv, ContentInv
  <2>8. StoreInv'
    BY DEF TypeOK, StoreInv, WriterInv, PhaseInv, ContentInv
  <2>9. AbortInv'
    <3> SUFFICES ASSUME NEW p \in PcapPosts
                 PROVE  /\ opc'[p] \in {"clear", "closed"} /\ opErr'[p] # "none" =>
                             /\ meta' # p
                             /\ pcapJson' = p => <<p, "pcap.json">> \in kept'
                        /\ opc'[p] = "closed" /\ opErr'[p] # "none" =>
                             (file' \cap Records(p) # {} => <<p, "all.zng">> \in kept')
      BY DEF AbortInv
    <3>1. CASE p = o
      BY <3>1 DEF TypeOK, AbortInv, PhaseInv, ErrInv
    <3>2. CASE p # o
      <4>1. opc'[p] = opc[p] /\ file' = {} /\ UNCHANGED <<opErr, meta, pcapJson, kept>>
        BY <3>2 DEF TypeOK
      <4> QED BY <4>1 DEF AbortInv
    <3> QED BY <3>1, <3>2
  <2>10. MetaInv'
    BY DEF TypeOK, MetaInv, PcapSurvives, PhaseInv
  <2> QED BY <2>1, <2>2, <2>3, <2>4, <2>5, <2>6, <2>7, <2>8, <2>9, <2>10
<1>7. CASE ClearFails(o)
  <2> USE <1>7 DEF ClearFails
  <2>1. TypeOK'
    <3>1. /\ file' \in SUBSET (Posts \X {1, 2}) /\ span' \in SUBSET (Posts \X {1, 2})
          /\ info' \in SUBSET (Posts \X {1, 2})
      BY DEF TypeOK
    <3>2. torn' \in BOOLEAN /\ opErr' \in [Posts -> Errs] /\ opc' \in [Posts -> OpPCs]
      BY DEF TypeOK
    <3>3. kept' \subseteq PcapPosts \X {"pcap.json", "all.zng"}
      BY DEF TypeOK, PhaseInv
    <3> QED BY <3>1, <3>2, <3>3 DEF TypeOK
  <2>2. WriterInv'
    BY DEF TypeOK, WriterInv, PhaseInv
  <2>3. PhaseInv'
    BY DEF TypeOK, PhaseInv, ErrInv
  <2>4. ErrInv'
    BY DEF TypeOK, ErrInv, PhaseInv
  <2>5. WarnInv'
    BY DEF TypeOK, WarnInv, Underway, PhaseInv
  <2>6. ContentInv'
    BY RecordsOf DEF TypeOK, ContentInv, PhaseInv
  <2>7. ResultInv'
    BY DEF TypeOK, ResultInv, PhaseInv, ErrInv, ContentInv
  <2>8. StoreInv'
    BY DEF TypeOK, StoreInv, WriterInv, PhaseInv, ContentInv
  <2>9. AbortInv'
    <3> SUFFICES ASSUME NEW p \in PcapPosts
                 PROVE  /\ opc'[p] \in {"clear", "closed"} /\ opErr'[p] # "none" =>
                             /\ meta' # p
                             /\ pcapJson' = p => <<p, "pcap.json">> \in kept'
                        /\ opc'[p] = "closed" /\ opErr'[p] # "none" =>
                             (file' \cap Records(p) # {} => <<p, "all.zng">> \in kept')
      BY DEF AbortInv
    <3>1. CASE p = o
      BY <3>1 DEF TypeOK, AbortInv, PhaseInv, ErrInv
    <3>2. CASE p # o
      BY <3>2, RecordsOf DEF TypeOK, AbortInv, PhaseInv, ErrInv, ContentInv
    <3> QED BY <3>1, <3>2
  <2>10. MetaInv'
    BY DEF TypeOK, MetaInv, PcapSurvives, PhaseInv
  <2> QED BY <2>1, <2>2, <2>3, <2>4, <2>5, <2>6, <2>7, <2>8, <2>9, <2>10
<1> QED BY <1>1, <1>2, <1>3, <1>4, <1>5, <1>6, <1>7 DEF PcapStep

\* The steps of filestore.Storage.Write keep IngestInv.
LEMMA IngestWrite ==
  ASSUME IngestInv, NEW o \in Posts, WriteStep(o)
  PROVE  IngestInv'
<1> USE DEF IngestInv
<1>1. CASE TryAcquire(o)
  <2> USE <1>1 DEF TryAcquire, FreeSem
  <2>1. TypeOK'
    BY DEF TypeOK
  <2>2. WriterInv'
    BY DEF TypeOK, WriterInv, PhaseInv
  <2>3. PhaseInv'
    BY DEF TypeOK, PhaseInv, ErrInv
  <2>4. ErrInv'
    BY DEF TypeOK, ErrInv, PhaseInv
  <2>5. WarnInv'
    BY DEF TypeOK, WarnInv, Underway, PhaseInv
  <2>6. ContentInv'
    BY RecordsOf DEF TypeOK, ContentInv, PhaseInv
  <2>7. ResultInv'
    BY DEF TypeOK, ResultInv, PhaseInv, ErrInv, ContentInv
  <2>8. StoreInv'
    BY DEF TypeOK, StoreInv, WriterInv, PhaseInv, ContentInv
  <2>9. AbortInv'
    BY RecordsOf DEF TypeOK, AbortInv, PhaseInv, ErrInv, ContentInv
  <2>10. MetaInv'
    BY DEF TypeOK, MetaInv, PcapSurvives, PhaseInv
  <2> QED BY <2>1, <2>2, <2>3, <2>4, <2>5, <2>6, <2>7, <2>8, <2>9, <2>10
<1>2. CASE Conflict(o)
  <2> USE <1>2 DEF Conflict, AfterError
  <2>1. TypeOK'
    BY DEF TypeOK
  <2>2. WriterInv'
    BY DEF TypeOK, WriterInv, PhaseInv
  <2>3. PhaseInv'
    BY DEF TypeOK, PhaseInv, ErrInv
  <2>4. ErrInv'
    BY DEF TypeOK, ErrInv, PhaseInv
  <2>5. WarnInv'
    BY DEF TypeOK, WarnInv, Underway, PhaseInv
  <2>6. ContentInv'
    BY RecordsOf DEF TypeOK, ContentInv, PhaseInv
  <2>7. ResultInv'
    BY DEF TypeOK, ResultInv, PhaseInv, ErrInv, ContentInv
  <2>8. StoreInv'
    BY DEF TypeOK, StoreInv, WriterInv, PhaseInv, ContentInv
  <2>9. AbortInv'
    BY RecordsOf DEF TypeOK, AbortInv, PhaseInv, ErrInv, ContentInv
  <2>10. MetaInv'
    BY DEF TypeOK, MetaInv, PcapSurvives, PhaseInv
  <2> QED BY <2>1, <2>2, <2>3, <2>4, <2>5, <2>6, <2>7, <2>8, <2>9, <2>10
<1>3. CASE ReadWarning(o)
  <2> USE <1>3 DEF ReadWarning
  <2>1. TypeOK'
    BY DEF TypeOK
  <2>2. WriterInv'
    BY DEF TypeOK, WriterInv, PhaseInv
  <2>3. PhaseInv'
    BY DEF TypeOK, PhaseInv, ErrInv
  <2>4. ErrInv'
    BY DEF TypeOK, ErrInv, PhaseInv
  <2>5. WarnInv'
    BY DEF TypeOK, WarnInv, Underway, PhaseInv
  <2>6. ContentInv'
    BY RecordsOf DEF TypeOK, ContentInv, PhaseInv
  <2>7. ResultInv'
    BY DEF TypeOK, ResultInv, PhaseInv, ErrInv, ContentInv
  <2>8. StoreInv'
    BY DEF TypeOK, StoreInv, WriterInv, PhaseInv, ContentInv
  <2>9. AbortInv'
    BY RecordsOf DEF TypeOK, AbortInv, PhaseInv, ErrInv, ContentInv
  <2>10. MetaInv'
    BY DEF TypeOK, MetaInv, PcapSurvives, PhaseInv
  <2> QED BY <2>1, <2>2, <2>3, <2>4, <2>5, <2>6, <2>7, <2>8, <2>9, <2>10
<1>4. CASE SendReadWarning(o)
  <2> USE <1>4 DEF SendReadWarning, HasRoom
  <2>1. TypeOK'
    BY DEF TypeOK
  <2>2. WriterInv'
    BY DEF TypeOK, WriterInv, PhaseInv
  <2>3. PhaseInv'
    BY DEF TypeOK, PhaseInv, ErrInv
  <2>4. ErrInv'
    BY DEF TypeOK, ErrInv, PhaseInv
  <2>5. WarnInv'
    BY DEF TypeOK, WarnInv, Underway, PhaseInv
  <2>6. ContentInv'
    BY RecordsOf DEF TypeOK, ContentInv, PhaseInv
  <2>7. ResultInv'
    BY DEF TypeOK, ResultInv, PhaseInv, ErrInv, ContentInv
  <2>8. StoreInv'
    BY DEF TypeOK, StoreInv, WriterInv, PhaseInv, ContentInv
  <2>9. AbortInv'
    BY RecordsOf DEF TypeOK, AbortInv, PhaseInv, ErrInv, ContentInv
  <2>10. MetaInv'
    BY DEF TypeOK, MetaInv, PcapSurvives, PhaseInv
  <2> QED BY <2>1, <2>2, <2>3, <2>4, <2>5, <2>6, <2>7, <2>8, <2>9, <2>10
<1>5. CASE Copied(o)
  <2> USE <1>5 DEF Copied
  <2>1. TypeOK'
    BY DEF TypeOK
  <2>2. WriterInv'
    BY DEF TypeOK, WriterInv, PhaseInv
  <2>3. PhaseInv'
    BY DEF TypeOK, PhaseInv, ErrInv
  <2>4. ErrInv'
    BY DEF TypeOK, ErrInv, PhaseInv
  <2>5. WarnInv'
    BY DEF TypeOK, WarnInv, Underway, PhaseInv
  <2>6. ContentInv'
    BY RecordsOf DEF TypeOK, ContentInv, PhaseInv
  <2>7. ResultInv'
    BY DEF TypeOK, ResultInv, PhaseInv, ErrInv, ContentInv
  <2>8. StoreInv'
    BY DEF TypeOK, StoreInv, WriterInv, PhaseInv, ContentInv
  <2>9. AbortInv'
    BY RecordsOf DEF TypeOK, AbortInv, PhaseInv, ErrInv, ContentInv
  <2>10. MetaInv'
    BY DEF TypeOK, MetaInv, PcapSurvives, PhaseInv
  <2> QED BY <2>1, <2>2, <2>3, <2>4, <2>5, <2>6, <2>7, <2>8, <2>9, <2>10
<1>6. CASE WriteFails(o)
  <2> USE <1>6 DEF WriteFails, AfterError
  <2>1. TypeOK'
    BY DEF TypeOK
  <2>2. WriterInv'
    BY DEF TypeOK, WriterInv, PhaseInv
  <2>3. PhaseInv'
    BY DEF TypeOK, PhaseInv, ErrInv
  <2>4. ErrInv'
    BY DEF TypeOK, ErrInv, PhaseInv
  <2>5. WarnInv'
    BY DEF TypeOK, WarnInv, Underway, PhaseInv
  <2>6. ContentInv'
    BY RecordsOf DEF TypeOK, ContentInv, PhaseInv
  <2>7. ResultInv'
    BY DEF TypeOK, ResultInv, PhaseInv, ErrInv, ContentInv
  <2>8. StoreInv'
    BY DEF TypeOK, StoreInv, WriterInv, PhaseInv, ContentInv
  <2>9. AbortInv'
    BY RecordsOf DEF TypeOK, AbortInv, PhaseInv, ErrInv, ContentInv
  <2>10. MetaInv'
    BY DEF TypeOK, MetaInv, PcapSurvives, PhaseInv
  <2> QED BY <2>1, <2>2, <2>3, <2>4, <2>5, <2>6, <2>7, <2>8, <2>9, <2>10
<1>7. CASE Install(o)
  <2> USE <1>7 DEF Install, AfterWrite, DirExists
  <2>1. TypeOK'
    <3>1. file' \in SUBSET (Posts \X {1, 2}) /\ installed' \subseteq Posts
      BY DEF TypeOK
    <3>2. {file', span', info'} \subseteq SUBSET (Posts \X {1, 2})
      BY <3>1 DEF TypeOK
    <3>3. opc' \in [Posts -> OpPCs] /\ wsem' \in Posts \cup {Nil}
      BY DEF TypeOK
    <3> QED BY <3>1, <3>2, <3>3 DEF TypeOK
  <2>2. WriterInv'
    BY DEF TypeOK, WriterInv, PhaseInv
  <2>3. PhaseInv'
    BY DEF TypeOK, PhaseInv, ErrInv
  <2>4. ErrInv'
    BY DEF TypeOK, ErrInv, PhaseInv
  <2>5. WarnInv'
    <3>1. Underway(o) \in Nat /\ delivered[o] \in Nat /\ raised[o] \in Nat
      BY DEF TypeOK, Underway
    <3>2. /\ delivered'[o] + Underway(o)' = delivered[o] + Underway(o)
          /\ raised'[o] = raised[o]
      BY DEF TypeOK, Underway, PhaseInv
    <3>3. \A p \in Posts \ {o} :
            UNCHANGED <<delivered[p], Underway(p), raised[p], toWarn[p], ch[p], hpc[p],
                        ended[p], opc[p]>>
      BY DEF TypeOK, Underway
    <3>4. /\ opc'[o] # "warn" => toWarn'[o] = 0
          /\ ended'[o] # "none" => ch'[o] = 0
          /\ opc'[o] = "off" => raised'[o] = 0 /\ delivered'[o] = 0
      BY DEF TypeOK, WarnInv, PhaseInv
    <3>5. /\ delivered[o] + Underway(o) <= raised[o]
          /\ hpc'[o] = "loop" \/ ended'[o] # "none" =>
               delivered[o] + Underway(o) = raised[o]
      BY DEF TypeOK, WarnInv
    <3>6. ASSUME NEW p \in Posts
          PROVE  /\ delivered'[p] + Underway(p)' <= raised'[p]
                 /\ hpc'[p] = "loop" \/ ended'[p] # "none" =>
                      delivered'[p] + Underway(p)' = raised'[p]
                 /\ opc'[p] # "warn" => toWarn'[p] = 0
                 /\ ended'[p] # "none" => ch'[p] = 0
                 /\ opc'[p] = "off" => raised'[p] = 0 /\ delivered'[p] = 0
      <4>1. CASE p = o
        BY <4>1, <3>2, <3>4, <3>5
      <4>2. CASE p # o
        <5> HIDE <1>7
        <5> QED BY <4>2, <3>3 DEF WarnInv
      <4> QED BY <4>1, <4>2
    <3> QED BY <3>6 DEF WarnInv
  <2>6. ContentInv'
    BY RecordsOf DEF TypeOK, ContentInv, PhaseInv
  <2>7. ResultInv'
    BY DEF TypeOK, ResultInv, PhaseInv, ErrInv, ContentInv
  <2>8. StoreInv'
    BY DEF TypeOK, StoreInv, WriterInv, PhaseInv, ContentInv
  <2>9. AbortInv'
    <3> SUFFICES ASSUME NEW p \in PcapPosts
                 PROVE  /\ opc'[p] \in {"clear", "closed"} /\ opErr'[p] # "none" =>
                             /\ meta' # p
                             /\ pcapJson' = p => <<p, "pcap.json">> \in kept'
                        /\ opc'[p] = "closed" /\ opErr'[p] # "none" =>
                             (file' \cap Records(p) # {} => <<p, "all.zng">> \in kept')
      BY DEF AbortInv
    <3>1. CASE p = o
      BY <3>1 DEF TypeOK, AbortInv, PhaseInv, ErrInv
    <3>2. CASE p # o
      BY <3>2, RecordsOf DEF TypeOK, AbortInv, PhaseInv, ErrInv, ContentInv
    <3> QED BY <3>1, <3>2
  <2>10. MetaInv'
    BY DEF TypeOK, MetaInv, PcapSurvives, PhaseInv
  <2> QED BY <2>1, <2>2, <2>3, <2>4, <2>5, <2>6, <2>7, <2>8, <2>9, <2>10
<1>8. CASE ExtendSpan(o)
  <2> USE <1>8 DEF ExtendSpan, AfterWrite, Extended, DirExists
  <2>1. TypeOK'
    <3>1. {file', span', info'} \subseteq SUBSET (Posts \X {1, 2}) /\ torn' \in BOOLEAN
      BY DEF TypeOK, ContentInv
    <3> QED BY <3>1 DEF TypeOK
  <2>2. WriterInv'
    BY DEF TypeOK, WriterInv, PhaseInv
  <2>3. PhaseInv'
    BY DEF TypeOK, PhaseInv, ErrInv
  <2>4. ErrInv'
    BY DEF TypeOK, ErrInv, PhaseInv
  <2>5. WarnInv'
    BY DEF TypeOK, WarnInv, Underway, PhaseInv
  <2>6. ContentInv'
    BY RecordsOf DEF TypeOK, ContentInv, PhaseInv
  <2>7. ResultInv'
    BY DEF TypeOK, ResultInv, PhaseInv, ErrInv, ContentInv
  <2>8. StoreInv'
    BY DEF TypeOK, StoreInv, WriterInv, PhaseInv, ContentInv
  <2>9. AbortInv'
    BY RecordsOf DEF TypeOK, AbortInv, PhaseInv, ErrInv, ContentInv
  <2>10. MetaInv'
    BY DEF TypeOK, MetaInv, PcapSurvives, PhaseInv
  <2> QED BY <2>1, <2>2, <2>3, <2>4, <2>5, <2>6, <2>7, <2>8, <2>9, <2>10
<1>9. CASE ExtendFails(o)
  <2> USE <1>9 DEF ExtendFails, AfterError, Extended, DirExists
  <2>1. TypeOK'
    BY DEF TypeOK
  <2>2. WriterInv'
    BY DEF TypeOK, WriterInv, PhaseInv
  <2>3. PhaseInv'
    BY DEF TypeOK, PhaseInv, ErrInv
  <2>4. ErrInv'
    BY DEF TypeOK, ErrInv, PhaseInv
  <2>5. WarnInv'
    BY DEF TypeOK, WarnInv, Underway, PhaseInv
  <2>6. ContentInv'
    BY RecordsOf DEF TypeOK, ContentInv, PhaseInv
  <2>7. ResultInv'
    BY DEF TypeOK, ResultInv, PhaseInv, ErrInv, ContentInv
  <2>8. StoreInv'
    BY DEF TypeOK, StoreInv, WriterInv, PhaseInv, ContentInv
  <2>9. AbortInv'
    BY RecordsOf DEF TypeOK, AbortInv, PhaseInv, ErrInv, ContentInv
  <2>10. MetaInv'
    BY DEF TypeOK, MetaInv, PcapSurvives, PhaseInv
  <2> QED BY <2>1, <2>2, <2>3, <2>4, <2>5, <2>6, <2>7, <2>8, <2>9, <2>10
<1> QED BY <1>1, <1>2, <1>3, <1>4, <1>5, <1>6, <1>7, <1>8, <1>9 DEF WriteStep

\* A delete of the space and a crash of the daemon keep IngestInv.
LEMMA IngestOther ==
  ASSUME IngestInv, DeleteStart \/ DeleteRemove \/ CrashRestart \/ UNCHANGED vars
  PROVE  IngestInv'
<1> USE DEF IngestInv
<1>1. CASE DeleteStart
  <2> USE <1>1 DEF DeleteStart
  <2>1. TypeOK' /\ WriterInv' /\ PhaseInv' /\ ErrInv'
    BY DEF TypeOK, WriterInv, PhaseInv, ErrInv
  <2>2. WarnInv' /\ ContentInv' /\ ResultInv'
    BY DEF WarnInv, Underway, ContentInv, ResultInv
  <2>3. StoreInv' /\ AbortInv' /\ MetaInv'
    BY DEF StoreInv, AbortInv, MetaInv, PcapSurvives
  <2> QED BY <2>1, <2>2, <2>3
<1>2. CASE DeleteRemove
  <2> USE <1>2 DEF DeleteRemove
  <2>1. TypeOK' /\ WriterInv' /\ PhaseInv' /\ ErrInv'
    BY DEF TypeOK, WriterInv, PhaseInv, ErrInv
  <2>2. WarnInv' /\ ContentInv' /\ ResultInv'
    BY DEF WarnInv, Underway, ContentInv, ResultInv
  <2>3. StoreInv' /\ AbortInv' /\ MetaInv'
    BY DEF StoreInv, AbortInv, MetaInv, PcapSurvives
  <2> QED BY <2>1, <2>2, <2>3
<1>3. CASE CrashRestart
  <2> USE <1>3 DEF CrashRestart
  <2>1. TypeOK'
    BY DEF TypeOK
  <2>2. WriterInv' /\ PhaseInv' /\ ErrInv'
    BY DEF TypeOK, WriterInv, PhaseInv, ErrInv
  <2>3. WarnInv'
    BY DEF WarnInv, Underway
  <2>4. ContentInv' /\ ResultInv'
    BY DEF ContentInv, ResultInv
  <2>5. StoreInv' /\ AbortInv' /\ MetaInv'
    BY DEF TypeOK, StoreInv, AbortInv, MetaInv, PcapSurvives
  <2> QED BY <2>1, <2>2, <2>3, <2>4, <2>5
<1>4. CASE UNCHANGED vars
  <2> USE <1>4 DEF vars
  <2>1. TypeOK' /\ WriterInv' /\ PhaseInv' /\ ErrInv'
    BY DEF TypeOK, WriterInv, PhaseInv, ErrInv
  <2>2. WarnInv' /\ ContentInv' /\ ResultInv'
    BY DEF WarnInv, Underway, ContentInv, ResultInv
  <2>3. StoreInv' /\ AbortInv' /\ MetaInv'
    BY DEF StoreInv, AbortInv, MetaInv, PcapSurvives
  <2> QED BY <2>1, <2>2, <2>3
<1> QED BY <1>1, <1>2, <1>3, <1>4

\* The handlers, the operations, the analyzers, deletes and crashes keep
\* IngestInv.
THEOREM IngestInvariant == Spec => []IngestInv
<1>1. Init => IngestInv
  BY IngestInit
<1>2. IngestInv /\ [Next]_vars => IngestInv'
  BY IngestHandler, IngestLog, IngestPcap, IngestWrite, IngestOther
  DEF Next, OpStep, Quit
<1> QED BY <1>1, <1>2, PTL DEF Spec

\* filestore.Storage.Write: of any number of posts at most one is between
\* TryAcquire and the deferred Release, and no way out of Write, an error of
\* the reader, of the rename or of info.json and a crash included, leaves the
\* semaphore taken.
THEOREM WriterSafe == Spec => []OneWriter
<1>1. IngestInv => OneWriter
  BY DEF IngestInv, WriterInv, OneWriter
<1> QED BY IngestInvariant, <1>1, PTL

\* handleLogPost and handlePcapPost: a client that is told its post went well
\* had all of its records in all.zng and has had every warning, whatever the
\* capacity of the warning channel; a log refused with ErrWriteInProgress was
\* not installed.
THEOREM ReportSafe == Spec => []ReportIsTrue
<1>1. IngestInv => ReportIsTrue
  <2> SUFFICES ASSUME IngestInv, NEW o \in Posts
               PROVE  /\ ended[o] = "ok" => /\ o \in installed \/ Records(o) = {}
                                            /\ delivered[o] = raised[o]
                      /\ opErr[o] = "conflict" /\ o \in LogPosts \ Untimed =>
                           o \notin installed
    BY DEF ReportIsTrue
  <2>1. ASSUME ended[o] = "ok"
        PROVE  (o \in installed \/ Records(o) = {}) /\ delivered[o] = raised[o]
    <3>1. opc[o] = "closed" /\ opErr[o] = "none"
      BY <2>1 DEF IngestInv, PhaseInv, ResultInv
    <3>2. o \in installed \/ Records(o) = {}
      BY <3>1 DEF IngestInv, ResultInv
    <3>3. Underway(o) = 0 /\ delivered[o] + Underway(o) = raised[o]
      BY <2>1, <3>1 DEF IngestInv, WarnInv, Underway
    <3> QED BY <3>2, <3>3 DEF IngestInv, TypeOK
  <2>2. ASSUME opErr[o] = "conflict", o \in LogPosts
        PROVE  o \notin installed
    BY <2>2 DEF IngestInv, ResultInv
  <2> QED BY <2>1, <2>2
<1> QED BY IngestInvariant, <1>1, PTL

\* filestore.Storage.Write and Clear: between writes the span a space reports
\* covers its data and is the one a restart would load, but for a fault or a
\* crash between the rename of all.zng and the write of info.json.
THEOREM SpanSafe == Spec => []SpanCoversData
<1>1. IngestInv => SpanCoversData
  <2> SUFFICES ASSUME IngestInv, wsem = Nil, ~torn, deleting # "removed"
               PROVE  file \subseteq span /\ span = info
    BY DEF SpanCoversData
  <2>1. \A o \in Posts : opc[o] # "span"
    BY DEF IngestInv, WriterInv
  <2> QED BY <2>1 DEF IngestInv, StoreInv
<1> QED BY IngestInvariant, <1>1, PTL

\* PcapOp.abort and fileSpace.delete: a pcap post that failed leaves neither its
\* pcap, in memory or in pcap.json, nor its records, but for the part whose
\* removal failed, and whatever the other posts do meanwhile; only such a
\* pcap.json comes back after a restart; and an operation that outlives the
\* delete of its space writes nothing back.
THEOREM CleanupSafe == Spec => []NothingLeftBehind
<1>1. IngestInv => NothingLeftBehind
  BY DEF IngestInv, AbortInv, MetaInv, StoreInv, NothingLeftBehind, AbortUndoes,
         NothingAfterDelete
<1> QED BY IngestInvariant, <1>1, PTL
=============================================================================
