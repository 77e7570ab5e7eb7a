----------------------------- MODULE FilesProofs -----------------------------
(***************************************************************************)
(* Proofs about the files, for any number of parties, savers, downloads    *)
(* and processes, any length of a model and any finite set of keys: a      *)
(* revoked consent stays revoked, a lone save is faithful, a model that is *)
(* found is whole, and every selection counts.  TLC checks the same        *)
(* formulas in the run files.                                              *)
(***************************************************************************)
EXTENDS Files, DataLemmas

-----------------------------------------------------------------------------
(***************************************************************************)
(* consent.json.  Once a revoke that nobody's consent has crossed is       *)
(* through, nobody is about to write a consent; and such a revoke knows    *)
(* while it runs that there is none.                                       *)
(***************************************************************************)
RevokeIsAlone ==
  \A p \in Parties : p \in Writers("no") /\ ~recording[p] => Writers("yes") = {}

RevokedIsQuiet == revoked => consent # "yes" /\ Writers("yes") = {}

ConsentInv == ConsentTypeOK /\ RevokeIsAlone /\ RevokedIsQuiet

\* Before anybody writes there is nothing to cross.
LEMMA ConsentInitially == ConsentInit => ConsentInv
BY DEF ConsentInit, ConsentInv, ConsentTypeOK, RevokeIsAlone, RevokedIsQuiet, Writers, Nobody

\* The two halves of a write, and what breaks it off.
LEMMA WritesKeepConsentInv ==
  ASSUME ConsentInv, NEW p \in Parties, TruncateConsent(p) \/ WriteConsent(p) \/ WriteBreaks(p)
  PROVE  ConsentInv'
<1>1. CASE TruncateConsent(p)
  BY <1>1 DEF TruncateConsent, ConsentInv, ConsentTypeOK, RevokeIsAlone, RevokedIsQuiet, Writers, Nobody
<1>2. CASE WriteConsent(p)
  <2> USE <1>2 DEF WriteConsent, ConsentInv
  <2>1. \A v : Writers(v)' = Writers(v) \ {p} BY DEF Writers, ConsentTypeOK, Nobody
  <2>2. p \in Writers(writing[p].value) /\ writing[p].value \in {"yes", "no"}
    BY DEF Writers, ConsentTypeOK, Nobody
  <2>3. consent' = Over(consent, writing[p].value) /\ (writing[p].value = "no" => consent' = "no")
    BY DEF Over
  <2>4. ConsentTypeOK' BY <2>2 DEF ConsentTypeOK, Over, Nobody
  <2>5. RevokeIsAlone' BY <2>1 DEF RevokeIsAlone
  <2>6. RevokedIsQuiet'
    <3>1. CASE writing[p].value = "yes" BY <3>1 DEF RevokedIsQuiet
    <3>2. CASE writing[p].value = "no"
      BY <2>1, <2>2, <2>3, <3>2 DEF RevokedIsQuiet, RevokeIsAlone
    <3> QED BY <2>2, <3>1, <3>2
  <2> QED BY <2>4, <2>5, <2>6
<1>3. CASE WriteBreaks(p)
  BY <1>3 DEF WriteBreaks, ConsentInv, ConsentTypeOK, RevokeIsAlone, RevokedIsQuiet, Writers, Nobody
<1> QED BY <1>1, <1>2, <1>3

\* The beginning of a record or a revoke.
LEMMA CallsKeepConsentInv ==
  ASSUME ConsentInv, NEW p \in Parties, RecordConsent(p) \/ RevokeConsent(p)
  PROVE  ConsentInv'
<1>1. CASE RecordConsent(p)
  BY <1>1 DEF RecordConsent, ConsentInv, ConsentTypeOK, RevokeIsAlone, RevokedIsQuiet, Writers, Nobody
<1>2. CASE RevokeConsent(p)
  BY <1>2 DEF RevokeConsent, Readable, ConsentInv, ConsentTypeOK, RevokeIsAlone, RevokedIsQuiet, Writers, Nobody
<1> QED BY <1>1, <1>2

\* After a revoke that no consent crossed there is no consent, whoever writes,
\* breaks off or revokes again.
THEOREM RevokedConsentStays == FilesSpec => []RevokedStaysRevoked
<1>1. FilesInit => ConsentInv BY ConsentInitially DEF FilesInit
<1>2. ConsentInv /\ [FilesNext]_filesVars => ConsentInv'
  <2> SUFFICES ASSUME ConsentInv, [FilesNext]_filesVars PROVE ConsentInv' OBVIOUS
  <2>1. CASE ConsentNext
    BY <2>1, CallsKeepConsentInv, WritesKeepConsentInv DEF ConsentNext
  <2>2. CASE UNCHANGED consentVars
    BY <2>2 DEF consentVars, ConsentInv, ConsentTypeOK, RevokeIsAlone, RevokedIsQuiet, Writers
  <2> QED BY <2>1, <2>2 DEF FilesNext, filesVars
<1>3. ConsentInv => RevokedStaysRevoked BY DEF ConsentInv, RevokedIsQuiet, RevokedStaysRevoked, IsConsented
<1> QED BY <1>1, <1>2, <1>3, PTL DEF FilesSpec

-----------------------------------------------------------------------------
(***************************************************************************)
(* The model.  As long as no two downloads have run at once, nor one beside *)
(* a write that another left, there is at most one, its handle is the      *)
(* .partial file and holds what it was sent, but for the write under way;  *)
(* writes go to that file, and an active download's are all there are; and *)
(* what was renamed before is another file, and whole.                     *)
(***************************************************************************)
Active(d) == stage[d] \in {"writing", "checked"}

DownloadShape ==
  /\ stage \in [Downloads -> {"idle", "writing", "checked"}]
  /\ handle \in [Downloads -> Nat]
  /\ got \in [Downloads -> Seq(Int)]
  /\ content \in Seq(Seq(Int))
  /\ partial \in 0 .. Len(content) /\ dest \in 0 .. Len(content)

WritesShape ==
  \A w \in flying :
    /\ w = [by |-> w.by, file |-> w.file, at |-> w.at, chunk |-> w.chunk]
    /\ w.chunk \in Int
    /\ partial # NoFile /\ w.file = partial
    /\ w.at \in Nat \ {0}
    /\ \A d \in Downloads : Active(d) => w.by = d
    /\ w.by \in Downloads => stage[w.by] = "writing"

OneDownload == \A d, e \in Downloads : Active(d) /\ Active(e) => d = e

WritesItsPart ==
  \A d \in Downloads : Active(d) =>
    /\ partial # NoFile /\ handle[d] = partial
    /\ \/ InFlight(d) = {} /\ content[partial] = got[d]
       \/ \E w \in flying :
            /\ InFlight(d) = {w} /\ w.at = Len(content[partial]) + 1
            /\ got[d] = Append(content[partial], w.chunk)
    /\ stage[d] = "checked" => got[d] = Whole

DestIsWhole ==
  /\ dest # NoFile => content[dest] = Whole
  /\ dest # NoFile => dest # partial

DownloadInv ==
  ~overlapped => DownloadShape /\ WritesShape /\ OneDownload /\ WritesItsPart /\ DestIsWhole

\* A chunk written at the end of a file is appended to it.
LEMMA WritingAppends ==
  ASSUME NEW data \in Seq(Int), NEW chunk \in Int
  PROVE  Written(data, Len(data) + 1, chunk) = Append(data, chunk)
<1> DEFINE end == Len(data) + 1
<1>1. end \in Nat /\ Len(data) \in Nat /\ Len(data) <= end OBVIOUS
<1>2. Max({Len(data), end}) = end BY <1>1 DEF Max
<1>3. Written(data, end, chunk) =
        [i \in 1 .. end |-> IF i = end THEN chunk ELSE IF i \in DOMAIN data THEN data[i] ELSE Hole]
  BY <1>2 DEF Written
<1> QED BY <1>3

\* A chunk written anywhere leaves data behind it.
LEMMA WritingLeavesData ==
  ASSUME NEW data \in Seq(Int), NEW at \in Nat \ {0}, NEW chunk \in Int
  PROVE  Written(data, at, chunk) \in Seq(Int)
<1>1. PICK n \in Nat : n = Max({Len(data), at})
  <2>1. Len(data) \in Nat OBVIOUS
  <2>2. \E m \in {Len(data), at} : \A k \in {Len(data), at} : k <= m BY <2>1
  <2> QED BY <2>1, <2>2 DEF Max
<1> DEFINE value(i) == IF i = at THEN chunk ELSE IF i \in DOMAIN data THEN data[i] ELSE Hole
<1>2. \A i \in 1 .. n : value(i) \in Int BY DEF Hole
<1>3. Written(data, at, chunk) = [i \in 1 .. n |-> value(i)] BY <1>1 DEF Written
<1> HIDE DEF value
<1>4. [i \in 1 .. n |-> value(i)] \in [1 .. n -> Int] BY <1>2
<1>5. [1 .. n -> Int] \subseteq Seq(Int) OBVIOUS
<1> QED BY <1>3, <1>4, <1>5

\* Before the first download there is no file.
LEMMA DownloadInitially == DownloadInit => DownloadInv
BY DEF DownloadInit, DownloadInv, DownloadShape, WritesShape, OneDownload, WritesItsPart, DestIsWhole, Active,
   NoFile

\* While a download is active no write but its own is under way, and that only
\* before its check.
LEMMA ActiveWritesAlone ==
  ASSUME WritesShape, NEW d \in Downloads, Active(d)
  PROVE  flying = InFlight(d) /\ (stage[d] = "checked" => flying = {})
BY DEF WritesShape, InFlight

\* A download starts while none is active, over what a former one left behind
\* or in a new file.
LEMMA StartKeepsDownloadInv ==
  ASSUME DownloadInv, NEW d \in Downloads, StartDownload(d), ~overlapped'
  PROVE  DownloadInv'
<1> USE DEF StartDownload, Becomes, DownloadInv, NoFile
<1>1. ~overlapped /\ \A e \in Downloads \ {d} : ~Active(e) BY DEF Active
<1>2. DownloadShape /\ DestIsWhole /\ flying = {} /\ flying' = {} BY <1>1
<1>3. /\ content' \in Seq(Seq(Int))
      /\ partial' \in 1 .. Len(content') /\ content'[partial'] = <<>>
      /\ dest \in 0 .. Len(content')
      /\ dest # 0 => dest # partial' /\ content'[dest] = content[dest]
  <2> DEFINE Data == Seq(Int)
  <2>a. <<>> \in Data OBVIOUS
  <2> USE <1>2, <2>a DEF DownloadShape, DestIsWhole
  <2>b. content \in Seq(Data) /\ Len(content) \in Nat OBVIOUS
  <2> HIDE DEF Data
  <2>1. CASE partial # 0
    <3>1. partial' = partial /\ content' = [content EXCEPT ![partial] = <<>>] BY <2>1 DEF CreatePartial
    <3>2. partial \in 1 .. Len(content) BY <2>1, <2>b
    <3>3. content' \in Seq(Data) /\ Len(content') = Len(content)
          /\ \A i \in 1 .. Len(content) : content'[i] = IF i = partial THEN <<>> ELSE content[i]
      BY <2>a, <2>b, <3>1, <3>2
    <3> QED BY <2>b, <3>1, <3>2, <3>3 DEF Data
  <2>2. CASE partial = 0
    <3>1. partial' = Len(content) + 1 /\ content' = Append(content, <<>>) BY <2>2 DEF CreatePartial
    <3>2. content' \in Seq(Data) /\ Len(content') = Len(content) + 1
          /\ \A i \in 1 .. Len(content) + 1 : content'[i] = IF i = Len(content) + 1 THEN <<>> ELSE content[i]
      BY <2>a, <2>b, <3>1
    <3> QED BY <2>b, <3>1, <3>2 DEF Data
  <2> QED BY <2>1, <2>2
<1>4. DownloadShape' BY <1>2, <1>3 DEF DownloadShape
<1>5. \A e \in Downloads : Active(e)' => e = d BY <1>1, <1>2 DEF Active, DownloadShape
<1>6. stage'[d] = "writing" /\ handle'[d] = partial' /\ got'[d] = <<>> BY <1>2 DEF DownloadShape
<1>7. OneDownload' BY <1>5 DEF OneDownload
<1>8. DestIsWhole' BY <1>2, <1>3 DEF DestIsWhole
<1>9. WritesItsPart'
  <2>1. partial' # 0 BY <1>2, <1>3 DEF DownloadShape
  <2> HIDE DEF StartDownload, Becomes, DownloadInv
  <2>2. InFlight(d)' = {} BY <1>2 DEF InFlight
  <2> HIDE DEF StartDownload, Becomes, DownloadInv
  <2> QED BY <1>3, <1>5, <1>6, <2>1, <2>2 DEF WritesItsPart
<1>10. WritesShape' BY <1>2 DEF WritesShape
<1> QED BY <1>4, <1>7, <1>8, <1>9, <1>10

\* A chunk arrives, and its write begins.
LEMMA ChunkKeepsDownloadInv ==
  ASSUME DownloadInv, NEW d \in Downloads, NEW chunk \in Int, ReceiveChunk(d, chunk), ~overlapped'
  PROVE  DownloadInv'
<1> DEFINE new == [by |-> d, file |-> handle[d], at |-> Len(got[d]) + 1, chunk |-> chunk]
<1>1. /\ ~overlapped /\ DownloadShape /\ WritesShape /\ OneDownload /\ WritesItsPart /\ DestIsWhole
      /\ stage[d] = "writing" /\ InFlight(d) = {}
      /\ got' = [got EXCEPT ![d] = Append(@, chunk)] /\ flying' = flying \cup {new}
      /\ UNCHANGED <<stage, handle, partial, dest, content>>
  BY DEF ReceiveChunk, DownloadInv
<1>2. Active(d) BY <1>1 DEF Active
<1>3. handle[d] = partial /\ partial # NoFile /\ content[partial] = got[d] /\ got[d] \in Seq(Int)
  <2>1. ~\E w \in flying : InFlight(d) = {w} BY <1>1
  <2> QED BY <1>1, <1>2, <2>1 DEF WritesItsPart, DownloadShape
<1>4. /\ new.by = d /\ new.file = partial /\ new.chunk = chunk
      /\ new.at = Len(content[partial]) + 1 /\ new.at \in Nat \ {0}
      /\ new = [by |-> new.by, file |-> new.file, at |-> new.at, chunk |-> new.chunk]
  BY <1>3
<1> HIDE DEF new
<1>5. flying' = {new} /\ InFlight(d)' = {new}
  <2>1. flying = {} BY <1>1, <1>2, ActiveWritesAlone
  <2> QED BY <1>1, <1>4, <2>1 DEF InFlight
<1>6. got' \in [Downloads -> Seq(Int)] /\ got'[d] = Append(got[d], chunk)
  <2> DEFINE Data == Seq(Int)
             longer == Append(got[d], chunk)
  <2>1. got \in [Downloads -> Data] /\ longer \in Data BY <1>1, <1>3 DEF DownloadShape
  <2>2. got' = [got EXCEPT ![d] = longer] BY <1>1
  <2> HIDE DEF Data, longer
  <2>3. got' \in [Downloads -> Data] /\ got'[d] = longer BY <2>1, <2>2
  <2> QED BY <2>3 DEF Data, longer
<1>7. DownloadShape' BY <1>1, <1>6 DEF DownloadShape
<1>8. \A e \in Downloads : Active(e)' => e = d BY <1>1, <1>2 DEF Active, OneDownload
<1>9. OneDownload' BY <1>8 DEF OneDownload
<1>10. WritesShape' BY <1>1, <1>3, <1>4, <1>5, <1>8 DEF WritesShape
<1>11. WritesItsPart'
  <2>1. got'[d] = Append(content'[partial'], new.chunk) BY <1>1, <1>3, <1>4, <1>6
  <2>2. \E w \in flying' :
          /\ InFlight(d)' = {w} /\ w.at = Len(content'[partial']) + 1
          /\ got'[d] = Append(content'[partial'], w.chunk)
    BY <1>1, <1>4, <1>5, <2>1
  <2>3. stage'[d] # "checked" BY <1>1
  <2> QED BY <1>1, <1>3, <1>8, <2>2, <2>3 DEF WritesItsPart
<1>12. DestIsWhole' BY <1>1 DEF DestIsWhole
<1> QED BY <1>7, <1>9, <1>10, <1>11, <1>12 DEF DownloadInv

\* A write lands: that of the active download at the end of its file, or one
\* that a broken download left, while none is active.
LEMMA LandingKeepsDownloadInv ==
  ASSUME DownloadInv, NEW w \in flying, WriteLands(w), ~overlapped'
  PROVE  DownloadInv'
<1> DEFINE new == Written(content[partial], w.at, w.chunk)
<1>1. ~overlapped /\ DownloadShape /\ WritesShape /\ OneDownload /\ WritesItsPart /\ DestIsWhole
  BY DEF WriteLands, DownloadInv
<1>2. w.file = partial /\ partial \in 1 .. Len(content) /\ w.at \in Nat \ {0} /\ w.chunk \in Int
  BY <1>1 DEF WritesShape, DownloadShape, NoFile
<1>3. /\ content' = [content EXCEPT ![partial] = new] /\ flying' = flying \ {w}
      /\ UNCHANGED <<stage, handle, got, partial, dest>>
  BY <1>2 DEF WriteLands
<1>4. /\ content' \in Seq(Seq(Int)) /\ Len(content') = Len(content) /\ content'[partial] = new
      /\ \A i \in 1 .. Len(content) : i # partial => content'[i] = content[i]
  <2> DEFINE Data == Seq(Int)
  <2>1. content \in Seq(Data) /\ content[partial] \in Data BY <1>1, <1>2 DEF DownloadShape
  <2>2. new \in Data BY <1>2, <2>1, WritingLeavesData
  <2> HIDE DEF Data, new
  <2>3. content' \in Seq(Data) /\ Len(content') = Len(content) /\ content'[partial] = new
        /\ \A i \in 1 .. Len(content) : i # partial => content'[i] = content[i]
    BY <1>2, <1>3, <2>1, <2>2
  <2> QED BY <2>3 DEF Data
<1>5. DownloadShape' BY <1>1, <1>3, <1>4 DEF DownloadShape
<1>6. WritesShape' BY <1>1, <1>3 DEF WritesShape, Active
<1>7. OneDownload' BY <1>1, <1>3 DEF OneDownload, Active
<1>8. DestIsWhole' BY <1>1, <1>3, <1>4 DEF DestIsWhole, DownloadShape, NoFile
<1>9. WritesItsPart'
  <2> SUFFICES ASSUME NEW d \in Downloads, Active(d)
               PROVE  /\ partial # NoFile /\ handle[d] = partial
                      /\ InFlight(d)' = {} /\ content'[partial] = got[d]
                      /\ stage[d] = "checked" => got[d] = Whole
    BY <1>3 DEF WritesItsPart, Active
  <2>1. flying = InFlight(d) BY <1>1, ActiveWritesAlone
  <2>2. PICK v \in flying : /\ InFlight(d) = {v} /\ v.at = Len(content[partial]) + 1
                            /\ got[d] = Append(content[partial], v.chunk)
    BY <1>1, <2>1 DEF WritesItsPart
  <2>3. v = w /\ flying = {w} BY <2>1, <2>2
  <2>4. new = got[d]
    <3>1. content[partial] \in Seq(Int) BY <1>1, <1>2 DEF DownloadShape
    <3> QED BY <1>2, <2>2, <2>3, <3>1, WritingAppends
  <2>5. InFlight(d)' = {} BY <1>3, <2>3 DEF InFlight
  <2> QED BY <1>1, <1>4, <2>4, <2>5 DEF WritesItsPart
<1> QED BY <1>5, <1>6, <1>7, <1>8, <1>9 DEF DownloadInv

\* A download that has ended has a state as before.
LEMMA EndedShape ==
  ASSUME DownloadShape, NEW d \in Downloads,
         stage' = [stage EXCEPT ![d] = "idle"], handle' = [handle EXCEPT ![d] = NoFile],
         got' = [got EXCEPT ![d] = <<>>], content' = content,
         partial' \in 0 .. Len(content), dest' \in 0 .. Len(content)
  PROVE  DownloadShape'
<1>1. got' \in [Downloads -> Seq(Int)]
  <2> DEFINE Data == Seq(Int)
  <2>1. <<>> \in Data /\ got \in [Downloads -> Data] BY DEF DownloadShape
  <2> HIDE DEF Data
  <2>2. got' \in [Downloads -> Data] BY <2>1
  <2> QED BY <2>2 DEF Data
<1>2. handle' \in [Downloads -> Nat] BY DEF DownloadShape, NoFile
<1>3. stage' \in [Downloads -> {"idle", "writing", "checked"}] BY DEF DownloadShape
<1> QED BY <1>1, <1>2, <1>3 DEF DownloadShape

\* A download breaks, and may leave a write behind.
LEMMA BreakKeepsDownloadInv ==
  ASSUME DownloadInv, NEW d \in Downloads, Breaks(d), ~overlapped'
  PROVE  DownloadInv'
<1> DEFINE late == {[w EXCEPT !.by = Orphan] : w \in InFlight(d)}
<1>1. /\ ~overlapped /\ DownloadShape /\ WritesShape /\ OneDownload /\ WritesItsPart /\ DestIsWhole
      /\ stage' = [stage EXCEPT ![d] = "idle"] /\ handle' = [handle EXCEPT ![d] = NoFile]
      /\ got' = [got EXCEPT ![d] = <<>>]
      /\ UNCHANGED <<partial, dest, content>>
      /\ flying' = flying \ InFlight(d) \/ flying' = (flying \ InFlight(d)) \cup late
  BY DEF Breaks, Returns, Becomes, DownloadInv
<1>2. Active(d) BY DEF Breaks, Active
<1>3. flying = InFlight(d) BY <1>1, <1>2, ActiveWritesAlone
<1>4. \A e \in Downloads : ~Active(e)' BY <1>1, <1>2 DEF Active, OneDownload, DownloadShape
<1>5. \A w \in flying' : \E v \in flying : w = [v EXCEPT !.by = Orphan] BY <1>1, <1>3
<1>6. WritesShape'
  <2> SUFFICES ASSUME NEW w \in flying'
               PROVE  /\ w = [by |-> w.by, file |-> w.file, at |-> w.at, chunk |-> w.chunk]
                      /\ w.chunk \in Int /\ partial # NoFile /\ w.file = partial /\ w.at \in Nat \ {0}
                      /\ w.by = Orphan
    BY <1>1, <1>4, OrphanAssumption DEF WritesShape
  <2>1. PICK v \in flying : w = [v EXCEPT !.by = Orphan] BY <1>5
  <2>2. /\ v = [by |-> v.by, file |-> v.file, at |-> v.at, chunk |-> v.chunk]
        /\ v.chunk \in Int /\ partial # NoFile /\ v.file = partial /\ v.at \in Nat \ {0}
    BY <1>1 DEF WritesShape
  <2>3. w = [by |-> Orphan, file |-> v.file, at |-> v.at, chunk |-> v.chunk] BY <2>1, <2>2
  <2> QED BY <2>2, <2>3
<1>7. DownloadShape'
  <2>1. partial' \in 0 .. Len(content) /\ dest' \in 0 .. Len(content) BY <1>1 DEF DownloadShape
  <2> QED BY <1>1, <2>1, EndedShape
<1> QED BY <1>1, <1>4, <1>6, <1>7 DEF DownloadInv, OneDownload, WritesItsPart, DestIsWhole

\* A download passes its check or fails it, or ends with the rename.
LEMMA EndKeepsDownloadInv ==
  ASSUME DownloadInv, NEW d \in Downloads, CheckSum(d) \/ Rename(d), ~overlapped'
  PROVE  DownloadInv'
<1> USE DEF NoFile
<1>1. ~overlapped /\ DownloadShape /\ WritesShape /\ OneDownload /\ WritesItsPart /\ DestIsWhole
  BY DEF CheckSum, Rename, DownloadInv
<1>2. Active(d) BY DEF Active, CheckSum, Rename
<1>3. flying = {} /\ flying' = {} /\ content' = content
  <2>1. flying' = flying /\ content' = content BY DEF CheckSum, Rename
  <2>2. InFlight(d) = {} \/ stage[d] = "checked" BY DEF CheckSum, Rename
  <2> QED BY <1>1, <1>2, <2>1, <2>2, ActiveWritesAlone
<1>4. WritesShape' /\ \A e \in Downloads : InFlight(e)' = {} BY <1>3 DEF WritesShape, InFlight
<1>5. CASE /\ stage' = [stage EXCEPT ![d] = "checked"] /\ stage[d] = "writing" /\ got[d] = Whole
           /\ UNCHANGED <<handle, got, partial, dest>>
  <2>1. \A e \in Downloads : Active(e)' => e = d BY <1>1, <1>2, <1>5 DEF Active, OneDownload, DownloadShape
  <2>2. content[partial] = got[d] BY <1>1, <1>2, <1>3 DEF WritesItsPart
  <2>3. WritesItsPart' BY <1>1, <1>2, <1>3, <1>4, <1>5, <2>1, <2>2 DEF WritesItsPart
  <2>4. OneDownload' BY <2>1 DEF OneDownload
  <2>5. DestIsWhole' BY <1>1, <1>3, <1>5 DEF DestIsWhole
  <2>6. DownloadShape' BY <1>1, <1>3, <1>5 DEF DownloadShape
  <2> QED BY <1>4, <2>3, <2>4, <2>5, <2>6 DEF DownloadInv
<1>6. CASE /\ stage' = [stage EXCEPT ![d] = "idle"] /\ handle' = [handle EXCEPT ![d] = 0]
           /\ got' = [got EXCEPT ![d] = <<>>]
  <2>1. \A e \in Downloads : ~Active(e)' BY <1>1, <1>2, <1>6 DEF Active, OneDownload, DownloadShape
  <2>2. DownloadShape'
    <3>1. partial' \in 0 .. Len(content) /\ dest' \in 0 .. Len(content)
      BY <1>1 DEF CheckSum, Rename, DownloadShape
    <3> QED BY <1>1, <1>3, <1>6, <3>1, EndedShape
  <2>3. DestIsWhole'
    <3>1. CASE dest' = dest /\ partial' \in {partial, 0} BY <1>1, <1>3, <3>1 DEF DestIsWhole
    <3>2. CASE stage[d] = "checked" /\ dest' = partial /\ partial' = 0
      BY <1>1, <1>2, <1>3, <3>2 DEF WritesItsPart, DestIsWhole, InFlight
    <3> QED BY <3>1, <3>2 DEF CheckSum, Rename
  <2> QED BY <1>4, <2>1, <2>2, <2>3 DEF DownloadInv, OneDownload, WritesItsPart
<1> QED BY <1>5, <1>6 DEF CheckSum, Rename, Returns, Becomes

\* As long as no download began beside another, or beside a write that another
\* left, the model that is found is whole: whatever streams, disks and processes
\* left behind never shows.
THEOREM FoundModelIsWhole == FilesSpec => []DetectedIsWhole
<1>1. FilesInit => DownloadInv BY DownloadInitially DEF FilesInit
<1>2. DownloadInv /\ [FilesNext]_filesVars => DownloadInv'
  <2> SUFFICES ASSUME DownloadInv, [FilesNext]_filesVars PROVE DownloadInv' OBVIOUS
  <2>1. CASE overlapped' BY <2>1 DEF DownloadInv
  <2>2. CASE ~overlapped' /\ DownloadNext
    <3> USE <2>2
    <3>1. ASSUME NEW d \in Downloads, StartDownload(d) \/ EnsureDefaultModel(d) PROVE DownloadInv'
      BY <3>1, StartKeepsDownloadInv DEF EnsureDefaultModel
    <3>2. ASSUME NEW d \in Downloads, NEW chunk \in {Len(got[d]) + 1, Bad}, ReceiveChunk(d, chunk)
          PROVE  DownloadInv'
      <4>1. ~overlapped /\ DownloadShape BY <3>2 DEF ReceiveChunk, DownloadInv
      <4>2. chunk \in Int BY <3>2, <4>1, ChunksAssumption DEF DownloadShape, Bad
      <4> QED BY <3>2, <4>2, ChunkKeepsDownloadInv
    <3>3. ASSUME NEW d \in Downloads, Breaks(d) \/ CheckSum(d) \/ Rename(d) PROVE DownloadInv'
      BY <3>3, BreakKeepsDownloadInv, EndKeepsDownloadInv
    <3>4. ASSUME NEW w \in flying, WriteLands(w) PROVE DownloadInv'
      BY <3>4, LandingKeepsDownloadInv
    <3> QED BY <3>1, <3>2, <3>3, <3>4 DEF DownloadNext
  <2>3. CASE UNCHANGED downloadVars
    BY <2>3 DEF downloadVars, DownloadInv, DownloadShape, WritesShape, OneDownload, WritesItsPart, DestIsWhole,
            Active, InFlight
  <2> QED BY <2>1, <2>2, <2>3 DEF FilesNext, filesVars
<1>3. DownloadInv => DetectedIsWhole
  <2> SUFFICES ASSUME DownloadInv, ~overlapped, NEW m \in Detected, m.file # NoFile
               PROVE  content[m.file] = Whole
    BY DEF DetectedIsWhole
  <2>1. m.file = dest BY DEF Detected, Scanned, NoFile
  <2> QED BY <2>1 DEF DownloadInv, DestIsWhole
<1> QED BY <1>1, <1>2, <1>3, PTL DEF FilesSpec

-----------------------------------------------------------------------------
(***************************************************************************)
(* config.toml.  As long as every save read a whole file and ended before  *)
(* anything else touched it, there is at most one; what it is about to     *)
(* write holds its snapshot and the foreign keys entered; and as long as   *)
(* none has truncated the file, the file holds those keys and the last     *)
(* snapshot.                                                               *)
(***************************************************************************)
Saves(s) == saving[s].stage # "none"
Truncated(s) == saving[s].stage = "truncated"

\* What a table must hold to stand for a snapshot.
HoldsSnapshot(table, snapshot) ==
  /\ table.parses /\ table.local # Odd
  /\ table.mode = snapshot.mode /\ table.local = snapshot.local

SavingShape ==
  /\ saving \in [Savers -> [stage : {"none", "read", "truncated"}, table : Files,
                            snapshot : Snapshots \cup {NoSnapshot}]]
  /\ file \in Files
  /\ saved \in Snapshots \cup {NoSnapshot}

OneSave == \A s, t \in Savers : Saves(s) /\ Saves(t) => s = t

SaveKnows ==
  \A s \in Savers : Saves(s) =>
    /\ HoldsSnapshot(saving[s].table, saving[s].snapshot)
    /\ entered \subseteq saving[s].table.foreign
    /\ Truncated(s) => file = EmptyTable

FileKnows ==
  (\A s \in Savers : ~Truncated(s)) =>
    /\ entered \subseteq file.foreign
    /\ saved # NoSnapshot => HoldsSnapshot(file, saved)

SettingsInv == SavingShape /\ (lone => OneSave /\ SaveKnows /\ FileKnows)

\* Every table has its keys.
LEMMA FilesHaveKeys ==
  ASSUME NEW f \in Files
  PROVE  /\ f = [parses |-> f.parses, foreign |-> f.foreign, mode |-> f.mode, local |-> f.local]
         /\ f.parses \in BOOLEAN /\ f.foreign \in SUBSET Foreign
         /\ f.mode \in ModeNames \cup {Absent} /\ f.local \in LocalTables \cup {Absent, Odd}
         /\ f.local = Odd => f.foreign \in SUBSET {"credentials"}
         /\ f.parses = FALSE => f.foreign = {}
<1>1. \A x \in LocalTables \cup {Absent} : x # Odd BY NamesAssumption DEF Odd, Absent
<1> QED BY <1>1 DEF Files, Unparsable, EmptyTable, Foreign

\* Patching makes a table that holds the snapshot and keeps the foreign keys.
LEMMA PatchingIsFaithful ==
  ASSUME NEW f \in Files, NEW snapshot \in Snapshots
  PROVE  /\ Patched(f, snapshot) \in Files
         /\ Patched(f, snapshot).foreign = f.foreign
         /\ f.local # Odd => HoldsSnapshot(Patched(f, snapshot), snapshot)
<1>1. /\ f.foreign \in SUBSET Foreign /\ f.local \in LocalTables \cup {Absent, Odd}
      /\ f.local = Odd => f.foreign \in SUBSET {"credentials"}
  BY FilesHaveKeys
<1>2. snapshot.mode \in ModeNames \cup {Absent} /\ snapshot.local \in LocalTables \cup {Absent}
  BY DEF Snapshots
<1>3. Patched(f, snapshot) \in Files BY <1>1, <1>2 DEF Patched, Files
<1> QED BY <1>1, <1>2, <1>3, NamesAssumption DEF Patched, HoldsSnapshot, Odd, Absent

\* Before the first save nothing is known.
LEMMA SettingsInitially == ConfigInit => SettingsInv
BY DEF ConfigInit, SettingsInv, SavingShape, OneSave, SaveKnows, FileKnows, Saves, Truncated, Resting,
   EmptyTable, Files

\* An edit by hand begins anew.
LEMMA EditKeepsSettingsInv ==
  ASSUME SettingsInv, NEW f \in Files, Edit(f)
  PROVE  SettingsInv'
<1>1. saving' = saving /\ file' = f /\ saved' = NoSnapshot /\ entered' = f.foreign
      /\ lone' = \A s \in Savers : ~Saves(s)
  BY DEF Edit, Saves
<1>2. SavingShape' BY <1>1 DEF SettingsInv, SavingShape
<1>3. ASSUME lone' PROVE (OneSave /\ SaveKnows /\ FileKnows)'
  <2>1. \A s \in Savers : ~Saves(s)' BY <1>1, <1>3 DEF Saves
  <2>2. OneSave' /\ SaveKnows' BY <2>1 DEF OneSave, SaveKnows
  <2>3. FileKnows' BY <1>1 DEF FileKnows
  <2> QED BY <2>2, <2>3
<1> QED BY <1>2, <1>3 DEF SettingsInv

\* A save begins: it finds what the last one, or the editor, left.
LEMMA ReadKeepsSettingsInv ==
  ASSUME SettingsInv, NEW s \in Savers, NEW snapshot \in Snapshots, ReadForSave(s, snapshot)
  PROVE  SettingsInv'
<1> DEFINE new == [stage |-> "read", table |-> Patched(file, snapshot), snapshot |-> snapshot]
<1>1. saving' = [saving EXCEPT ![s] = new] /\ ~Saves(s) /\ UNCHANGED <<file, entered, saved>>
      /\ (lone' => lone /\ ~Others(s) /\ file.parses /\ file.local # Odd)
  BY DEF ReadForSave, Saves
<1>2. file \in Files BY DEF SettingsInv, SavingShape
<1>3. new \in [stage : {"none", "read", "truncated"}, table : Files, snapshot : Snapshots \cup {NoSnapshot}]
  BY <1>2, PatchingIsFaithful
<1>4. saving'[s] = new /\ \A t \in Savers \ {s} : saving'[t] = saving[t]
  BY <1>1 DEF SettingsInv, SavingShape
<1> HIDE DEF new
<1>5. SavingShape' BY <1>1, <1>3 DEF SettingsInv, SavingShape
<1>6. ASSUME lone' PROVE (OneSave /\ SaveKnows /\ FileKnows)'
  <2>1. \A t \in Savers : ~Saves(t) BY <1>1, <1>6 DEF Others, Saves
  <2>2. \A t \in Savers : Saves(t)' => t = s BY <1>4, <2>1 DEF Saves
  <2>3. FileKnows /\ \A t \in Savers : ~Truncated(t) BY <1>1, <1>6, <2>1 DEF SettingsInv, Truncated, Saves
  <2>4. HoldsSnapshot(new.table, new.snapshot) /\ entered \subseteq new.table.foreign
    BY <1>1, <1>2, <1>6, <2>3, PatchingIsFaithful DEF FileKnows, new
  <2>5. \A t \in Savers : ~Truncated(t)' BY <1>4, <2>3 DEF Truncated, new
  <2>6. SaveKnows' BY <1>1, <1>4, <2>2, <2>4, <2>5 DEF SaveKnows, HoldsSnapshot
  <2>7. FileKnows' BY <1>1, <2>3 DEF FileKnows, HoldsSnapshot
  <2> QED BY <2>2, <2>6, <2>7 DEF OneSave
<1> QED BY <1>5, <1>6 DEF SettingsInv

\* The first half of a write.
LEMMA TruncateKeepsSettingsInv ==
  ASSUME SettingsInv, NEW s \in Savers, Truncate(s)
  PROVE  SettingsInv'
<1> DEFINE new == [saving[s] EXCEPT !.stage = "truncated"]
<1>1. saving' = [saving EXCEPT ![s] = new] /\ saving[s].stage = "read" /\ file' = EmptyTable
      /\ UNCHANGED <<entered, lone, saved>>
  BY DEF Truncate
<1>2. new \in [stage : {"none", "read", "truncated"}, table : Files, snapshot : Snapshots \cup {NoSnapshot}]
      /\ new.stage = "truncated" /\ new.table = saving[s].table /\ new.snapshot = saving[s].snapshot
  BY DEF SettingsInv, SavingShape
<1>3. saving'[s] = new /\ \A t \in Savers \ {s} : saving'[t] = saving[t]
  BY <1>1 DEF SettingsInv, SavingShape
<1> HIDE DEF new
<1>4. EmptyTable \in Files BY DEF EmptyTable, Files
<1>5. SavingShape' BY <1>1, <1>2, <1>4 DEF SettingsInv, SavingShape
<1>6. ASSUME lone PROVE (OneSave /\ SaveKnows /\ FileKnows)'
  <2>1. \A t \in Savers : Saves(t)' => t = s
    BY <1>1, <1>3, <1>6 DEF SettingsInv, OneSave, Saves
  <2>2. SaveKnows' BY <1>1, <1>2, <1>3, <1>6, <2>1 DEF SettingsInv, SaveKnows, HoldsSnapshot, Saves, Truncated
  <2>3. FileKnows' BY <1>2, <1>3 DEF FileKnows, Truncated
  <2> QED BY <2>1, <2>2, <2>3 DEF OneSave
<1> QED BY <1>1, <1>5, <1>6 DEF SettingsInv

\* A save ends, or breaks off.
LEMMA EndOfSaveKeepsSettingsInv ==
  ASSUME SettingsInv, NEW s \in Savers, WriteTable(s) \/ SaveBreaks(s)
  PROVE  SettingsInv'
<1>1. saving' = [saving EXCEPT ![s] = Resting] /\ Saves(s) /\ entered' = entered /\ (lone' => lone)
  <2>1. CASE WriteTable(s)
    <3>1. saving' = [saving EXCEPT ![s] = Resting] /\ Saves(s) BY <2>1 DEF WriteTable, Saves
    <3>2. entered' = entered /\ lone' = lone BY <2>1 DEF WriteTable
    <3> QED BY <3>1, <3>2
  <2>2. CASE SaveBreaks(s)
    <3>1. saving' = [saving EXCEPT ![s] = Resting] /\ Saves(s) BY <2>2 DEF SaveBreaks, Saves
    <3>2. entered' = entered /\ lone' = (lone /\ saving[s].stage = "read") BY <2>2 DEF SaveBreaks
    <3> QED BY <3>1, <3>2
  <2> QED BY <2>1, <2>2
<1>2. Resting.stage = "none"
      /\ Resting \in [stage : {"none", "read", "truncated"}, table : Files, snapshot : Snapshots \cup {NoSnapshot}]
  BY DEF Resting, EmptyTable, Files
<1>3. saving'[s] = Resting /\ \A t \in Savers \ {s} : saving'[t] = saving[t]
  BY <1>1 DEF SettingsInv, SavingShape
<1>4. saving[s] \in [stage : {"none", "read", "truncated"}, table : Files, snapshot : Snapshots \cup {NoSnapshot}]
  BY DEF SettingsInv, SavingShape
<1>5. SavingShape'
  <2>1. saving' \in [Savers -> [stage : {"none", "read", "truncated"}, table : Files,
                               snapshot : Snapshots \cup {NoSnapshot}]]
    BY <1>1, <1>2 DEF SettingsInv, SavingShape
  <2>2. Unparsable \in Files BY DEF Files
  <2>3. file' \in Files /\ saved' \in Snapshots \cup {NoSnapshot}
    BY <1>4, <2>2 DEF WriteTable, SaveBreaks, SettingsInv, SavingShape
  <2> QED BY <2>1, <2>3 DEF SavingShape
<1>6. ASSUME lone' PROVE (OneSave /\ SaveKnows /\ FileKnows)'
  <2>1. OneSave /\ SaveKnows /\ FileKnows BY <1>1, <1>6 DEF SettingsInv
  <2>2. \A t \in Savers : ~Saves(t)' BY <1>1, <1>2, <1>3, <2>1 DEF OneSave, Saves
  <2>3. CASE WriteTable(s)
    <3>1. Truncated(s) /\ file = EmptyTable BY <1>1, <2>1, <2>3 DEF WriteTable, Truncated, SaveKnows
    <3>2. file' = saving[s].table /\ saved' = saving[s].snapshot BY <2>3, <3>1 DEF WriteTable
    <3>3. FileKnows' BY <1>1, <2>1, <3>2 DEF SaveKnows, FileKnows, HoldsSnapshot
    <3> QED BY <2>2, <3>3 DEF OneSave, SaveKnows
  <2>4. CASE SaveBreaks(s)
    <3>1. saving[s].stage = "read" /\ UNCHANGED <<file, saved>> BY <1>6, <2>4 DEF SaveBreaks
    <3>2. \A t \in Savers : ~Truncated(t) BY <1>1, <2>1, <3>1 DEF OneSave, Saves, Truncated
    <3>3. FileKnows' BY <1>1, <2>1, <3>1, <3>2 DEF FileKnows, HoldsSnapshot
    <3> QED BY <2>2, <3>3 DEF OneSave, SaveKnows
  <2> QED BY <2>3, <2>4
<1> QED BY <1>5, <1>6 DEF SettingsInv

\* Saves that follow one another on files that parse lose neither credentials
\* nor search paths, and what was saved last is what is loaded.
THEOREM LoneSavesKeepCredentials == FilesSpec => []LoneSavesAreFaithful
<1>1. FilesInit => SettingsInv BY SettingsInitially DEF FilesInit
<1>2. SettingsInv /\ [FilesNext]_filesVars => SettingsInv'
  <2> SUFFICES ASSUME SettingsInv, [FilesNext]_filesVars PROVE SettingsInv' OBVIOUS
  <2>1. CASE ConfigNext
    BY <2>1, EditKeepsSettingsInv, ReadKeepsSettingsInv, TruncateKeepsSettingsInv, EndOfSaveKeepsSettingsInv
    DEF ConfigNext
  <2>2. CASE UNCHANGED configVars
    BY <2>2 DEF configVars, SettingsInv, SavingShape, OneSave, SaveKnows, FileKnows, HoldsSnapshot, Saves, Truncated
  <2> QED BY <2>1, <2>2 DEF FilesNext, filesVars
<1>3. SettingsInv => LoneSavesAreFaithful
  <2> SUFFICES ASSUME SettingsInv, lone, Quiet
               PROVE  /\ entered \subseteq file.foreign
                      /\ saved # NoSnapshot =>
                           /\ LoadSnapshot = saved
                           /\ "credentials" \in entered /\ Or(saved.mode, DefaultMode) \in InputModes =>
                                Load([credentials |-> FALSE, mode |-> Absent]) = Or(saved.mode, DefaultMode)
    BY DEF LoneSavesAreFaithful
  <2>1. FileKnows /\ \A s \in Savers : ~Truncated(s)
    BY DEF SettingsInv, Quiet, Truncated
  <2>2. entered \subseteq file.foreign BY <2>1 DEF FileKnows
  <2>3. ASSUME saved # NoSnapshot PROVE LoadSnapshot = saved
    <3>1. HoldsSnapshot(file, saved) /\ saved \in Snapshots
      BY <2>1, <2>3 DEF FileKnows, SettingsInv, SavingShape
    <3>2. saved = [mode |-> saved.mode, local |-> saved.local] BY <3>1 DEF Snapshots
    <3> QED BY <3>1, <3>2 DEF LoadSnapshot, HoldsSnapshot
  <2>4. ASSUME saved # NoSnapshot, "credentials" \in entered, Or(saved.mode, DefaultMode) \in InputModes
        PROVE  Load([credentials |-> FALSE, mode |-> Absent]) = Or(saved.mode, DefaultMode)
    <3> DEFINE env == [credentials |-> FALSE, mode |-> Absent]
    <3>1. HoldsSnapshot(file, saved) /\ "credentials" \in file.foreign
      BY <2>1, <2>2, <2>4 DEF FileKnows
    <3>2. Or(env.mode, Or(file.mode, DefaultMode)) = Or(saved.mode, DefaultMode)
      BY <3>1 DEF Or, HoldsSnapshot
    <3> QED BY <2>4, <3>1, <3>2 DEF Load, HoldsSnapshot
  <2> QED BY <2>2, <2>3, <2>4
<1> QED BY <1>1, <1>2, <1>3, PTL DEF FilesSpec

-----------------------------------------------------------------------------
(***************************************************************************)
(* The history.  The counts of a key's rows add up to what was chosen, or  *)
(* to more: but then two rows have been counted up at once, which neither  *)
(* a vacuum nor anything short of a reset takes away.                      *)
(***************************************************************************)
Row == [id : Nat, key : Keys, count : Nat \ {0}, old : BOOLEAN]

RowsOK ==
  /\ rows \subseteq Row /\ IsFiniteSet(rows)
  /\ inserted \in Nat /\ \A r \in rows : r.id <= inserted
  /\ \A r, s \in rows : r.id = s.id => r = s
  /\ doing \in [Processes -> {Free, Resetting} \cup {Inserting(k) : k \in Keys}]
  /\ chosen \in [Keys -> Int]

CountedTwice(k) == \E r, s \in RowsOf(k) : r # s /\ r.count >= 2 /\ s.count >= 2

Counted(k) ==
  /\ chosen[k] <= SumOfCounts(RowsOf(k))
  /\ chosen[k] = SumOfCounts(RowsOf(k)) \/ CountedTwice(k)

HistoryInv == RowsOK /\ \A k \in Keys : Counted(k)

-----------------------------------------------------------------------------
(* Sums of counts. *)

\* The sum of some rows' counts, as part of a sum over more rows.
LEMMA CountsInMore ==
  ASSUME NEW Y \in SUBSET Row, IsFiniteSet(Y), NEW X \in SUBSET Y
  PROVE  /\ SumOfCounts(X) \in Int /\ IsFiniteSet(X)
         /\ SumOfCounts(X) = SumFunctionOnSet([r \in Y |-> r.count], X)
<1> DEFINE f == [r \in X |-> r.count]
           g == [r \in Y |-> r.count]
<1>1. IsFiniteSet(X) BY FS_Subset
<1>2. \A x \in X : f[x] \in Int /\ g[x] = f[x] BY DEF Row
<1> HIDE DEF f, g
<1>3. SumFunctionOnSet(f, X) \in Int BY <1>1, <1>2, SumIsInt
<1>4. SumFunctionOnSet(f, X) = SumFunctionOnSet(g, X) BY <1>1, <1>2, SumOfSame
<1>5. SumOfCounts(X) = SumFunctionOnSet(f, X) BY DEF SumOfCounts, f
<1> QED BY <1>1, <1>3, <1>4, <1>5 DEF g

\* Rows that are put together, and taken away.
LEMMA CountsOfUnion ==
  ASSUME NEW X \in SUBSET Row, IsFiniteSet(X), NEW Y \in SUBSET Row, IsFiniteSet(Y), X \cap Y = {}
  PROVE  SumOfCounts(X \cup Y) = SumOfCounts(X) + SumOfCounts(Y)
<1> DEFINE Z == X \cup Y
           g == [r \in Z |-> r.count]
<1>1. IsFiniteSet(Z) /\ Z \in SUBSET Row BY FS_Union
<1>2. \A r \in X \cup Y : g[r] \in Int BY DEF Row
<1>3. /\ SumOfCounts(X) = SumFunctionOnSet(g, X) /\ SumOfCounts(Y) = SumFunctionOnSet(g, Y)
      /\ SumOfCounts(Z) = SumFunctionOnSet(g, Z)
  BY <1>1, CountsInMore
<1> HIDE DEF g
<1>4. SumFunctionOnSet(g, X \cup Y) = SumFunctionOnSet(g, X) + SumFunctionOnSet(g, Y)
  BY <1>2, SumOfUnion
<1> QED BY <1>3, <1>4

\* Rows that are rewritten one by one, each with its count and more.
LEMMA CountsOfRewritten ==
  ASSUME NEW X \in SUBSET Row, IsFiniteSet(X), \A r, s \in X : r.id = s.id => r = s,
         NEW h, \A r \in X : h[r] \in Row /\ h[r].id = r.id /\ h[r].count \in Int,
         NEW more \in [X -> Int], \A r \in X : h[r].count = r.count + more[r]
  PROVE  SumOfCounts({h[r] : r \in X}) = SumOfCounts(X) + SumFunctionOnSet(more, X)
<1> DEFINE Y == {h[r] : r \in X}
           j == [r \in X |-> h[r]]
           f == [r \in X |-> r.count]
           g == [r \in Y |-> r.count]
           c == [r \in X |-> h[r].count]
<1>1. j \in Bijection(X, Y)
  <2>1. \A r, s \in X : j[r] = j[s] => r = s
    <3> SUFFICES ASSUME NEW r \in X, NEW s \in X, h[r] = h[s] PROVE r = s OBVIOUS
    <3>1. r.id = s.id OBVIOUS
    <3> QED BY <3>1
  <2>2. j \in [X -> Y] OBVIOUS
  <2>3. \A y \in Y : \E r \in X : j[r] = y OBVIOUS
  <2> HIDE DEF j, Y
  <2> QED BY <2>1, <2>2, <2>3 DEF Bijection, Injection, Surjection, IsInjective
<1>2. \A r \in X : c[r] \in Int /\ c[r] = g[j[r]] OBVIOUS
<1>3. \A r \in X : f[r] \in Int /\ more[r] \in Int /\ c[r] = f[r] + more[r] BY DEF Row
<1>4. SumOfCounts(Y) = SumFunctionOnSet(g, Y) /\ SumOfCounts(X) = SumFunctionOnSet(f, X)
  BY DEF SumOfCounts
<1> HIDE DEF j, f, g, c, Y
<1>5. SumFunctionOnSet(c, X) = SumFunctionOnSet(g, Y) BY <1>1, <1>2, SumOfRenamed
<1>6. SumFunctionOnSet(c, X) = SumFunctionOnSet(f, X) + SumFunctionOnSet(more, X)
  BY <1>3, SumOfSums
<1> QED BY <1>4, <1>5, <1>6 DEF Y

\* The rows of some keys, key by key.
LEMMA CountsByKey ==
  ASSUME RowsOK, NEW K \in SUBSET Keys
  PROVE  SumOfCounts({r \in rows : r.key \in K})
           = SumFunctionOnSet([k \in Keys |-> SumOfCounts(RowsOf(k))], K)
<1> DEFINE f == [k \in Keys |-> SumOfCounts(RowsOf(k))]
           Of(s) == {r \in rows : r.key \in s}
           F == {s \in SUBSET K : SumOfCounts(Of(s)) = SumFunctionOnSet(f, s)}
<1>1. IsFiniteSet(K) BY KeysAssumption, FS_Subset
<1>2. ASSUME NEW s \in SUBSET K
      PROVE  Of(s) \in SUBSET Row /\ IsFiniteSet(Of(s)) /\ SumOfCounts(Of(s)) \in Int
  <2>1. Of(s) \in SUBSET rows OBVIOUS
  <2> QED BY <2>1, CountsInMore DEF RowsOK
<1>3. ASSUME NEW k \in Keys
      PROVE  RowsOf(k) \in SUBSET Row /\ IsFiniteSet(RowsOf(k)) /\ f[k] \in Int
  <2>1. RowsOf(k) \in SUBSET rows BY DEF RowsOf
  <2> QED BY <2>1, CountsInMore DEF RowsOK
<1> HIDE DEF f
<1>4. ASSUME NEW s \in SUBSET K, \A t \in SUBSET s : t # s => t \in F PROVE s \in F
  <2>1. IsFiniteSet(s) BY <1>1, FS_Subset
  <2>2. CASE s = {}
    <3>1. Of(s) = {} BY <2>2
    <3>2. SumOfCounts({}) = 0 BY SumOfNone DEF SumOfCounts
    <3> QED BY <2>2, <3>1, <3>2, SumOfNone
  <2>3. CASE s # {}
    <3>1. PICK k \in s : TRUE BY <2>3
    <3> DEFINE t == s \ {k}
    <3>2. t \in SUBSET s /\ t # s BY <3>1
    <3>3. Of(s) = Of(t) \cup RowsOf(k) /\ Of(t) \cap RowsOf(k) = {} BY <3>1 DEF RowsOf
    <3>4. SumOfCounts(Of(s)) = SumOfCounts(Of(t)) + SumOfCounts(RowsOf(k))
      <4>1. k \in Keys /\ t \in SUBSET K BY <3>1
      <4> HIDE DEF Of, t
      <4> QED BY <1>2, <1>3, <3>3, <4>1, CountsOfUnion
    <3>5. SumFunctionOnSet(f, s) = f[k] + SumFunctionOnSet(f, t)
      BY <1>3, <2>1, <3>1, SumTakesOut
    <3>6. SumOfCounts(Of(t)) = SumFunctionOnSet(f, t) BY <1>4, <3>2
    <3>7. f[k] = SumOfCounts(RowsOf(k)) BY <3>1 DEF f
    <3>8. SumOfCounts(Of(t)) \in Int /\ f[k] \in Int
      <4>1. k \in Keys /\ t \in SUBSET K BY <3>1
      <4> HIDE DEF Of, t
      <4> QED BY <1>2, <1>3, <4>1
    <3> QED BY <3>4, <3>5, <3>6, <3>7, <3>8
  <2> QED BY <2>2, <2>3
<1>5. K \in F
  <2> HIDE DEF F
  <2> QED BY <1>1, <1>4, InductionOnSubsets
<1> QED BY <1>5 DEF f

-----------------------------------------------------------------------------
(* The statements. *)

\* The rows of a key are some of the rows.
LEMMA RowsOfAreRows ==
  ASSUME RowsOK, NEW k \in Keys
  PROVE  /\ RowsOf(k) \in SUBSET Row /\ IsFiniteSet(RowsOf(k)) /\ SumOfCounts(RowsOf(k)) \in Int
         /\ \A r, s \in RowsOf(k) : r.id = s.id => r = s
<1>1. RowsOf(k) \in SUBSET rows BY DEF RowsOf
<1> QED BY <1>1, CountsInMore DEF RowsOK

LEMMA HistoryInitially == HistoryInit => HistoryInv
<1> SUFFICES ASSUME HistoryInit PROVE HistoryInv OBVIOUS
<1>1. RowsOK BY FS_EmptySet DEF HistoryInit, RowsOK
<1>2. ASSUME NEW k \in Keys PROVE Counted(k)
  <2>1. RowsOf(k) = {} BY DEF HistoryInit, RowsOf
  <2>2. SumOfCounts({}) = 0 BY SumOfNone DEF SumOfCounts
  <2> QED BY <2>1, <2>2 DEF HistoryInit, Counted
<1> QED BY <1>1, <1>2 DEF HistoryInv

\* A key whose rows and count stay keeps what is known of them.
LEMMA KeyStays ==
  ASSUME NEW k \in Keys, Counted(k), RowsOf(k)' = RowsOf(k), chosen'[k] = chosen[k]
  PROVE  Counted(k)'
BY DEF Counted, CountedTwice

\* The UPDATE counts every row of its key up, and the key once.
LEMMA UpdateKeepsCounts ==
  ASSUME HistoryInv, NEW p \in Processes, NEW k \in Keys, RecordUpdates(p, k)
  PROVE  HistoryInv'
<1> DEFINE X == RowsOf(k)
           Y == {Used(r) : r \in X}
<1>1. /\ X # {} /\ rows' = (rows \ X) \cup Y
      /\ chosen' = [chosen EXCEPT ![k] = @ + 1] /\ UNCHANGED <<doing, inserted>>
  BY DEF RecordUpdates, Chosen
<1>2. /\ X \in SUBSET Row /\ IsFiniteSet(X) /\ X \subseteq rows /\ SumOfCounts(X) \in Int
      /\ \A r, s \in X : r.id = s.id => r = s
  BY RowsOfAreRows DEF HistoryInv, RowsOf
<1>3. ASSUME NEW r \in X
      PROVE  /\ Used(r) \in Row /\ Used(r).id = r.id /\ Used(r).key = k /\ r.key = k
             /\ Used(r).count = r.count + 1 /\ r.count >= 1
  <2>1. r \in Row /\ r.key = k BY <1>2 DEF RowsOf
  <2>2. r.count + 1 \in Nat \ {0} /\ r.count >= 1 BY <2>1 DEF Row
  <2> QED BY <2>1, <2>2 DEF Row, Used
<1>4. RowsOK'
  <2>1. IsFiniteSet(Y)
    <3>1. [r \in X |-> Used(r)] \in Surjection(X, Y) BY DEF Surjection
    <3> QED BY <1>2, <3>1, FS_Surjection
  <2>2. IsFiniteSet(rows') BY <1>1, <2>1, FS_Union, FS_Difference DEF HistoryInv, RowsOK
  <2>3. rows' \subseteq Row /\ \A r \in rows' : r.id <= inserted'
    BY <1>1, <1>2, <1>3 DEF HistoryInv, RowsOK
  <2>4. \A r, s \in rows' : r.id = s.id => r = s
    <3>1. ASSUME NEW r \in rows', NEW s \in rows', r.id = s.id PROVE r = s
      <4>1. PICK r0 \in rows : r0.id = r.id /\ ((r = r0 /\ r0 \notin X) \/ (r = Used(r0) /\ r0 \in X))
        BY <1>1, <1>2, <1>3
      <4>2. PICK s0 \in rows : s0.id = s.id /\ ((s = s0 /\ s0 \notin X) \/ (s = Used(s0) /\ s0 \in X))
        BY <1>1, <1>2, <1>3
      <4>3. r0 = s0 BY <3>1, <4>1, <4>2 DEF HistoryInv, RowsOK
      <4> QED BY <4>1, <4>2, <4>3
    <3> QED BY <3>1
  <2>5. chosen' \in [Keys -> Int] BY <1>1 DEF HistoryInv, RowsOK
  <2> QED BY <1>1, <2>2, <2>3, <2>4, <2>5 DEF HistoryInv, RowsOK
<1>5. RowsOf(k)' = Y BY <1>1, <1>3 DEF RowsOf
<1>6. chosen'[k] = chosen[k] + 1 /\ chosen[k] \in Int BY <1>1 DEF HistoryInv, RowsOK
<1>7. SumOfCounts(Y) = SumOfCounts(X) + Cardinality(X)
  <2> DEFINE h == [r \in X |-> Used(r)]
             more == [r \in X |-> 1]
  <2>1. Y = {h[r] : r \in X} OBVIOUS
  <2>2. more \in [X -> Int] /\ \A r \in X : more[r] = 1 OBVIOUS
  <2>3. \A r \in X : h[r] \in Row /\ h[r].id = r.id /\ h[r].count \in Int /\ h[r].count = r.count + more[r]
    BY <1>3 DEF Row
  <2> HIDE DEF h, more, X, Y
  <2>4. SumOfCounts({h[r] : r \in X}) = SumOfCounts(X) + SumFunctionOnSet(more, X)
    BY <1>2, <2>2, <2>3, CountsOfRewritten
  <2>5. SumFunctionOnSet(more, X) = Cardinality(X) BY <1>2, <2>2, SumOfOnes
  <2> QED BY <2>1, <2>4, <2>5
<1>8. Cardinality(X) \in Nat /\ Cardinality(X) >= 1
  BY <1>1, <1>2, FS_CardinalityType, FS_EmptySet
<1>9. Counted(k)'
  <2>1. Counted(k) BY DEF HistoryInv
  <2>2. chosen'[k] <= SumOfCounts(Y) BY <1>2, <1>6, <1>7, <1>8, <2>1 DEF Counted
  <2>3. CASE \E r, s \in X : r # s
    <3>1. PICK r \in X, s \in X : r # s BY <2>3
    <3>2. /\ Used(r) \in Y /\ Used(s) \in Y /\ Used(r) # Used(s)
          /\ Used(r).count >= 2 /\ Used(s).count >= 2
      BY <1>2, <1>3, <3>1 DEF Row
    <3>3. CountedTwice(k)' BY <1>5, <3>2 DEF CountedTwice
    <3> QED BY <1>5, <2>2, <3>3 DEF Counted
  <2>4. CASE ~\E r, s \in X : r # s
    <3>1. PICK r \in X : X = {r} BY <1>1, <2>4
    <3>2. Cardinality(X) = 1 BY <3>1, FS_Singleton
    <3>3. chosen[k] = SumOfCounts(X) BY <2>1, <2>4 DEF Counted, CountedTwice
    <3>4. chosen'[k] = SumOfCounts(Y) BY <1>2, <1>6, <1>7, <3>2, <3>3
    <3> QED BY <1>5, <2>2, <3>4 DEF Counted
  <2> QED BY <2>3, <2>4
<1>10. ASSUME NEW l \in Keys, l # k PROVE Counted(l)'
  <2>1. RowsOf(l)' = RowsOf(l) BY <1>1, <1>3, <1>10 DEF RowsOf
  <2>2. chosen'[l] = chosen[l] BY <1>1, <1>10 DEF HistoryInv, RowsOK
  <2> QED BY <2>1, <2>2, KeyStays DEF HistoryInv
<1> QED BY <1>4, <1>9, <1>10 DEF HistoryInv

\* The INSERT adds a row that counts one, also where another has come before.
LEMMA InsertKeepsCounts ==
  ASSUME HistoryInv, NEW p \in Processes, RecordInserts(p)
  PROVE  HistoryInv'
<1>1. PICK k \in Keys : doing[p].key = k
  <2>1. doing[p] \in {Free, Resetting} \cup {Inserting(l) : l \in Keys} BY DEF HistoryInv, RowsOK
  <2>2. doing[p].what = "insert" BY DEF RecordInserts
  <2> QED BY <2>1, <2>2 DEF Free, Resetting, Inserting
<1>2. PICK new : new = [id |-> inserted + 1, key |-> k, count |-> 1, old |-> FALSE] OBVIOUS
<1>3. /\ rows' = rows \cup {new} /\ inserted' = inserted + 1
      /\ chosen' = [chosen EXCEPT ![k] = @ + 1] /\ doing' = [doing EXCEPT ![p] = Free]
  BY <1>1, <1>2 DEF RecordInserts, Chosen, Does
<1>4. new \in Row /\ new.id = inserted + 1 /\ new.key = k /\ new.count = 1
  BY <1>2 DEF Row, HistoryInv, RowsOK
<1>5. \A r \in rows : r.id \in Nat /\ r.id < inserted + 1 BY DEF HistoryInv, RowsOK, Row
<1>6. RowsOK'
  <2>1. IsFiniteSet(rows') BY <1>3, FS_AddElement DEF HistoryInv, RowsOK
  <2>2. rows' \subseteq Row /\ inserted' \in Nat BY <1>3, <1>4 DEF HistoryInv, RowsOK
  <2>3. \A r \in rows' : r.id <= inserted' BY <1>3, <1>4, <1>5 DEF HistoryInv, RowsOK
  <2>4. \A r, s \in rows' : r.id = s.id => r = s BY <1>3, <1>4, <1>5 DEF HistoryInv, RowsOK
  <2>5. doing' \in [Processes -> {Free, Resetting} \cup {Inserting(l) : l \in Keys}]
    BY <1>3 DEF HistoryInv, RowsOK
  <2>6. chosen' \in [Keys -> Int] BY <1>3 DEF HistoryInv, RowsOK
  <2> QED BY <2>1, <2>2, <2>3, <2>4, <2>5, <2>6 DEF RowsOK
<1>7. Counted(k)'
  <2>1. RowsOf(k)' = RowsOf(k) \cup {new} BY <1>3, <1>4 DEF RowsOf
  <2>2. RowsOf(k) \cap {new} = {} BY <1>4, <1>5 DEF RowsOf
  <2>3. SumOfCounts({new}) = 1
    <3>1. IsFiniteSet({new}) /\ Cardinality({new}) = 1 BY FS_Singleton
    <3> DEFINE f == [r \in {new} |-> r.count]
    <3>2. \A r \in {new} : f[r] = 1 BY <1>4
    <3>3. SumOfCounts({new}) = SumFunctionOnSet(f, {new}) BY DEF SumOfCounts
    <3> HIDE DEF f
    <3> QED BY <3>1, <3>2, <3>3, SumOfOnes
  <2>4. /\ RowsOf(k) \in SUBSET Row /\ IsFiniteSet(RowsOf(k)) /\ SumOfCounts(RowsOf(k)) \in Int
        /\ {new} \in SUBSET Row /\ IsFiniteSet({new})
    BY <1>3, <1>4, RowsOfAreRows, FS_Singleton DEF HistoryInv
  <2>5. SumOfCounts(RowsOf(k) \cup {new}) = SumOfCounts(RowsOf(k)) + SumOfCounts({new})
    BY <2>2, <2>4, CountsOfUnion
  <2>6. Counted(k) /\ chosen'[k] = chosen[k] + 1 /\ chosen[k] \in Int
    BY <1>3 DEF HistoryInv, RowsOK
  <2>7. CountedTwice(k) => CountedTwice(k)' BY <2>1 DEF CountedTwice
  <2> QED BY <2>1, <2>3, <2>4, <2>5, <2>6, <2>7 DEF Counted
<1>8. ASSUME NEW l \in Keys, l # k PROVE Counted(l)'
  <2>1. RowsOf(l)' = RowsOf(l) BY <1>3, <1>4, <1>8 DEF RowsOf
  <2>2. chosen'[l] = chosen[l] BY <1>3, <1>8 DEF HistoryInv, RowsOK
  <2> QED BY <2>1, <2>2, KeyStays DEF HistoryInv
<1> QED BY <1>3, <1>6, <1>7, <1>8 DEF HistoryInv

\* A row that grows old keeps its count.
LEMMA AgeKeepsCounts ==
  ASSUME HistoryInv, NEW r \in rows, Ages(r)
  PROVE  HistoryInv'
<1> DEFINE k == r.key
           aged == [r EXCEPT !.old = TRUE]
           X == RowsOf(k)
           h == [s \in X |-> IF s = r THEN aged ELSE s]
           more == [s \in X |-> 0]
<1>1. rows' = (rows \ {r}) \cup {aged} /\ UNCHANGED <<doing, inserted, chosen>> BY DEF Ages
<1>2. aged \in Row /\ aged.id = r.id /\ aged.key = k /\ aged.count = r.count /\ k \in Keys
  BY DEF Row, HistoryInv, RowsOK
<1>3. /\ X \in SUBSET Row /\ IsFiniteSet(X) /\ SumOfCounts(X) \in Int /\ r \in X
      /\ \A s, t \in X : s.id = t.id => s = t
  BY <1>2, RowsOfAreRows DEF HistoryInv, RowsOf
<1>4. \A s \in X : h[s] \in Row /\ h[s].id = s.id /\ h[s].count \in Int /\ h[s].count = s.count /\ h[s].key = k
  BY <1>2, <1>3 DEF Row, RowsOf
<1>5. RowsOf(k)' = {h[s] : s \in X}
  <2>1. RowsOf(k)' = (X \ {r}) \cup {aged} BY <1>1, <1>2 DEF RowsOf
  <2>2. {h[s] : s \in X} = (X \ {r}) \cup {aged} BY <1>3
  <2> QED BY <2>1, <2>2
<1> HIDE DEF h, aged
<1>6. RowsOK'
  <2>1. IsFiniteSet(rows') BY <1>1, FS_AddElement, FS_RemoveElement DEF HistoryInv, RowsOK
  <2>2. rows' \subseteq Row /\ \A s \in rows' : s.id <= inserted'
    BY <1>1, <1>2 DEF HistoryInv, RowsOK
  <2>3. \A s, t \in rows' : s.id = t.id => s = t BY <1>1, <1>2 DEF HistoryInv, RowsOK
  <2> QED BY <1>1, <2>1, <2>2, <2>3 DEF HistoryInv, RowsOK
<1>7. SumOfCounts(RowsOf(k)') = SumOfCounts(X)
  <2>1. \A s \in X : more[s] = 0 /\ h[s].count = s.count + more[s] BY <1>3, <1>4 DEF Row
  <2>2. more \in [X -> Int] /\ SumFunctionOnSet(more, X) = 0
    <3> DEFINE ones == [s \in X |-> 1]
    <3>1. more \in [X -> Int] /\ \A s \in X : ones[s] = 1 /\ more[s] \in Int /\ ones[s] \in Int /\ ones[s] = more[s] + ones[s]
      OBVIOUS
    <3> HIDE DEF more, ones, X
    <3>2. SumFunctionOnSet(ones, X) = SumFunctionOnSet(more, X) + SumFunctionOnSet(ones, X)
      BY <1>3, <3>1, SumOfSums
    <3>3. SumFunctionOnSet(ones, X) \in Int /\ SumFunctionOnSet(more, X) \in Int
      BY <1>3, <3>1, SumIsInt
    <3> QED BY <3>1, <3>2, <3>3
  <2> HIDE DEF more, X
  <2>3. SumOfCounts({h[s] : s \in X}) = SumOfCounts(X) + SumFunctionOnSet(more, X)
    BY <1>3, <1>4, <2>1, <2>2, CountsOfRewritten
  <2> QED BY <1>3, <1>5, <2>2, <2>3
<1>8. Counted(k)'
  <2>1. Counted(k) /\ chosen'[k] = chosen[k] BY <1>1, <1>2 DEF HistoryInv
  <2>2. CountedTwice(k) => CountedTwice(k)'
    <3> SUFFICES ASSUME NEW s \in X, NEW t \in X, s # t, s.count >= 2, t.count >= 2
                 PROVE  CountedTwice(k)'
      BY DEF CountedTwice
    <3>1. /\ h[s] \in RowsOf(k)' /\ h[t] \in RowsOf(k)' /\ h[s].id = s.id /\ h[t].id = t.id
          /\ h[s].count >= 2 /\ h[t].count >= 2
      BY <1>4, <1>5
    <3>2. h[s] # h[t] BY <1>3, <3>1
    <3> QED BY <3>1, <3>2 DEF CountedTwice
  <2> QED BY <1>7, <2>1, <2>2 DEF Counted
<1>9. ASSUME NEW l \in Keys, l # k PROVE Counted(l)'
  <2>1. RowsOf(l)' = RowsOf(l) BY <1>1, <1>2, <1>9 DEF RowsOf
  <2> QED BY <1>1, <2>1, KeyStays DEF HistoryInv
<1> QED BY <1>6, <1>8, <1>9 DEF HistoryInv

\* A vacuum takes rows that count one, which no update has counted twice.
LEMMA VacuumKeepsCounts ==
  ASSUME HistoryInv, NEW p \in Processes, Vacuum(p)
  PROVE  HistoryInv'
<1> DEFINE gone == {r \in rows : Stale(r)}
<1>1. /\ rows' = rows \ gone /\ UNCHANGED <<doing, inserted>>
      /\ chosen' = [k \in Keys |-> chosen[k] - Cardinality(gone \cap RowsOf(k))]
  BY DEF Vacuum
<1>2. \A r \in gone : r.count = 1 BY DEF Stale, HistoryInv, RowsOK, Row
<1>3. gone \subseteq rows OBVIOUS
<1> HIDE DEF gone
<1>4. ASSUME NEW k \in Keys
      PROVE  chosen'[k] \in Int /\ Counted(k)'
  <2> DEFINE G == gone \cap RowsOf(k)
             S == RowsOf(k) \ gone
  <2>1. /\ G \in SUBSET Row /\ IsFiniteSet(G) /\ S \in SUBSET Row /\ IsFiniteSet(S)
        /\ G \cap S = {} /\ RowsOf(k) = G \cup S /\ RowsOf(k)' = S
    <3>1. RowsOf(k) \in SUBSET Row /\ IsFiniteSet(RowsOf(k)) BY RowsOfAreRows DEF HistoryInv
    <3>2. IsFiniteSet(G) /\ IsFiniteSet(S) BY <3>1, FS_Subset
    <3>3. RowsOf(k)' = S BY <1>1 DEF RowsOf
    <3> QED BY <3>1, <3>2, <3>3
  <2>2. SumOfCounts(G) = Cardinality(G) /\ Cardinality(G) \in Nat
    <3> DEFINE f == [r \in G |-> r.count]
    <3>1. \A r \in G : f[r] = 1 BY <1>2
    <3>2. SumOfCounts(G) = SumFunctionOnSet(f, G) BY DEF SumOfCounts
    <3> HIDE DEF f, G
    <3> QED BY <2>1, <3>1, <3>2, SumOfOnes, FS_CardinalityType
  <2>3. chosen'[k] = chosen[k] - Cardinality(G) /\ chosen[k] \in Int /\ Counted(k)
    BY <1>1 DEF HistoryInv, RowsOK
  <2>4. CountedTwice(k) => CountedTwice(k)'
    <3> SUFFICES ASSUME NEW s \in RowsOf(k), NEW t \in RowsOf(k), s # t, s.count >= 2, t.count >= 2
                 PROVE  CountedTwice(k)'
      BY DEF CountedTwice
    <3>1. s \in S /\ t \in S BY <1>2
    <3> QED BY <2>1, <3>1 DEF CountedTwice
  <2> HIDE DEF G, S
  <2>5. SumOfCounts(RowsOf(k)) = SumOfCounts(G) + SumOfCounts(S) BY <2>1, CountsOfUnion
  <2>6. SumOfCounts(S) \in Int BY <2>1, CountsInMore
  <2> QED BY <2>1, <2>2, <2>3, <2>4, <2>5, <2>6 DEF Counted
<1>5. RowsOK'
  <2>1. IsFiniteSet(rows') BY <1>1, FS_Difference DEF HistoryInv, RowsOK
  <2>2. chosen' \in [Keys -> Int] BY <1>1, <1>4
  <2> QED BY <1>1, <2>1, <2>2 DEF HistoryInv, RowsOK
<1> QED BY <1>4, <1>5 DEF HistoryInv

\* A reset clears the counts with the rows.
LEMMA ResetKeepsCounts ==
  ASSUME HistoryInv, NEW p \in Processes, rows' = {}, inserted' = inserted,
         chosen' = [k \in Keys |-> 0], doing' = [doing EXCEPT ![p] = Resetting]
  PROVE  HistoryInv'
<1>1. RowsOK' BY FS_EmptySet DEF HistoryInv, RowsOK
<1>2. ASSUME NEW k \in Keys PROVE Counted(k)'
  <2>1. RowsOf(k)' = {} /\ chosen'[k] = 0 BY DEF RowsOf
  <2>2. SumOfCounts({}) = 0 BY SumOfNone DEF SumOfCounts
  <2> QED BY <2>1, <2>2 DEF Counted
<1> QED BY <1>1, <1>2 DEF HistoryInv

\* The other statements leave rows and counts alone.
LEMMA RestKeepsCounts ==
  ASSUME HistoryInv, UNCHANGED <<rows, inserted, chosen>>,
         doing' \in [Processes -> {Free, Resetting} \cup {Inserting(k) : k \in Keys}]
  PROVE  HistoryInv'
<1>1. RowsOK' BY DEF HistoryInv, RowsOK
<1>2. ASSUME NEW k \in Keys PROVE Counted(k)'
  <2>1. RowsOf(k)' = RowsOf(k) BY DEF RowsOf
  <2> QED BY <2>1, KeyStays DEF HistoryInv
<1> QED BY <1>1, <1>2 DEF HistoryInv

\* Every step of a process, and time.
LEMMA HistoryStep ==
  ASSUME HistoryInv, HistoryNext
  PROVE  HistoryInv'
<1>1. ASSUME NEW p \in Processes, NEW k \in Keys, RecordMisses(p, k) PROVE HistoryInv'
  <2>1. doing' = [doing EXCEPT ![p] = Inserting(k)] /\ UNCHANGED <<rows, inserted, chosen>>
    BY <1>1 DEF RecordMisses, Does
  <2> QED BY <2>1, RestKeepsCounts DEF HistoryInv, RowsOK
<1>2. ASSUME NEW p \in Processes, SecondIsLost(p) \/ ResetReranks(p) PROVE HistoryInv'
  <2>1. doing' = [doing EXCEPT ![p] = Free] /\ UNCHANGED <<rows, inserted, chosen>>
    BY <1>2 DEF SecondIsLost, ResetReranks, Does
  <2> QED BY <2>1, RestKeepsCounts DEF HistoryInv, RowsOK
<1>3. ASSUME NEW p \in Processes, RecordRerank(p) PROVE HistoryInv'
  BY <1>3, RestKeepsCounts DEF RecordRerank, HistoryInv, RowsOK
<1>4. ASSUME NEW p \in Processes, ResetPreferences(p) PROVE HistoryInv'
  <2>1. doing' = [doing EXCEPT ![p] = Resetting] /\ inserted' = inserted
    BY <1>4 DEF ResetPreferences, Does
  <2>2. CASE rows' = {} /\ chosen' = [k \in Keys |-> 0] BY <2>1, <2>2, ResetKeepsCounts
  <2>3. CASE UNCHANGED <<rows, chosen>>
    BY <2>1, <2>3, RestKeepsCounts DEF HistoryInv, RowsOK
  <2> QED BY <1>4, <2>2, <2>3 DEF ResetPreferences
<1> QED BY <1>1, <1>2, <1>3, <1>4, UpdateKeepsCounts, InsertKeepsCounts, AgeKeepsCounts, VacuumKeepsCounts
        DEF HistoryNext

-----------------------------------------------------------------------------
(* What the boost sees. *)

LEMMA CountsAreSeen == HistoryInv => EverySelectionCounts
<1> SUFFICES ASSUME HistoryInv, NEW word \in Keys
             PROVE  LET keys == {k \in Keys : SameWord(k, word)}
                        recorded == SumFunctionOnSet(chosen, keys)
                    IN /\ recorded <= Selections(word)
                       /\ (\A k \in keys : Cardinality(RowsOf(k)) <= 1) => Selections(word) = recorded
  BY DEF EverySelectionCounts
<1> DEFINE keys == {k \in Keys : SameWord(k, word)}
           n == [k \in Keys |-> SumOfCounts(RowsOf(k))]
<1>1. IsFiniteSet(keys) /\ keys \in SUBSET Keys BY KeysAssumption, FS_Subset
<1>2. Selections(word) = SumFunctionOnSet(n, keys)
  <2>1. {r \in rows : SameWord(r.key, word)} = {r \in rows : r.key \in keys}
    BY DEF HistoryInv, RowsOK, Row
  <2> QED BY <1>1, <2>1, CountsByKey DEF HistoryInv, Selections
<1>3. \A k \in keys : chosen[k] \in Int /\ n[k] \in Int /\ chosen[k] <= n[k]
  BY RowsOfAreRows DEF HistoryInv, RowsOK, Counted
<1>4. ASSUME \A k \in keys : Cardinality(RowsOf(k)) <= 1, NEW k \in keys PROVE chosen[k] = n[k]
  <2>1. IsFiniteSet(RowsOf(k)) BY RowsOfAreRows DEF HistoryInv
  <2>2. ASSUME NEW r \in RowsOf(k), NEW s \in RowsOf(k), r # s PROVE FALSE
    <3>1. {r, s} \in SUBSET RowsOf(k) OBVIOUS
    <3>2. IsFiniteSet({r, s}) /\ Cardinality({r, s}) = 2
      <4>1. IsFiniteSet({r}) /\ Cardinality({r}) = 1 BY FS_Singleton
      <4>2. {r, s} = {r} \cup {s} /\ s \notin {r} BY <2>2
      <4> QED BY <4>1, <4>2, FS_AddElement
    <3>3. Cardinality({r, s}) <= Cardinality(RowsOf(k)) BY <2>1, <3>1, FS_Subset
    <3>4. Cardinality(RowsOf(k)) <= 1 /\ Cardinality(RowsOf(k)) \in Nat
      BY <1>4, <2>1, FS_CardinalityType
    <3> QED BY <3>2, <3>3, <3>4
  <2>3. ~CountedTwice(k) BY <2>2 DEF CountedTwice
  <2> QED BY <2>3 DEF HistoryInv, Counted
<1> HIDE DEF n
<1>5. SumFunctionOnSet(chosen, keys) <= SumFunctionOnSet(n, keys)
  <2> HIDE DEF keys
  <2> QED BY <1>1, <1>3, SumIsMonotone
<1>6. ASSUME \A k \in keys : Cardinality(RowsOf(k)) <= 1
      PROVE  SumFunctionOnSet(chosen, keys) = SumFunctionOnSet(n, keys)
  <2>1. \A k \in keys : n[k] = chosen[k] BY <1>4, <1>6
  <2> HIDE DEF keys
  <2> QED BY <1>1, <1>3, <2>1, SumOfSame
<1> QED BY <1>2, <1>5, <1>6

\* Through lost statements, races for the first row, resets and vacuums, the
\* boost sees every conversion that was recorded.
THEOREM SelectionsCount == FilesSpec => []EverySelectionCounts
<1>1. FilesInit => HistoryInv BY HistoryInitially DEF FilesInit
<1>2. HistoryInv /\ [FilesNext]_filesVars => HistoryInv'
  <2> SUFFICES ASSUME HistoryInv, [FilesNext]_filesVars PROVE HistoryInv' OBVIOUS
  <2>1. CASE HistoryNext BY <2>1, HistoryStep
  <2>2. CASE UNCHANGED historyVars
    BY <2>2, RestKeepsCounts DEF historyVars, HistoryInv, RowsOK
  <2> QED BY <2>1, <2>2 DEF FilesNext, filesVars
<1> QED BY <1>1, <1>2, CountsAreSeen, PTL DEF FilesSpec
=============================================================================
