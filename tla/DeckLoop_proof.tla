-------------------------- MODULE DeckLoop_proof --------------------------
(* The image cache, the keys and the dirty flag of herdr-deck, for any      *)
(* deck, any snapshots and any number of reconnects, cleared keys and       *)
(* faults.                                                                  *)
EXTENDS DeckLoop, TLAPS

\* What holds of the render case's own variables at every step.
RenderType ==
    /\ rpc \in {"idle", "captured", "drawing", "sending"}
    /\ todo \in Seq(AllKeys)
    /\ rpc \in {"drawing", "sending"} <=> todo # <<>>
    /\ rpc = "captured" <=> captured # <<>>
    /\ rpc = "sending" => sending = Picture(Head(todo), rendered)
    /\ DOMAIN cache = AllKeys /\ DOMAIN shown = AllKeys
    /\ missed \in [AllKeys -> BOOLEAN]

\* A picture on its way is what the cache says of its key, if it says
\* anything: the pump may have reset the cache since.
SendingAgrees ==
    rpc = "sending" => cache[Head(todo)] \in {NoPicture, sending}

\* The keys renderAll is through with.
DrawnIsShown ==
    \A k \in AllKeys :
        k \notin Range(todo) /\ ~missed[k] => shown[k] = Picture(k, rendered)

KeyInv == RenderType /\ SendingAgrees /\ CacheTellsTruth /\ DrawnIsShown

-----------------------------------------------------------------------------

\* A sequence that is not empty has its head in its range, and nothing but its
\* head and the range of its tail.
LEMMA HeadAndTail ==
    ASSUME NEW S, NEW s \in Seq(S), s # <<>>
    PROVE  /\ Head(s) \in S
           /\ Tail(s) \in Seq(S)
           /\ Range(s) \subseteq {Head(s)} \cup Range(Tail(s))
<1>1. Head(s) \in S /\ Tail(s) \in Seq(S) /\ Len(s) > 0
  OBVIOUS
<1>2. ASSUME NEW i \in DOMAIN s
      PROVE  s[i] \in {Head(s)} \cup Range(Tail(s))
  <2>1. CASE i = 1
    BY <2>1
  <2>2. CASE i # 1
    <3>1. i - 1 \in DOMAIN Tail(s) /\ Tail(s)[i - 1] = s[i]
      BY <2>2
    <3>2. QED
      BY <3>1 DEF Range
  <2>3. QED
    BY <2>1, <2>2
<1>3. QED
  BY <1>1, <1>2 DEF Range

\* The keys of the deck are a sequence over the set of the keys.
LEMMA KeysTyped == Keys \in Seq(AllKeys) /\ Keys # <<>>
<1>1. Keys \in Seq(KeyNames) /\ Keys # <<>>
  BY KeysAssumption
<1>2. \A i \in DOMAIN Keys : Keys[i] \in AllKeys
  BY DEF AllKeys, Range
<1>3. QED
  BY <1>1, <1>2

\* The start.
LEMMA KeyInit == Init => KeyInv
<1> SUFFICES ASSUME Init PROVE KeyInv
  OBVIOUS
<1>1. RenderType
  BY DEF Init, RenderType
<1>2. SendingAgrees /\ CacheTellsTruth /\ DrawnIsShown
  BY DEF Init, SendingAgrees, CacheTellsTruth, DrawnIsShown
<1>3. QED
  BY <1>1, <1>2 DEF KeyInv

\* A step that leaves the render case, the cache and the keys alone.
LEMMA KeyStutter ==
    ASSUME KeyInv, UNCHANGED <<renderVars, cache, shown, missed>>
    PROVE  KeyInv'
BY DEF KeyInv, renderVars, RenderType, SendingAgrees, CacheTellsTruth, DrawnIsShown

-----------------------------------------------------------------------------
(* renderAll. *)

\* No picture is the absence of a picture.
LEMMA PictureIsOne ==
    ASSUME NEW k, NEW r
    PROVE  Picture(k, r) # NoPicture
<1>1. \A off, i : AgentPicture(r.model, off, i) # <<>>
  BY DEF AgentPicture
<1>2. CASE k = "K11"
  BY <1>2 DEF Picture, NoPicture
<1>3. CASE k = "K12"
  BY <1>3 DEF Picture, NoPicture
<1>4. CASE k = "K13"
  BY <1>4 DEF Picture, NoPicture
<1>5. CASE k = "K14"
  BY <1>5 DEF Picture, NoPicture
<1>6. CASE k \notin {"K11", "K12", "K13", "K14"}
  BY <1>1, <1>6 DEF Picture, NoPicture
<1>7. QED
  BY <1>2, <1>3, <1>4, <1>5, <1>6

\* Going on to the next key: the key at the head shows its picture and the
\* cache says nothing else of it, unless its drawing got lost; no other key is
\* touched.
LEMMA KeyDone ==
    ASSUME KeyInv, rpc \in {"drawing", "sending"}, NEW lost \in BOOLEAN,
           NextKey(lost), UNCHANGED <<captured, rendered>>,
           DOMAIN cache' = AllKeys, DOMAIN shown' = AllKeys,
           \A k \in AllKeys \ {Head(todo)} :
                cache'[k] = cache[k] /\ shown'[k] = shown[k],
           ~lost => /\ shown'[Head(todo)] = Picture(Head(todo), rendered)
                    /\ cache'[Head(todo)] \in
                            {NoPicture, Picture(Head(todo), rendered)}
    PROVE  KeyInv'
<1> DEFINE h == Head(todo)
<1>1. todo \in Seq(AllKeys) /\ todo # <<>>
  BY DEF KeyInv, RenderType
<1>2. /\ h \in AllKeys
      /\ Tail(todo) \in Seq(AllKeys)
      /\ Range(todo) \subseteq {h} \cup Range(Tail(todo))
  BY <1>1, HeadAndTail
<1>3. /\ todo' = Tail(todo)
      /\ rpc' = IF Tail(todo) = <<>> THEN "idle" ELSE "drawing"
      /\ missed' = [missed EXCEPT ![h] = lost]
  BY DEF NextKey
<1>4. rpc' # "sending" /\ rpc' # "captured" /\ rpc # "captured" /\ captured' = <<>>
  BY <1>3 DEF KeyInv, RenderType
<1>5. missed \in [AllKeys -> BOOLEAN]
  BY DEF KeyInv, RenderType
<1>6. /\ missed' \in [AllKeys -> BOOLEAN]
      /\ missed'[h] = lost
      /\ \A k \in AllKeys \ {h} : missed'[k] = missed[k]
  BY <1>2, <1>3, <1>5
<1>7. RenderType'
  BY <1>2, <1>3, <1>4, <1>6 DEF RenderType
<1>8. SendingAgrees'
  BY <1>4 DEF SendingAgrees
<1>9. CacheTellsTruth'
  <2> SUFFICES ASSUME NEW k \in AllKeys, cache'[k] # NoPicture, ~missed'[k]
               PROVE  shown'[k] = cache'[k]
    BY DEF CacheTellsTruth, NoPicture
  <2>1. CASE k = h
    BY <2>1, <1>6
  <2>2. CASE k # h
    <3>1. cache[k] # NoPicture /\ ~missed[k]
      BY <2>2, <1>6
    <3>2. shown[k] = cache[k]
      BY <2>2, <3>1 DEF KeyInv, CacheTellsTruth
    <3>3. QED
      BY <2>2, <3>2
  <2>3. QED
    BY <2>1, <2>2
<1>10. DrawnIsShown'
  <2> SUFFICES ASSUME NEW k \in AllKeys, k \notin Range(Tail(todo)), ~missed'[k]
               PROVE  shown'[k] = Picture(k, rendered)
    BY <1>3 DEF DrawnIsShown
  <2>1. CASE k = h
    BY <2>1, <1>6
  <2>2. CASE k # h
    <3>1. k \notin Range(todo) /\ ~missed[k]
      BY <2>2, <1>2, <1>6
    <3>2. shown[k] = Picture(k, rendered)
      BY <3>1 DEF KeyInv, DrawnIsShown
    <3>3. QED
      BY <2>2, <3>2
  <2>3. QED
    BY <2>1, <2>2
<1>11. QED
  BY <1>7, <1>8, <1>9, <1>10 DEF KeyInv

\* Beginning to send: the cache has the picture or nothing.
LEMMA KeySending ==
    ASSUME KeyInv, rpc = "drawing", rpc' = "sending",
           NEW c \in {NoPicture, Picture(Head(todo), rendered)},
           cache' = [cache EXCEPT ![Head(todo)] = c],
           sending' = Picture(Head(todo), rendered),
           UNCHANGED <<todo, missed, shown, captured, rendered>>
    PROVE  KeyInv'
<1> DEFINE h == Head(todo)
<1>1. todo \in Seq(AllKeys) /\ todo # <<>> /\ captured = <<>> /\ DOMAIN cache = AllKeys
  BY DEF KeyInv, RenderType
<1>2. h \in AllKeys
  BY <1>1, HeadAndTail
<1>3. /\ DOMAIN cache' = AllKeys
      /\ cache'[h] = c
      /\ \A k \in AllKeys \ {h} : cache'[k] = cache[k]
  BY <1>1, <1>2
<1>4. RenderType'
  BY <1>1, <1>3 DEF KeyInv, RenderType
<1>5. SendingAgrees'
  BY <1>3 DEF SendingAgrees, NoPicture
<1>6. CacheTellsTruth'
  <2> SUFFICES ASSUME NEW k \in AllKeys, k # h, cache'[k] # NoPicture, ~missed[k]
               PROVE  shown[k] = cache'[k]
    BY DEF CacheTellsTruth, NoPicture
  <2> QED
    BY <1>3 DEF KeyInv, CacheTellsTruth
<1>7. DrawnIsShown'
  BY DEF KeyInv, DrawnIsShown
<1>8. QED
  BY <1>4, <1>5, <1>6, <1>7 DEF KeyInv

\* Each way of dealing with the key at the head.
LEMMA DrawKeyInv ==
    ASSUME KeyInv, DrawKey
    PROVE  KeyInv'
<1> DEFINE h == Head(todo)
<1> DEFINE p == Picture(h, rendered)
<1>1. /\ rpc \in {"drawing", "sending"}
      /\ DOMAIN cache = AllKeys /\ DOMAIN shown = AllKeys
      /\ missed \in [AllKeys -> BOOLEAN]
      /\ todo \in Seq(AllKeys) /\ todo # <<>>
  BY DEF KeyInv, RenderType, DrawKey, SkipKey, ConvertFails, CacheHit, DrawDirect,
         DrawStatic, Send
<1>2. h \in AllKeys
  BY <1>1, HeadAndTail
<1>3. CASE SkipKey
  <2>1. NextKey(TRUE) /\ UNCHANGED <<captured, rendered, cache, shown>>
    BY <1>3 DEF SkipKey, clientVars
  <2>2. QED
    BY <1>1, <2>1, KeyDone
<1>4. CASE ConvertFails
  <2>1. NextKey(TRUE) /\ UNCHANGED <<captured, rendered, cache, shown>>
    BY <1>4 DEF ConvertFails, clientVars
  <2>2. QED
    BY <1>1, <2>1, KeyDone
<1>5. CASE CacheHit
  <2>1. /\ NextKey(missed[h]) /\ UNCHANGED <<captured, rendered, cache, shown>>
        /\ cache[h] = p /\ rpc = "drawing"
    BY <1>5 DEF CacheHit, clientVars
  <2>2. cache[h] # NoPicture
    BY <2>1, PictureIsOne
  <2>3. ~missed[h] => shown[h] = p
    BY <1>2, <2>1, <2>2 DEF KeyInv, CacheTellsTruth
  <2>4. missed[h] \in BOOLEAN
    BY <1>1, <1>2
  <2>5. QED
    BY <1>1, <2>1, <2>3, <2>4, KeyDone
<1>6. CASE DrawDirect
  <2>1. CASE h \in bound
    <3>1. /\ rpc = "drawing" /\ rpc' = "sending"
          /\ cache' = [cache EXCEPT ![h] = NoPicture]
          /\ sending' = p
          /\ UNCHANGED <<todo, missed, shown, captured, rendered>>
      BY <1>6, <2>1 DEF DrawDirect, SendOrDrop
    <3>2. QED
      BY <3>1, KeySending
  <2>2. CASE h \notin bound
    <3>1. NextKey(TRUE) /\ UNCHANGED <<captured, rendered, cache, shown>>
      BY <1>6, <2>2 DEF DrawDirect, SendOrDrop
    <3>2. QED
      BY <1>1, <3>1, KeyDone
  <2>3. QED
    BY <2>1, <2>2
<1>7. CASE DrawStatic
  <2>1. /\ rpc = "drawing"
        /\ cache' = [cache EXCEPT ![h] = p]
        /\ UNCHANGED <<captured, rendered, shown>>
    BY <1>7 DEF DrawStatic
  <2>2. CASE h \in bound
    <3>1. rpc' = "sending" /\ sending' = p /\ UNCHANGED <<todo, missed>>
      BY <1>7, <2>2 DEF DrawStatic, SendOrDrop
    <3>2. QED
      BY <2>1, <3>1, KeySending
  <2>3. CASE h \notin bound
    <3>1. NextKey(TRUE)
      BY <1>7, <2>3 DEF DrawStatic, SendOrDrop
    <3>2. /\ DOMAIN cache' = AllKeys
          /\ \A k \in AllKeys \ {h} : cache'[k] = cache[k]
      BY <1>1, <1>2, <2>1
    <3>3. QED
      BY <1>1, <2>1, <3>1, <3>2, KeyDone
  <2>4. QED
    BY <2>2, <2>3
<1>8. CASE Send
  <2> DEFINE arrives == link /\ connected /\ h \in bound
  <2>1. /\ rpc = "sending"
        /\ shown' = IF arrives THEN [shown EXCEPT ![h] = sending] ELSE shown
        /\ NextKey(~arrives)
        /\ UNCHANGED <<captured, rendered, cache>>
    BY <1>8 DEF Send, clientVars
  <2>2. sending = p /\ cache[h] \in {NoPicture, sending}
    BY <2>1 DEF KeyInv, RenderType, SendingAgrees
  <2>3. /\ DOMAIN shown' = AllKeys
        /\ \A k \in AllKeys \ {h} : shown'[k] = shown[k]
        /\ arrives => shown'[h] = p
    BY <1>1, <1>2, <2>1, <2>2
  <2>4. (~arrives) \in BOOLEAN
    OBVIOUS
  <2> HIDE DEF arrives
  <2>5. QED
    BY <1>1, <2>1, <2>2, <2>3, <2>4, KeyDone
<1>9. QED
  BY <1>3, <1>4, <1>5, <1>6, <1>7, <1>8 DEF DrawKey

-----------------------------------------------------------------------------
(* The other steps. *)

\* Capturing, and deciding whether to draw.
LEMMA DecideInv ==
    ASSUME KeyInv, Capture \/ MarkClean
    PROVE  KeyInv'
<1>1. CASE Capture
  <2>1. /\ rpc = "idle" /\ rpc' = "captured" /\ captured' # <<>>
        /\ UNCHANGED <<todo, rendered, sending, cache, shown, missed>>
    BY <1>1 DEF Capture, clientVars, deviceVars
  <2>2. QED
    BY <2>1 DEF KeyInv, RenderType, SendingAgrees, CacheTellsTruth, DrawnIsShown
<1>2. CASE MarkClean
  <2>1. /\ rpc = "captured" /\ captured' = <<>>
        /\ UNCHANGED <<sending, cache, shown, missed>>
    BY <1>2 DEF MarkClean, clientVars, deviceVars
  <2>2. CASE captured.hash = lastHash
    <3>1. rpc' = "idle" /\ UNCHANGED <<todo, rendered>>
      BY <1>2, <2>2 DEF MarkClean
    <3>2. QED
      BY <2>1, <3>1 DEF KeyInv, RenderType, SendingAgrees, CacheTellsTruth, DrawnIsShown
  <2>3. CASE captured.hash # lastHash
    <3>1. rpc' = "drawing" /\ todo' = Keys
      BY <1>2, <2>3 DEF MarkClean
    <3>2. RenderType' /\ SendingAgrees' /\ CacheTellsTruth'
      BY <2>1, <3>1, KeysTyped
         DEF KeyInv, RenderType, SendingAgrees, CacheTellsTruth
    <3>3. DrawnIsShown'
      BY <3>1 DEF DrawnIsShown, AllKeys
    <3>4. QED
      BY <3>2, <3>3 DEF KeyInv
  <2>4. QED
    BY <2>2, <2>3
<1>3. QED
  BY <1>1, <1>2

\* What takes pictures off the keys, and what empties the cache.
LEMMA LossInv ==
    ASSUME KeyInv,
           LinkDrop \/ ResetImageCache \/ (\E k \in AllKeys : HandleClear(k))
    PROVE  KeyInv'
<1>1. CASE LinkDrop
  <2>1. /\ UNCHANGED <<renderVars, cache>>
        /\ shown' = [k \in AllKeys |-> Default]
        /\ missed' = [k \in AllKeys |-> TRUE]
    BY <1>1 DEF LinkDrop, clientVars
  <2>2. QED
    BY <2>1 DEF renderVars, KeyInv, RenderType, SendingAgrees, CacheTellsTruth,
                DrawnIsShown
<1>2. CASE ResetImageCache
  <2>1. /\ UNCHANGED <<renderVars, shown, missed>>
        /\ cache' = [k \in AllKeys |-> NoPicture]
    BY <1>2 DEF ResetImageCache, deviceVars
  <2>2. rpc = "sending" => Head(todo) \in AllKeys
    BY HeadAndTail DEF KeyInv, RenderType
  <2>3. QED
    BY <2>1, <2>2 DEF renderVars, KeyInv, RenderType, SendingAgrees, CacheTellsTruth,
                      DrawnIsShown
<1>3. ASSUME NEW k \in AllKeys, HandleClear(k)
      PROVE  KeyInv'
  <2>1. /\ UNCHANGED <<renderVars, cache>>
        /\ shown' = [shown EXCEPT ![k] = Default]
        /\ missed' = [missed EXCEPT ![k] = TRUE]
    BY <1>3 DEF HandleClear
  <2>2. DOMAIN shown = AllKeys /\ missed \in [AllKeys -> BOOLEAN]
    BY DEF KeyInv, RenderType
  <2>3. /\ DOMAIN shown' = AllKeys
        /\ missed' \in [AllKeys -> BOOLEAN]
        /\ missed'[k]
        /\ \A j \in AllKeys \ {k} : shown'[j] = shown[j] /\ missed'[j] = missed[j]
    BY <2>1, <2>2
  <2>4. RenderType' /\ SendingAgrees'
    BY <2>1, <2>3 DEF renderVars, KeyInv, RenderType, SendingAgrees
  <2>5. CacheTellsTruth'
    BY <2>1, <2>3 DEF renderVars, KeyInv, CacheTellsTruth
  <2>6. DrawnIsShown'
    BY <2>1, <2>3 DEF renderVars, KeyInv, DrawnIsShown
  <2>7. QED
    BY <2>4, <2>5, <2>6 DEF KeyInv
<1>4. QED
  BY <1>1, <1>2, <1>3

\* No step breaks the invariant of the cache and the keys.
LEMMA KeyStep == KeyInv /\ [Next]_vars => KeyInv'
<1> SUFFICES ASSUME KeyInv, [Next]_vars PROVE KeyInv'
  OBVIOUS
<1>1. CASE ApplySnapshot \/ MarkHeartbeat \/ HealthTick \/ SysTick \/ Clock
  BY <1>1, KeyStutter
     DEF ApplySnapshot, MarkHeartbeat, HealthTick, SysTick, Collected, CollectFails,
         Clock, Minute, clientVars, deviceVars
<1>2. CASE Capture \/ MarkClean
  BY <1>2, DecideInv
<1>3. CASE DrawKey
  BY <1>3, DrawKeyInv
<1>4. CASE ReadFails \/ Connect \/ SeedKeyActions \/ MarkReconnected
  BY <1>4, KeyStutter
     DEF ReadFails, Connect, SeedKeyActions, MarkReconnected, deviceVars
<1>5. CASE ResetImageCache \/ LinkDrop \/ \E k \in AllKeys : HandleClear(k)
  BY <1>5, LossInv
<1>6. CASE \E k \in AllKeys : HandleAdd(k)
  BY <1>6, KeyStutter DEF HandleAdd, deviceVars
<1>7. CASE OnK11 \/ OnK12 \/ OnK13
  BY <1>7, KeyStutter DEF OnK11, OnK12, OnK13, KeyDown, clientVars, deviceVars
<1>8. CASE UNCHANGED vars
  BY <1>8, KeyStutter DEF vars, clientVars, deviceVars
<1>9. QED
  BY <1>1, <1>2, <1>3, <1>4, <1>5, <1>6, <1>7, <1>8
     DEF Next, EventLoop, MessagePump, PumpRuns, Device

\* The cache per key never makes SetKeyImage skip a picture the key does not
\* show (client.go, SetKeyImage and the two calls that clear the entry).
THEOREM CacheTruth == Spec => []CacheTellsTruth
<1>1. KeyInv => CacheTellsTruth
  BY DEF KeyInv
<1>2. QED
  BY KeyInit, KeyStep, <1>1, PTL DEF Spec

\* A key whose drawing was not lost shows what renderAll was last given.
THEOREM KeysShowModel == Spec => []ShownIsRendered
<1>1. ASSUME KeyInv PROVE ShownIsRendered
  <2> SUFFICES ASSUME rpc = "idle", NEW k \in AllKeys, ~missed[k]
               PROVE  shown[k] = Picture(k, rendered)
    BY DEF ShownIsRendered
  <2>1. todo = <<>>
    BY <1>1 DEF KeyInv, RenderType
  <2>2. k \notin Range(todo)
    BY <2>1 DEF Range
  <2>3. QED
    BY <1>1, <2>2 DEF KeyInv, DrawnIsShown
<1>2. QED
  BY KeyInit, KeyStep, <1>1, PTL DEF Spec

-----------------------------------------------------------------------------
(* The dirty flag. *)

\* What Capture saw is older than what there is: the durations may have grown.
SeenBefore ==
    /\ DOMAIN seen.minutes = Ids(snap)
    /\ \A id \in Ids(snap) : seen.minutes[id] \in Nat /\ seen.minutes[id] <= minutes[id]

\* With no MarkDirty since, the captured hash and then the last one is that of
\* the present snapshot and readings, under the view that was captured; and the
\* view is that one unless a press came in between.
FlagInv ==
    /\ dirty \in BOOLEAN
    /\ DOMAIN minutes = Ids(snap) /\ \A id \in Ids(snap) : minutes[id] \in Nat
    /\ rpc = "captured" => captured.hash = SeenHash
    /\ rpc # "captured" /\ ~dirty => lastHash = SeenHash
    /\ rpc = "captured" \/ ~dirty => SeenBefore
    /\ rpc = "captured" \/ ~dirty => seen.view = view \/ overtaken

\* The start: nothing is captured and nothing is to be drawn.
LEMMA FlagInit == Init => FlagInv
<1> SUFFICES ASSUME Init PROVE FlagInv
  OBVIOUS
<1>1. /\ snap = NoSnapshot /\ minutes = <<>> /\ lastHash = <<>> /\ rpc = "idle"
      /\ dirty = FALSE /\ view = NewView
      /\ seen = [view |-> NewView, minutes |-> <<>>]
  BY DEF Init
<1>2. Ids(snap) = {}
  BY <1>1 DEF Ids, NoSnapshot
<1>3. DOMAIN minutes = {} /\ seen.minutes = minutes /\ seen.view = view
  BY <1>1
<1>4. SeenHash = <<>>
  BY <1>1 DEF SeenHash
<1> HIDE DEF NoSnapshot
<1>5. QED
  BY <1>1, <1>2, <1>3, <1>4 DEF FlagInv, SeenBefore

\* A snapshot gives every agent of it a duration.
LEMMA DurationsTyped ==
    ASSUME FlagInv, TakeSnapshot
    PROVE  /\ DOMAIN minutes' = Ids(snap') /\ \A id \in Ids(snap') : minutes'[id] \in Nat
<1>1. minutes' = Since(snap, snap', minutes)
  BY DEF TakeSnapshot
<1>2. ASSUME NEW id \in Ids(snap') PROVE minutes'[id] \in Nat
  <2>1. minutes'[id] = IF GoesOn(snap, snap', id) THEN minutes[id] ELSE 0
    BY <1>1, <1>2 DEF Since
  <2>2. GoesOn(snap, snap', id) => minutes[id] \in Nat
    BY DEF GoesOn, FlagInv
  <2>3. QED
    BY <2>1, <2>2
<1>3. DOMAIN minutes' = Ids(snap')
  BY <1>1 DEF Since
<1>4. QED
  BY <1>2, <1>3

\* What was seen stays what it was when neither the snapshot nor the readings
\* change.
LEMMA SeenKept ==
    ASSUME UNCHANGED <<snap, sys, seen>>
    PROVE  SeenHash' = SeenHash /\ Ids(snap') = Ids(snap)
BY DEF SeenHash, Ids

\* Steps of the event loop outside the render case that raise the flag.
LEMMA FlagRaised ==
    ASSUME FlagInv, MarkDirty, rpc = "idle", UNCHANGED rpc,
           DOMAIN minutes' = Ids(snap'), \A id \in Ids(snap') : minutes'[id] \in Nat
    PROVE  FlagInv'
BY DEF FlagInv, MarkDirty

\* Steps of the pump that raise the flag, and may be overtaken by MarkClean: a
\* press leaves a trace.
LEMMA FlagOvertaken ==
    ASSUME FlagInv, MarkDirty,
           UNCHANGED <<rpc, snap, sys, minutes, seen, captured>>,
           UNCHANGED <<view, overtaken>> \/ (rpc = "captured" => overtaken')
    PROVE  FlagInv'
<1>1. SeenHash' = SeenHash /\ Ids(snap') = Ids(snap)
  BY SeenKept
<1>2. rpc = "captured" => SeenBefore'
  BY <1>1 DEF FlagInv, SeenBefore
<1>3. rpc = "captured" => seen'.view = view' \/ overtaken'
  BY DEF FlagInv
<1>4. QED
  BY <1>1, <1>2, <1>3 DEF FlagInv, MarkDirty

\* Steps that neither touch the flag nor what the hash covers.
LEMMA FlagKept ==
    ASSUME FlagInv,
           UNCHANGED <<snap, sys, view, minutes, dirty, seen, overtaken, lastHash, captured>>,
           rpc = "captured" <=> rpc' = "captured"
    PROVE  FlagInv'
<1>1. SeenHash' = SeenHash /\ Ids(snap') = Ids(snap)
  BY SeenKept
<1>2. SeenBefore' <=> SeenBefore
  BY <1>1 DEF SeenBefore
<1>3. QED
  BY <1>1, <1>2 DEF FlagInv

\* A minute passes: what was seen is older still.
LEMMA FlagMinute ==
    ASSUME FlagInv, NEW id \in Ids(snap), Minute(id)
    PROVE  FlagInv'
<1>1. /\ minutes' = [minutes EXCEPT ![id] = @ + 1]
      /\ UNCHANGED <<snap, sys, view, dirty, seen, overtaken, lastHash, captured, rpc>>
  BY DEF Minute, history, renderVars
<1>2. SeenHash' = SeenHash /\ Ids(snap') = Ids(snap)
  BY <1>1, SeenKept
<1>3. DOMAIN minutes = Ids(snap) /\ \A i \in Ids(snap) : minutes[i] \in Nat
  BY DEF FlagInv
<1>4. /\ DOMAIN minutes' = Ids(snap)
      /\ \A i \in Ids(snap) : minutes'[i] = IF i = id THEN minutes[i] + 1 ELSE minutes[i]
  BY <1>1, <1>3
<1>5. \A i \in Ids(snap) : minutes'[i] \in Nat
  BY <1>3, <1>4
<1>6. ASSUME SeenBefore PROVE SeenBefore'
  <2>1. DOMAIN seen'.minutes = Ids(snap')
    BY <1>1, <1>2, <1>6 DEF SeenBefore
  <2>2. ASSUME NEW i \in Ids(snap), seen.minutes[i] <= minutes[i], seen.minutes[i] \in Nat
        PROVE  seen.minutes[i] <= minutes'[i]
    BY <2>2, <1>3, <1>4
  <2>3. QED
    BY <1>1, <1>2, <1>6, <2>1, <2>2 DEF SeenBefore
<1>7. QED
  BY <1>1, <1>2, <1>4, <1>5, <1>6 DEF FlagInv

\* No step breaks the invariant of the dirty flag.
LEMMA FlagStep == RenderType /\ FlagInv /\ [Next]_vars => FlagInv'
<1> SUFFICES ASSUME RenderType, FlagInv, [Next]_vars PROVE FlagInv'
  OBVIOUS
<1>1. CASE ApplySnapshot
  <2>1. MarkDirty /\ TakeSnapshot /\ rpc = "idle" /\ UNCHANGED rpc
    BY <1>1 DEF ApplySnapshot, renderVars
  <2>2. QED
    BY <2>1, DurationsTyped, FlagRaised
<1>2. CASE HealthTick \/ Collected
  <2>1. MarkDirty /\ rpc = "idle" /\ UNCHANGED <<rpc, snap, minutes>>
    BY <1>2 DEF HealthTick, Collected, renderVars
  <2>2. Ids(snap') = Ids(snap)
    BY <2>1 DEF Ids
  <2>3. QED
    BY <2>1, <2>2, FlagRaised DEF FlagInv
<1>3. CASE MarkReconnected
  <2>1. MarkDirty
        /\ UNCHANGED <<rpc, snap, sys, minutes, seen, captured, view, overtaken>>
    BY <1>3 DEF MarkReconnected, fleetVars, history, renderVars
  <2>2. QED
    BY <2>1, FlagOvertaken
<1>4. CASE OnK11 \/ OnK12 \/ OnK13
  <2>1. MarkDirty /\ UNCHANGED <<rpc, snap, sys, minutes, seen, captured>>
        /\ (rpc = "captured" => overtaken')
    BY <1>4 DEF OnK11, OnK12, OnK13, KeyDown, renderVars
  <2>2. QED
    BY <2>1, FlagOvertaken
<1>5. CASE MarkHeartbeat \/ CollectFails
  BY <1>5, FlagKept DEF MarkHeartbeat, CollectFails, fleetVars, history, renderVars
<1>6. CASE Clock
  BY <1>6, FlagMinute DEF Clock
<1>7. CASE Capture
  <2>1. /\ rpc' = "captured" /\ seen' = [view |-> view, minutes |-> minutes]
        /\ UNCHANGED <<snap, sys, view, minutes, dirty>>
    BY <1>7 DEF Capture, fleetVars
  <2>2. seen'.view = view' /\ seen'.minutes = minutes'
    BY <2>1
  <2>3. captured'.hash = SeenHash'
    <3>1. captured'.hash = IF snap = NoSnapshot THEN <<>>
                           ELSE VisualHash(Build(view, Timed(snap, minutes), sys))
      BY <1>7 DEF Capture
    <3>2. SeenHash' = IF snap' = NoSnapshot THEN <<>>
                      ELSE VisualHash(Build(seen'.view, Timed(snap', seen'.minutes), sys'))
      BY DEF SeenHash
    <3>3. QED
      BY <2>1, <2>2, <3>1, <3>2
  <2>4. Ids(snap') = Ids(snap)
    BY <2>1 DEF Ids
  <2>5. SeenBefore'
    <3>1. ASSUME NEW id \in Ids(snap) PROVE minutes[id] \in Nat /\ minutes[id] <= minutes[id]
      <4>1. minutes[id] \in Nat
        BY DEF FlagInv
      <4>2. QED
        BY <4>1
    <3>2. QED
      BY <2>1, <2>2, <2>4, <3>1 DEF FlagInv, SeenBefore
  <2>6. QED
    BY <2>1, <2>2, <2>3, <2>4, <2>5 DEF FlagInv
<1>8. CASE MarkClean
  <2>1. /\ rpc = "captured" /\ rpc' # "captured" /\ dirty' = FALSE
        /\ lastHash' = captured.hash
        /\ UNCHANGED <<snap, sys, view, minutes, seen, overtaken>>
    BY <1>8 DEF MarkClean, fleetVars, history
  <2>2. SeenHash' = SeenHash /\ Ids(snap') = Ids(snap)
    BY <2>1, SeenKept
  <2>3. SeenBefore'
    BY <2>1, <2>2 DEF FlagInv, SeenBefore
  <2>4. QED
    BY <2>1, <2>2, <2>3 DEF FlagInv
<1>9. CASE DrawKey
  <2>1. UNCHANGED <<snap, sys, view, minutes, dirty, seen, overtaken, lastHash, captured>>
    BY <1>9 DEF DrawKey, SkipKey, ConvertFails, CacheHit, DrawDirect, DrawStatic, Send,
                fleetVars, history
  <2>2. rpc # "captured" /\ rpc' # "captured"
    BY <1>9 DEF DrawKey, SkipKey, ConvertFails, CacheHit, DrawDirect, DrawStatic, Send,
                NextKey, SendOrDrop
  <2>3. QED
    BY <2>1, <2>2, FlagKept
<1>10. CASE ReadFails \/ Connect \/ SeedKeyActions \/ ResetImageCache
  BY <1>10, FlagKept
     DEF ReadFails, Connect, SeedKeyActions, ResetImageCache, fleetVars, history,
         renderVars
<1>11. CASE LinkDrop \/ \E k \in AllKeys : HandleAdd(k) \/ HandleClear(k)
  BY <1>11, FlagKept DEF LinkDrop, HandleAdd, HandleClear, fleetVars, history, renderVars
<1>12. CASE UNCHANGED vars
  BY <1>12, FlagKept DEF vars, fleetVars, history, renderVars
<1>13. QED
  BY <1>1, <1>2, <1>3, <1>4, <1>5, <1>6, <1>7, <1>8, <1>9, <1>10, <1>11, <1>12
     DEF Next, EventLoop, SysTick, MessagePump, PumpRuns, Device

\* With the flag down, what was drawn last is the present snapshot and readings
\* with the durations of the last Capture, and under its view: whatever MarkClean
\* took away was a press or nothing (main.go, the render case; controller.go,
\* Capture, MarkDirty and MarkClean).
THEOREM CleanIsCurrent == Spec => []CleanMeansCurrent
<1>1. FlagInv => CleanMeansCurrent
  BY DEF FlagInv, SeenBefore, CleanMeansCurrent
<1>2. KeyInv => RenderType
  BY DEF KeyInv
<1>3. QED
  BY KeyInit, KeyStep, FlagInit, FlagStep, <1>1, <1>2, PTL DEF Spec
=============================================================================
