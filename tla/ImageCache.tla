---------------------------- MODULE ImageCache ----------------------------
(***************************************************************************)
(* The two levels of the deck client's image cache under the three Set...  *)
(* calls of the event loop, which take the cache's lock once per step, and *)
(* the Reset of the message pump, which comes between any two of them.     *)
(*                                                                         *)
(* An image is an SVG text and a width, hashed together; hashes of 64 bits *)
(* are taken to differ when the images do.  What is sent is Png(image).    *)
(* Whether it arrives, and whether the key has an action, is the subject of *)
(* DeckLoop, where the LRU does not appear: SentIsAsked is why it need not. *)
(***************************************************************************)
EXTENDS Naturals, Sequences, FiniteSets

CONSTANTS
    Keys,        \* the keys of the deck
    SVGs,        \* SVG texts
    Capacity     \* of the LRU (64)

ASSUME CapacityAssumption == Capacity \in Nat \ {0}

Images == [svg : SVGs, wide : BOOLEAN]
Png(image) == <<"png", image>>
Direct(image) == <<"svg", image>>       \* SVG or GIF data, not converted to PNG

SvgOnly(image) == <<image.svg>>                          \* mutant
\* hashSVG: the text and the width.
Hash(image) == <<image.svg, image.wide>>

Nothing == <<>>

VARIABLES
    latestByKey,   \* per key what it was last given: [hash, data] or Nothing
    lru,           \* [items, order]: data by hash, and the hashes by last use
    call,          \* the Set... call under way: [step, key, image, data]
    recent         \* history: every hash used since Reset, the last used last

vars == <<latestByKey, lru, call, recent>>

EmptyLRU == [items |-> Nothing, order |-> <<>>]
NoCall == [step |-> "none"]

Init ==
    /\ latestByKey = [k \in Keys |-> Nothing]
    /\ lru = EmptyLRU
    /\ call = NoCall
    /\ recent = <<>>

----------------------------------------------------------------------------
(* lruCache. *)

Without(s, i) == SubSeq(s, 1, i - 1) \o SubSeq(s, i + 1, Len(s))
Elements(s) == {s[i] : i \in DOMAIN s}

\* A list with h moved, or put, to its end.
MovedToEnd(s, h) ==
    IF h \in Elements(s)
    THEN Append(Without(s, CHOOSE i \in DOMAIN s : s[i] = h), h)
    ELSE Append(s, h)

FirstInFirstOut(l, h) == l                               \* mutant
Promote(l, h) ==
    IF h \in Elements(l.order) THEN [l EXCEPT !.order = MovedToEnd(@, h)] ELSE l

Evict(l) ==
    IF l.order = <<>> THEN l
    ELSE [items |-> [h \in DOMAIN l.items \ {Head(l.order)} |-> l.items[h]],
          order |-> Tail(l.order)]

Put(l, h, data) ==
    IF h \in DOMAIN l.items
    THEN Promote([l EXCEPT !.items[h] = data], h)
    ELSE LET room == IF Cardinality(DOMAIN l.items) >= Capacity THEN Evict(l) ELSE l
         IN  [items |-> [g \in DOMAIN room.items \cup {h} |->
                            IF g = h THEN data ELSE room.items[g]],
              order |-> Append(room.order, h)]

----------------------------------------------------------------------------
(* The event loop's calls. *)

Begin(step, k, image) ==
    /\ call = NoCall
    /\ call' = [step |-> step, key |-> k, image |-> image, data |-> Nothing]
    /\ UNCHANGED <<latestByKey, lru, recent>>

SetKeyImage(k, image) == Begin("look", k, image)
\* SetKeySVGDirect and SetKeyGIFImage.
SetKeyDirect(k, image) == Begin("direct", k, image)

GoTo(step) == call' = [call EXCEPT !.step = step]
GoOn(step, data) == call' = [call EXCEPT !.step = step, !.data = data]

\* Layer 1: the key has this picture already.
GetByKey ==
    /\ call.step = "look"
    /\ LET entry == latestByKey[call.key]
       IN  IF entry # Nothing /\ entry.hash = Hash(call.image)
           THEN call' = NoCall
           ELSE GoTo("lru")
    /\ UNCHANGED <<latestByKey, lru, recent>>

\* Layer 2: another key had it, or this one before.
GetLRU ==
    LET h == Hash(call.image)
    IN  /\ call.step = "lru"
        /\ IF h \in DOMAIN lru.items
           THEN /\ GoOn("reuse", lru.items[h])
                /\ lru' = Promote(lru, h)
                /\ recent' = MovedToEnd(recent, h)
           ELSE /\ GoTo("convert")
                /\ UNCHANGED <<lru, recent>>
        /\ UNCHANGED latestByKey

\* Layer 3: svgToPNG, which may fail.
Convert ==
    /\ call.step = "convert"
    /\ call' = NoCall \/ GoOn("store", Png(call.image))
    /\ UNCHANGED <<latestByKey, lru, recent>>

PutByKey ==
    /\ call.step \in {"reuse", "store"}
    /\ latestByKey' = [latestByKey EXCEPT ![call.key] =
                          [hash |-> Hash(call.image), data |-> call.data]]
    /\ GoTo(IF call.step = "reuse" THEN "send" ELSE "keep")
    /\ UNCHANGED <<lru, recent>>

PutLRU ==
    /\ call.step = "keep"
    /\ lru' = Put(lru, Hash(call.image), call.data)
    /\ recent' = MovedToEnd(recent, Hash(call.image))
    /\ GoTo("send")
    /\ UNCHANGED latestByKey

\* A key that is drawn directly may not be taken to show its last image.
ClearByKey ==
    /\ call.step = "direct"
    /\ latestByKey' = [latestByKey EXCEPT ![call.key] = Nothing]
    /\ GoOn("send", Direct(call.image))
    /\ UNCHANGED <<lru, recent>>

\* A GIF that does not convert, or a key without an action: nothing is sent
\* and nothing forgotten.
SkipDirect ==
    /\ call.step = "direct"
    /\ call' = NoCall
    /\ UNCHANGED <<latestByKey, lru, recent>>

\* sendKeyImageDataURI, or nothing without an action.
Send ==
    /\ call.step = "send"
    /\ call' = NoCall
    /\ UNCHANGED <<latestByKey, lru, recent>>

\* ResetImageCache, by the message pump.
Reset ==
    /\ latestByKey' = [k \in Keys |-> Nothing]
    /\ lru' = EmptyLRU
    /\ recent' = <<>>
    /\ UNCHANGED call

Next ==
    \/ \E k \in Keys, image \in Images : SetKeyImage(k, image) \/ SetKeyDirect(k, image)
    \/ GetByKey \/ GetLRU \/ Convert \/ PutByKey \/ PutLRU \/ ClearByKey \/ SkipDirect
    \/ Send
    \/ Reset

Spec == Init /\ [][Next]_vars

----------------------------------------------------------------------------
(* Properties. *)

\* What is sent for an image is that image at that width, converted now, for
\* another key before, or kept over evictions and a Reset in between; and what
\* a key is taken to show is the image it is taken to show.
SentIsAsked ==
    /\ call.step \in {"reuse", "store", "keep", "send"} =>
          call.data \in {Png(call.image), Direct(call.image)}
    /\ \A image \in Images :
          /\ Hash(image) \in DOMAIN lru.items => lru.items[Hash(image)] = Png(image)
          /\ \A k \in Keys :
                latestByKey[k] # Nothing /\ latestByKey[k].hash = Hash(image)
                    => latestByKey[k].data = Png(image)

\* The map and the order, which are kept apart, agree with the textbook: they
\* hold the hashes used last, the last used last, as many as there is room for,
\* each once.
LastUsedKept ==
    LET n == Len(recent)
    IN  /\ lru.order = SubSeq(recent, (IF n > Capacity THEN n - Capacity ELSE 0) + 1, n)
        /\ DOMAIN lru.items = Elements(lru.order)
=============================================================================
