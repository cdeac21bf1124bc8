---------------------------- MODULE Bridge_proof ----------------------------
(* The goroutines of the bridge and the rounds that FetchAll makes of what   *)
(* they send, for any connections, calls and rounds; and the fetch of one    *)
(* connection against its herdr.                                             *)
EXTENDS Bridge, HerdrFetch, Positions_proof

Ats == {"none", "check", "begin", "call", "send", "ended"}
Goroutines == [at : Ats, call : Nat, ok : BOOLEAN]
Answers == [conn : Conns, ok : BOOLEAN]

TypeInv ==
    /\ round \in Nat
    /\ fetch \in [Fetches -> Goroutines]
    /\ late \in [Fetches -> Nat]
    /\ chan \in [Rounds -> Seq(Answers)]

\* A call begun late was begun after the look that found time left, and the
\* next look finds none.
LateInv ==
    \A f \in Fetches :
        late[f] # 0 => late[f] = 1 /\ f[1] \in expired /\ fetch[f].at # "begin"

\* A channel holds one result at most of each connection, which its goroutine
\* sent last of all; rounds to come have not begun.
ChanInv ==
    \A r \in Rounds :
        /\ \A i, j \in DOMAIN chan[r] : chan[r][i].conn = chan[r][j].conn => i = j
        /\ \A i \in DOMAIN chan[r] : fetch[<<r, chan[r][i].conn>>].at = "ended"
        /\ r > round => chan[r] = <<>> /\ \A c \in Conns : fetch[<<r, c>>].at = "none"

FetchInv == TypeInv /\ LateInv /\ ChanInv

-----------------------------------------------------------------------------
(* Room in the channel. *)

\* There are as many connections as the list is long.
LEMMA ListedCount == IsFiniteSet(Conns) /\ Cardinality(Conns) = Len(Listed)
<1>1. /\ Len(Listed) \in Nat /\ DOMAIN Listed = 1 .. Len(Listed)
      /\ Listed \in [1 .. Len(Listed) -> Conns]
  BY ListedAssumption, LenProperties
<1>2. Listed \in Bijection(1 .. Len(Listed), Conns)
  BY <1>1, ListedAssumption DEF Bijection, Injection, IsInjective, Surjection, Range
<1>3. ExistsBijection(1 .. Len(Listed), Conns)
  BY <1>2 DEF ExistsBijection
<1>4. IsFiniteSet(1 .. Len(Listed)) /\ Cardinality(1 .. Len(Listed)) = Len(Listed)
  <2>1. 1 \in Int /\ Len(Listed) \in Int
    BY <1>1
  <2>2. /\ IsFiniteSet(1 .. Len(Listed))
        /\ Cardinality(1 .. Len(Listed)) = IF 1 > Len(Listed) THEN 0 ELSE Len(Listed) - 1 + 1
    BY <2>1, FS_Interval
  <2> QED
    BY <2>2, <1>1
<1> QED
  BY <1>3, <1>4, FS_Bijection

\* Results of different connections, without one: fewer than connections.
LEMMA Room ==
    ASSUME NEW s \in Seq(Answers), NEW c \in Conns,
           \A i, j \in DOMAIN s : s[i].conn = s[j].conn => i = j,
           \A i \in DOMAIN s : s[i].conn # c
    PROVE  Len(s) < Len(Listed)
<1> DEFINE of == [i \in 1 .. Len(s) |-> s[i].conn]
           others == Conns \ {c}
<1>1. /\ Len(s) \in Nat /\ DOMAIN s = 1 .. Len(s)
      /\ \A i \in 1 .. Len(s) : s[i] \in Answers
  BY LenProperties, ElementOfSeq
<1>2. of \in [1 .. Len(s) -> others]
  BY <1>1 DEF Answers
<1>3. of \in Injection(1 .. Len(s), others)
  BY <1>1, <1>2 DEF Injection, IsInjective
<1>4. /\ IsFiniteSet(others) /\ Cardinality(others) = Cardinality(Conns) - 1
  BY ListedCount, FS_RemoveElement
<1> HIDE DEF of, others
<1>5. Cardinality(1 .. Len(s)) <= Cardinality(others)
  BY <1>3, <1>4, FS_Injection
<1>6. Cardinality(1 .. Len(s)) = Len(s)
  <2>1. 1 \in Int /\ Len(s) \in Int
    BY <1>1
  <2>2. Cardinality(1 .. Len(s)) = IF 1 > Len(s) THEN 0 ELSE Len(s) - 1 + 1
    BY <2>1, FS_Interval
  <2> QED
    BY <2>2, <1>1
<1>7. Len(Listed) \in Nat
  BY ListedAssumption, LenProperties
<1> QED
  BY <1>1, <1>4, <1>5, <1>6, <1>7, ListedCount

\* A goroutine about to send is not in its channel yet, which leaves it room.
LEMMA ChannelHasRoom == TypeInv /\ ChanInv => SendNeverBlocks
<1> SUFFICES ASSUME TypeInv, ChanInv, NEW f \in Fetches, fetch[f].at = "send"
             PROVE  Len(chan[f[1]]) < Capacity
  BY DEF SendNeverBlocks
<1>1. f[1] \in Rounds /\ f[2] \in Conns /\ f = <<f[1], f[2]>>
  BY DEF Fetches
<1>2. chan[f[1]] \in Seq(Answers)
  BY <1>1 DEF TypeInv
<1>3. \A i \in DOMAIN chan[f[1]] : chan[f[1]][i].conn # f[2]
  BY <1>1 DEF ChanInv
<1>4. \A i, j \in DOMAIN chan[f[1]] : chan[f[1]][i].conn = chan[f[1]][j].conn => i = j
  BY <1>1 DEF ChanInv
<1> QED
  BY <1>1, <1>2, <1>3, <1>4, Room DEF Capacity

-----------------------------------------------------------------------------
(* The steps. *)

\* What is known of the sender of a result in a channel.
LEMMA Senders ==
    ASSUME FetchInv, NEW r \in Rounds, NEW i \in DOMAIN chan[r]
    PROVE  /\ <<r, chan[r][i].conn>> \in Fetches
           /\ fetch[<<r, chan[r][i].conn>>].at = "ended"
<1>1. chan[r] \in Seq(Answers)
  BY DEF FetchInv, TypeInv
<1>2. chan[r][i] \in Answers
  BY <1>1, LenProperties, ElementOfSeq
<1> QED
  BY <1>2 DEF FetchInv, ChanInv, Fetches, Answers

\* The deadline takes nothing from the invariant.
LEMMA TimePasses ==
    ASSUME FetchInv, UNCHANGED <<round, fetch, late, chan>>, expired \subseteq expired'
    PROVE  FetchInv'
  BY DEF FetchInv, TypeInv, LateInv, ChanInv

\* A step of a goroutine that sends nothing concerns its own record.
LEMMA OneFetch ==
    ASSUME FetchInv, NEW f \in Fetches, NEW x \in Goroutines,
           fetch' = [fetch EXCEPT ![f] = x],
           fetch[f].at \in {"check", "begin", "call"},
           \/ late' = late /\ (x.at = "begin" => f[1] \notin expired)
           \/ late' = [late EXCEPT ![f] = @ + 1] /\ f[1] \in expired
                 /\ fetch[f].at = "begin" /\ x.at # "begin",
           UNCHANGED <<round, chan, expired>>
    PROVE  FetchInv'
<1>1. /\ fetch \in [Fetches -> Goroutines] /\ late \in [Fetches -> Nat]
      /\ fetch' \in [Fetches -> Goroutines]
      /\ fetch'[f] = x
      /\ \A g \in Fetches : g # f => fetch'[g] = fetch[g]
  BY DEF FetchInv, TypeInv, Goroutines
<1>2. TypeInv'
  <2>1. late' \in [Fetches -> Nat]
    BY <1>1
  <2> QED
    BY <1>1, <2>1 DEF FetchInv, TypeInv, Goroutines
<1>3. LateInv'
  <2> SUFFICES ASSUME NEW g \in Fetches, late'[g] # 0
               PROVE  late'[g] = 1 /\ g[1] \in expired /\ fetch'[g].at # "begin"
    BY DEF LateInv
  <2>1. CASE g # f
    <3>1. late'[g] = late[g] /\ fetch'[g] = fetch[g]
      BY <1>1, <2>1
    <3> QED
      BY <3>1 DEF FetchInv, LateInv
  <2>2. CASE g = f /\ late' = late
    BY <1>1, <2>2 DEF FetchInv, LateInv
  <2>3. CASE g = f /\ late' # late
    <3>1. late[f] = 0
      BY <2>3 DEF FetchInv, LateInv
    <3>2. late'[f] = 1
      BY <1>1, <2>3, <3>1
    <3> QED
      BY <1>1, <2>3, <3>2
  <2> QED
    BY <2>1, <2>2, <2>3
<1>4. ChanInv'
  <2>1. ASSUME NEW r \in Rounds, NEW i \in DOMAIN chan[r]
        PROVE  fetch'[<<r, chan[r][i].conn>>].at = "ended"
    BY <1>1, <2>1, Senders
  <2>2. ASSUME NEW r \in Rounds, NEW c \in Conns, r > round
        PROVE  fetch'[<<r, c>>].at = "none"
    <3>1. <<r, c>> \in Fetches /\ fetch[<<r, c>>].at = "none"
      BY <2>2 DEF FetchInv, ChanInv, Fetches
    <3> QED
      BY <1>1, <3>1
  <2> QED
    BY <2>1, <2>2 DEF FetchInv, ChanInv
<1> QED
  BY <1>2, <1>3, <1>4 DEF FetchInv

\* The call of all goroutines of a round that has not begun.
LEMMA FetchAllStep == FetchInv /\ FetchAll => FetchInv'
<1> SUFFICES ASSUME FetchInv, FetchAll PROVE FetchInv'
  OBVIOUS
<1>1. /\ round' = round + 1
      /\ fetch' = [f \in Fetches |-> IF f[1] = round + 1 THEN BeforeCall(1) ELSE fetch[f]]
      /\ UNCHANGED <<expired, chan, late>>
  BY DEF FetchAll
<1>2. BeforeCall(1) \in Goroutines /\ BeforeCall(1).at # "begin" /\ round \in Nat
  BY DEF BeforeCall, Ats, Goroutines, FetchInv, TypeInv
<1>3. TypeInv'
  BY <1>1, <1>2 DEF FetchInv, TypeInv, Goroutines
<1>4. LateInv'
  BY <1>1, <1>2 DEF FetchInv, LateInv
<1>5. \A r \in Rounds : r \in Nat
  BY DEF Rounds
<1>6. ASSUME NEW r \in Rounds, NEW i \in DOMAIN chan[r]
      PROVE  fetch'[<<r, chan[r][i].conn>>].at = "ended"
  <2>1. r # round + 1
    <3> SUFFICES ASSUME r = round + 1 PROVE FALSE
      OBVIOUS
    <3>1. chan[r] = <<>>
      BY <1>2, <1>5 DEF FetchInv, ChanInv
    <3> QED
      BY <3>1
  <2> QED
    BY <1>1, <2>1, Senders
<1>7. ASSUME NEW r \in Rounds, NEW c \in Conns, r > round + 1
      PROVE  chan[r] = <<>> /\ fetch'[<<r, c>>].at = "none"
  <2>1. r > round /\ r # round + 1 /\ <<r, c>> \in Fetches
    BY <1>2, <1>5, <1>7 DEF Fetches
  <2> QED
    BY <1>1, <2>1 DEF FetchInv, ChanInv
<1>8. ASSUME NEW r \in Rounds, r > round + 1 PROVE chan[r] = <<>>
  BY <1>2, <1>5, <1>8 DEF FetchInv, ChanInv
<1>9. ChanInv'
  BY <1>1, <1>6, <1>7, <1>8 DEF FetchInv, ChanInv
<1> QED
  BY <1>3, <1>4, <1>9 DEF FetchInv

\* A result taken out leaves the others as they are.
LEMMA CollectStep == FetchInv /\ Collect => FetchInv'
<1> SUFFICES ASSUME FetchInv, Collect PROVE FetchInv'
  OBVIOUS
<1> DEFINE c == chan[round]
           t == Tail(chan[round])
<1>1. /\ c # <<>>
      /\ chan' = [chan EXCEPT ![round] = t]
      /\ expired \subseteq expired'
      /\ UNCHANGED <<round, fetch, late>>
  BY DEF Collect
<1>2. CASE round \notin Rounds
  <2>1. chan' = chan
    BY <1>1, <1>2 DEF FetchInv, TypeInv
  <2> QED
    BY <1>1, <2>1, TimePasses
<1>3. CASE round \in Rounds
  <2>1. c \in Seq(Answers) /\ chan \in [Rounds -> Seq(Answers)]
    BY <1>3 DEF FetchInv, TypeInv
  <2>2. /\ t \in Seq(Answers) /\ DOMAIN c = 1 .. Len(c) /\ Len(c) \in Nat
        /\ DOMAIN t = 1 .. Len(c) - 1
        /\ \A i \in 1 .. Len(c) - 1 : t[i] = c[i + 1]
    BY <1>1, <2>1, LenProperties, HeadTailProperties
  <2> HIDE DEF t
  <2>3. chan'[round] = t /\ \A r \in Rounds : r # round => chan'[r] = chan[r]
    BY <1>1, <1>3, <2>1
  <2>4. TypeInv'
    BY <1>1, <2>1, <2>2 DEF FetchInv, TypeInv
  <2>5. LateInv'
    BY <1>1 DEF FetchInv, LateInv
  <2>6. /\ \A i, j \in DOMAIN t : t[i].conn = t[j].conn => i = j
        /\ \A i \in DOMAIN t : fetch[<<round, t[i].conn>>].at = "ended"
    <3>1. \A i \in DOMAIN t : i + 1 \in DOMAIN c /\ t[i] = c[i + 1] /\ i \in Nat
      BY <2>2
    <3>2. /\ \A i, j \in DOMAIN c : c[i].conn = c[j].conn => i = j
          /\ \A i \in DOMAIN c : fetch[<<round, c[i].conn>>].at = "ended"
      BY <1>3 DEF FetchInv, ChanInv
    <3> HIDE DEF c
    <3>3. ASSUME NEW i \in DOMAIN t, NEW j \in DOMAIN t, t[i].conn = t[j].conn
          PROVE  i = j
      <4>1. i + 1 = j + 1
        BY <3>1, <3>2, <3>3
      <4> QED
        BY <3>1, <4>1
    <3> QED
      BY <3>1, <3>2, <3>3
  <2>7. ChanInv'
    <3>1. round \in Nat
      BY DEF FetchInv, TypeInv
    <3> SUFFICES ASSUME NEW r \in Rounds
                 PROVE  /\ \A i, j \in DOMAIN chan'[r] :
                              chan'[r][i].conn = chan'[r][j].conn => i = j
                        /\ \A i \in DOMAIN chan'[r] :
                              fetch[<<r, chan'[r][i].conn>>].at = "ended"
                        /\ r > round => /\ chan'[r] = <<>>
                                        /\ \A d \in Conns : fetch[<<r, d>>].at = "none"
      BY <1>1 DEF ChanInv
    <3>2. CASE r = round
      BY <2>3, <2>6, <3>1, <3>2
    <3>3. CASE r # round
      BY <2>3, <3>3 DEF FetchInv, ChanInv
    <3> QED
      BY <3>2, <3>3
  <2> QED
    BY <2>4, <2>5, <2>7 DEF FetchInv
<1> QED
  BY <1>2, <1>3

\* A result that is sent is the first of its connection, and its goroutine's
\* last act.
LEMMA SendStep == ASSUME FetchInv, NEW f \in Fetches, Send(f) PROVE FetchInv'
<1> DEFINE r == f[1]
           x == [fetch[f] EXCEPT !.at = "ended"]
           a == Result(f[2], fetch[f].ok)
           new == Append(chan[r], a)
<1>1. r \in Rounds /\ f[2] \in Conns /\ f = <<r, f[2]>>
  BY DEF Fetches
<1>2. /\ fetch[f].at = "send"
      /\ chan' = [chan EXCEPT ![r] = new]
      /\ fetch' = [fetch EXCEPT ![f] = x]
      /\ UNCHANGED <<round, expired, late>>
  BY DEF Send
<1>3. /\ fetch \in [Fetches -> Goroutines] /\ chan \in [Rounds -> Seq(Answers)]
      /\ fetch[f] \in Goroutines /\ round \in Nat
  BY DEF FetchInv, TypeInv, Goroutines
<1>4. x \in Goroutines /\ x.at = "ended"
  BY <1>3 DEF Goroutines, Ats
<1>5. a \in Answers /\ a.conn = f[2]
  BY <1>1, <1>3 DEF Result, Answers, Goroutines
<1>6. /\ fetch'[f] = x /\ fetch' \in [Fetches -> Goroutines]
      /\ \A g \in Fetches : g # f => fetch'[g] = fetch[g]
  BY <1>2, <1>3, <1>4
<1> HIDE DEF x, a
<1>7. /\ chan[r] \in Seq(Answers) /\ Len(chan[r]) \in Nat
      /\ DOMAIN chan[r] = 1 .. Len(chan[r])
  BY <1>1, <1>3, LenProperties
<1>8. /\ new \in Seq(Answers)
      /\ DOMAIN new = 1 .. Len(chan[r]) + 1
      /\ \A i \in 1 .. Len(chan[r]) : new[i] = chan[r][i]
      /\ new[Len(chan[r]) + 1] = a
  BY <1>5, <1>7, AppendProperties, LenProperties
<1> HIDE DEF new
<1>9. chan'[r] = new /\ \A q \in Rounds : q # r => chan'[q] = chan[q]
  BY <1>1, <1>2, <1>3
<1>10. TypeInv'
  BY <1>1, <1>2, <1>3, <1>6, <1>8 DEF FetchInv, TypeInv, Goroutines
<1>11. LateInv'
  <2>1. \A g \in Fetches : fetch'[g].at = "begin" => fetch[g].at = "begin"
    BY <1>4, <1>6
  <2> QED
    BY <1>2, <2>1 DEF FetchInv, LateInv
<1>12. ~(r > round)
  BY <1>1, <1>2 DEF FetchInv, ChanInv
<1>13. \A i \in 1 .. Len(chan[r]) : chan[r][i].conn # f[2]
  BY <1>1, <1>2, <1>7, Senders
<1>14. ASSUME NEW i \in DOMAIN new, NEW j \in DOMAIN new, new[i].conn = new[j].conn
       PROVE  i = j
  <2>1. \A k \in DOMAIN new : k \in 1 .. Len(chan[r]) \/ k = Len(chan[r]) + 1
    BY <1>7, <1>8
  <2>2. CASE i \in 1 .. Len(chan[r]) /\ j \in 1 .. Len(chan[r])
    BY <1>1, <1>7, <1>8, <1>14, <2>2 DEF FetchInv, ChanInv
  <2>3. CASE i = Len(chan[r]) + 1 /\ j \in 1 .. Len(chan[r])
    BY <1>5, <1>8, <1>13, <1>14, <2>3
  <2>4. CASE j = Len(chan[r]) + 1 /\ i \in 1 .. Len(chan[r])
    BY <1>5, <1>8, <1>13, <1>14, <2>4
  <2> QED
    BY <2>1, <2>2, <2>3, <2>4
<1>15. ASSUME NEW i \in DOMAIN new PROVE fetch'[<<r, new[i].conn>>].at = "ended"
  <2>1. CASE i \in 1 .. Len(chan[r])
    <3>1. new[i] = chan[r][i] /\ i \in DOMAIN chan[r]
      BY <1>7, <1>8, <2>1
    <3>2. <<r, new[i].conn>> \in Fetches /\ fetch[<<r, new[i].conn>>].at = "ended"
      BY <1>1, <3>1, Senders
    <3> QED
      BY <1>4, <1>6, <3>2
  <2>2. CASE i = Len(chan[r]) + 1
    BY <1>1, <1>4, <1>5, <1>6, <1>8, <2>2
  <2> QED
    BY <1>7, <1>8, <2>1, <2>2
<1>16. ASSUME NEW q \in Rounds, q # r, NEW i \in DOMAIN chan[q]
       PROVE  fetch'[<<q, chan[q][i].conn>>].at = "ended"
  <2>1. <<q, chan[q][i].conn>> \in Fetches /\ fetch[<<q, chan[q][i].conn>>].at = "ended"
    BY Senders
  <2> QED
    BY <1>4, <1>6, <2>1
<1>17. ASSUME NEW q \in Rounds, NEW c \in Conns, q > round
       PROVE  fetch'[<<q, c>>].at = "none"
  <2>1. <<q, c>> \in Fetches /\ fetch[<<q, c>>].at = "none" /\ q # r
    BY <1>12, <1>17 DEF FetchInv, ChanInv, Fetches
  <2>2. <<q, c>> # f
    BY <1>1, <2>1
  <2> QED
    BY <1>6, <2>1, <2>2
<1>18. ChanInv'
  <2> SUFFICES ASSUME NEW q \in Rounds
               PROVE  /\ \A i, j \in DOMAIN chan'[q] :
                            chan'[q][i].conn = chan'[q][j].conn => i = j
                      /\ \A i \in DOMAIN chan'[q] :
                            fetch'[<<q, chan'[q][i].conn>>].at = "ended"
                      /\ q > round => /\ chan'[q] = <<>>
                                      /\ \A c \in Conns : fetch'[<<q, c>>].at = "none"
    BY <1>2 DEF ChanInv
  <2>1. CASE q = r
    BY <1>9, <1>12, <1>14, <1>15, <2>1
  <2>2. CASE q # r
    BY <1>9, <1>16, <1>17, <2>2 DEF FetchInv, ChanInv
  <2> QED
    BY <2>1, <2>2
<1> QED
  BY <1>10, <1>11, <1>18 DEF FetchInv

\* Every step of the rounds and of the goroutines keeps the invariant.
LEMMA FetchStep == FetchInv /\ [Next]_vars => FetchInv'
<1> SUFFICES ASSUME FetchInv, [Next]_vars PROVE FetchInv'
  OBVIOUS
<1>1. CASE Deadline \/ TimeOut \/ UNCHANGED vars
  BY <1>1, TimePasses DEF Deadline, TimeOut, vars
<1>2. ASSUME NEW f \in Fetches
      PROVE  fetch[f] \in Goroutines /\ fetch \in [Fetches -> Goroutines]
  BY DEF FetchInv, TypeInv, Goroutines
<1>3. ASSUME NEW f \in Fetches, Check(f) PROVE FetchInv'
  <2> DEFINE x == IF f[1] \in expired THEN Finished(FALSE)
                  ELSE [fetch[f] EXCEPT !.at = "begin"]
  <2>1. x \in Goroutines /\ (x.at = "begin" => f[1] \notin expired)
    BY <1>2 DEF Finished, Goroutines, Ats
  <2>2. /\ fetch' = [fetch EXCEPT ![f] = x] /\ fetch[f].at = "check"
        /\ UNCHANGED <<round, chan, expired, late>>
    BY <1>3 DEF Check
  <2> HIDE DEF x
  <2> QED
    BY <2>1, <2>2, OneFetch
<1>4. ASSUME NEW f \in Fetches, Begin(f) PROVE FetchInv'
  <2> DEFINE x == [fetch[f] EXCEPT !.at = "call"]
  <2>1. x \in Goroutines /\ x.at = "call"
    BY <1>2 DEF Goroutines, Ats
  <2>2. /\ fetch' = [fetch EXCEPT ![f] = x] /\ fetch[f].at = "begin"
        /\ UNCHANGED <<round, chan, expired>>
    BY <1>4 DEF Begin
  <2>3. /\ f[1] \in expired => late' = [late EXCEPT ![f] = @ + 1]
        /\ f[1] \notin expired => late' = late
    <3>1. late \in [Fetches -> Nat]
      BY DEF FetchInv, TypeInv
    <3>2. CASE f[1] \in expired
      BY <1>4, <3>2 DEF Begin
    <3>3. CASE f[1] \notin expired
      <4>1. late[f] + 0 = late[f]
        BY <3>1
      <4>2. late' = [late EXCEPT ![f] = late[f]]
        BY <1>4, <3>3, <4>1 DEF Begin
      <4> QED
        BY <3>1, <3>3, <4>2
    <3> QED
      BY <3>2, <3>3
  <2> HIDE DEF x
  <2> QED
    BY <2>1, <2>2, <2>3, OneFetch
<1>5. ASSUME NEW f \in Fetches, NEW ok \in BOOLEAN, Answer(f, ok) PROVE FetchInv'
  <2> DEFINE x == IF ok /\ fetch[f].call < Calls THEN BeforeCall(fetch[f].call + 1)
                  ELSE Finished(ok)
  <2>1. x \in Goroutines /\ x.at # "begin"
    BY <1>2 DEF Goroutines, Ats, BeforeCall, Finished
  <2>2. /\ fetch' = [fetch EXCEPT ![f] = x] /\ fetch[f].at = "call"
        /\ UNCHANGED <<round, chan, expired, late>>
    BY <1>5 DEF Answer
  <2> HIDE DEF x
  <2> QED
    BY <2>1, <2>2, OneFetch
<1>6. ASSUME NEW f \in Fetches, Goroutine(f) PROVE FetchInv'
  BY <1>3, <1>4, <1>5, <1>6, SendStep DEF Goroutine
<1> QED
  BY <1>1, <1>6, FetchAllStep, CollectStep DEF Next

\* It holds before the first round.
LEMMA InitFetch == Init => FetchInv
<1> SUFFICES ASSUME Init PROVE FetchInv
  OBVIOUS
<1>1. NotStarted \in Goroutines /\ NotStarted.at = "none"
  BY DEF NotStarted, Goroutines, Ats
<1>2. TypeInv
  BY <1>1 DEF Init, TypeInv, Goroutines
<1>3. LateInv
  BY DEF Init, LateInv
<1>4. \A r \in Rounds, c \in Conns : fetch[<<r, c>>].at = "none"
  BY <1>1 DEF Init, Fetches
<1>5. ChanInv
  BY <1>4 DEF Init, ChanInv
<1> QED
  BY <1>2, <1>3, <1>5 DEF FetchInv

\* It holds in every state of every behaviour.
LEMMA FetchAlways == Spec => []FetchInv
BY InitFetch, FetchStep, PTL DEF Spec

\* A fetch whose time is over begins one more call at most, however many calls
\* it has.
THEOREM AskedOnceMore == Spec => []OneLateCall
<1>1. FetchInv => OneLateCall
  <2> SUFFICES ASSUME FetchInv, NEW f \in Fetches PROVE late[f] <= 1
    BY DEF OneLateCall
  <2>1. late[f] \in Nat
    BY DEF FetchInv, TypeInv
  <2> QED
    BY <2>1 DEF FetchInv, LateInv
<1>2. QED
  BY <1>1, FetchAlways, PTL

\* The channel of a round has room for every goroutine of it, also after the
\* round, for any number of connections and rounds.
THEOREM NobodyLeftBehind == Spec => []SendNeverBlocks
<1>1. FetchInv => SendNeverBlocks
  BY ChannelHasRoom DEF FetchInv
<1>2. QED
  BY <1>1, FetchAlways, PTL

-----------------------------------------------------------------------------
(* The rounds that FetchAll returns. *)

\* The results taken so far are of different connections, each of which has
\* ended and has none left in the channel.
CollectInv ==
    /\ main \in {"idle", "collecting"}
    /\ main = "collecting" =>
          /\ round \in Rounds
          /\ results \in Seq(Answers)
          /\ \A i, j \in DOMAIN results : results[i].conn = results[j].conn => i = j
          /\ \A i \in DOMAIN results :
                /\ fetch[<<round, results[i].conn>>].at = "ended"
                /\ \A k \in DOMAIN chan[round] : chan[round][k].conn # results[i].conn

RoundInv == FetchInv /\ CollectInv

\* Results are of connections.
LEMMA ConnsOf ==
    ASSUME NEW s \in Seq(Answers)
    PROVE  /\ Len(s) \in Nat /\ DOMAIN s = 1 .. Len(s)
           /\ \A i \in DOMAIN s : s[i].conn \in Conns
<1>1. /\ Len(s) \in Nat /\ DOMAIN s = 1 .. Len(s)
      /\ \A i \in 1 .. Len(s) : s[i] \in Answers
  BY LenProperties, ElementOfSeq
<1> QED
  BY <1>1 DEF Answers

\* The result taken out of the channel is of a connection that has none
\* among the results.
LEMMA NextResult ==
    ASSUME RoundInv, Collect
    PROVE  /\ results' \in Seq(Answers)
           /\ \A i, j \in DOMAIN results' : results'[i].conn = results'[j].conn => i = j
           /\ \A i \in DOMAIN results' :
                 /\ fetch[<<round, results'[i].conn>>].at = "ended"
                 /\ \A k \in DOMAIN chan'[round] : chan'[round][k].conn # results'[i].conn
<1> DEFINE c == chan[round]
           a == Head(c)
           n == Len(results)
<1>1. /\ main = "collecting" /\ c # <<>>
      /\ results' = Append(results, a) /\ chan' = [chan EXCEPT ![round] = Tail(c)]
  BY DEF Collect
<1>2. /\ round \in Rounds /\ results \in Seq(Answers)
      /\ \A i, j \in DOMAIN results : results[i].conn = results[j].conn => i = j
      /\ \A i \in DOMAIN results :
            /\ fetch[<<round, results[i].conn>>].at = "ended"
            /\ \A k \in DOMAIN c : c[k].conn # results[i].conn
  BY <1>1 DEF RoundInv, CollectInv
<1>3. chan \in [Rounds -> Seq(Answers)]
  BY DEF RoundInv, FetchInv, TypeInv
<1>4. /\ c \in Seq(Answers) /\ Len(c) \in Nat /\ DOMAIN c = 1 .. Len(c)
      /\ Len(c) >= 1 /\ a = c[1] /\ a \in Answers
      /\ Tail(c) \in Seq(Answers) /\ DOMAIN Tail(c) = 1 .. Len(c) - 1
      /\ \A k \in 1 .. Len(c) - 1 : Tail(c)[k] = c[k + 1]
  <2>1. c \in Seq(Answers)
    BY <1>2, <1>3
  <2> HIDE DEF c
  <2> QED
    BY <1>1, <2>1, LenProperties, HeadTailProperties
<1>5. /\ \A j, k \in DOMAIN c : c[j].conn = c[k].conn => j = k
      /\ \A k \in DOMAIN c : fetch[<<round, c[k].conn>>].at = "ended"
  BY <1>2 DEF RoundInv, FetchInv, ChanInv
<1>6. /\ n \in Nat /\ DOMAIN results = 1 .. n
      /\ results' \in Seq(Answers) /\ DOMAIN results' = 1 .. n + 1
      /\ \A i \in 1 .. n : results'[i] = results[i]
      /\ results'[n + 1] = a
  <2> HIDE DEF a
  <2> QED
    BY <1>1, <1>2, <1>4, LenProperties, AppendProperties
<1>7. \A i \in DOMAIN results' : i \in DOMAIN results \/ i = n + 1
  BY <1>6
<1>8. chan'[round] = Tail(c)
  BY <1>1, <1>2, <1>3
<1> HIDE DEF c, n, a
<1>9. 1 \in DOMAIN c
  BY <1>4
<1>10. \A i \in DOMAIN results : a.conn # results[i].conn /\ results'[i] = results[i]
  BY <1>2, <1>4, <1>6, <1>9
<1>11. \A k \in DOMAIN chan'[round] :
          /\ k + 1 \in DOMAIN c /\ k + 1 # 1
          /\ chan'[round][k] = c[k + 1]
  BY <1>4, <1>8
<1>12. \A k \in DOMAIN chan'[round] : chan'[round][k].conn # a.conn
  BY <1>4, <1>5, <1>9, <1>11
<1>13. ASSUME NEW i \in DOMAIN results', NEW j \in DOMAIN results',
              results'[i].conn = results'[j].conn
       PROVE  i = j
  BY <1>2, <1>6, <1>7, <1>10, <1>13
<1>14. ASSUME NEW i \in DOMAIN results'
       PROVE  /\ fetch[<<round, results'[i].conn>>].at = "ended"
              /\ \A k \in DOMAIN chan'[round] : chan'[round][k].conn # results'[i].conn
  <2>1. CASE i \in DOMAIN results
    BY <1>2, <1>10, <1>11, <2>1
  <2>2. CASE i = n + 1
    BY <1>4, <1>5, <1>6, <1>9, <1>12, <2>2
  <2> QED
    BY <1>7, <2>1, <2>2
<1> QED
  BY <1>6, <1>13, <1>14

\* What is sent while FetchAll collects is of a connection without a result.
LEMMA SendLeavesResults ==
    ASSUME RoundInv, NEW f \in Fetches, Send(f)
    PROVE  CollectInv'
<1>1. f[1] \in Rounds /\ f[2] \in Conns /\ f = <<f[1], f[2]>>
  BY DEF Fetches
<1> DEFINE r == f[1]
           a == Result(f[2], fetch[f].ok)
<1>2. /\ fetch[f].at = "send" /\ chan' = [chan EXCEPT ![r] = Append(chan[r], a)]
      /\ fetch' = [fetch EXCEPT ![f] = [fetch[f] EXCEPT !.at = "ended"]]
      /\ UNCHANGED <<round, main, results>>
  BY DEF Send
<1>3. /\ fetch \in [Fetches -> Goroutines] /\ chan \in [Rounds -> Seq(Answers)]
  BY DEF RoundInv, FetchInv, TypeInv
<1>4. fetch'[f].at = "ended" /\ \A g \in Fetches : g # f => fetch'[g] = fetch[g]
  BY <1>2, <1>3 DEF Goroutines
<1>5. a \in Answers /\ a.conn = f[2]
  BY <1>1, <1>3 DEF Result, Answers, Goroutines
<1>6. SUFFICES ASSUME main = "collecting", NEW i \in DOMAIN results
               PROVE  /\ fetch'[<<round, results[i].conn>>].at = "ended"
                      /\ \A k \in DOMAIN chan'[round] :
                            chan'[round][k].conn # results[i].conn
  BY <1>2 DEF RoundInv, CollectInv
<1>7. /\ round \in Rounds /\ results \in Seq(Answers)
      /\ fetch[<<round, results[i].conn>>].at = "ended"
      /\ \A k \in DOMAIN chan[round] : chan[round][k].conn # results[i].conn
  BY <1>6 DEF RoundInv, CollectInv
<1>8. results[i].conn \in Conns
  BY <1>7, ConnsOf
<1>9. <<round, results[i].conn>> \in Fetches /\ <<round, results[i].conn>> # f
  BY <1>2, <1>7, <1>8 DEF Fetches
<1>10. fetch'[<<round, results[i].conn>>].at = "ended"
  BY <1>4, <1>7, <1>9
<1>11. CASE round # r
  BY <1>1, <1>2, <1>3, <1>7, <1>10, <1>11
<1>12. CASE round = r
  <2>1. results[i].conn # f[2]
    BY <1>1, <1>9, <1>12
  <2>2. chan[r] \in Seq(Answers) /\ chan'[r] = Append(chan[r], a)
    BY <1>1, <1>2, <1>3
  <2> HIDE DEF a
  <2>3. /\ Len(chan[r]) \in Nat /\ DOMAIN chan[r] = 1 .. Len(chan[r])
        /\ DOMAIN chan'[r] = 1 .. Len(chan[r]) + 1
        /\ \A k \in 1 .. Len(chan[r]) : chan'[r][k] = chan[r][k]
        /\ chan'[r][Len(chan[r]) + 1] = a
    BY <1>5, <2>2, LenProperties, AppendProperties
  <2>4. \A k \in DOMAIN chan'[r] : k \in DOMAIN chan[r] \/ k = Len(chan[r]) + 1
    BY <2>3
  <2> QED
    BY <1>5, <1>7, <1>10, <1>12, <2>1, <2>3, <2>4
<1> QED
  BY <1>11, <1>12

\* Collecting, and all that happens meanwhile, keeps the results apart.
LEMMA CollectInvStep == RoundInv /\ [Next]_vars => CollectInv'
<1> SUFFICES ASSUME RoundInv, [Next]_vars PROVE CollectInv'
  OBVIOUS
<1>1. ASSUME UNCHANGED <<round, main, results, chan>>,
             \A g \in Fetches : fetch[g].at = "ended" => fetch'[g].at = "ended"
      PROVE  CollectInv'
  <2> SUFFICES ASSUME main = "collecting", NEW i \in DOMAIN results
               PROVE  fetch'[<<round, results[i].conn>>].at = "ended"
    BY <1>1 DEF RoundInv, CollectInv
  <2>1. /\ round \in Rounds /\ results \in Seq(Answers)
        /\ fetch[<<round, results[i].conn>>].at = "ended"
    BY DEF RoundInv, CollectInv
  <2>2. results[i].conn \in Conns
    BY <2>1, ConnsOf
  <2> QED
    BY <1>1, <2>1, <2>2 DEF Fetches
<1>2. CASE Deadline \/ UNCHANGED vars
  BY <1>1, <1>2 DEF Deadline, vars
<1>3. CASE TimeOut
  BY <1>3 DEF TimeOut, CollectInv
<1>4. CASE FetchAll
  <2>1. round \in Nat /\ MaxRounds \in Nat
    BY NumbersAssumption DEF RoundInv, FetchInv, TypeInv
  <2>2. round + 1 \in Rounds
    BY <1>4, <2>1 DEF FetchAll, Rounds
  <2>3. /\ results' = <<>> /\ round' \in Rounds /\ main' \in {"idle", "collecting"}
    BY <1>4, <2>2 DEF FetchAll
  <2> QED
    BY <2>3 DEF CollectInv
<1>5. CASE Collect
  <2>1. /\ UNCHANGED <<round, fetch>> /\ main' \in {"idle", "collecting"}
        /\ round \in Rounds
    BY <1>5 DEF Collect, RoundInv, CollectInv
  <2> QED
    BY <1>5, <2>1, NextResult DEF CollectInv
<1>6. ASSUME NEW f \in Fetches, Check(f) \/ Begin(f) \/ Answer(f, TRUE) \/ Answer(f, FALSE)
      PROVE  CollectInv'
  <2>1. fetch \in [Fetches -> Goroutines]
    BY DEF RoundInv, FetchInv, TypeInv
  <2>2. fetch[f].at # "ended" /\ UNCHANGED <<round, main, results, chan>>
    BY <1>6 DEF Check, Begin, Answer
  <2>3. \A g \in Fetches : g # f => fetch'[g] = fetch[g]
    BY <1>6, <2>1 DEF Check, Begin, Answer
  <2> QED
    BY <1>1, <2>2, <2>3
<1>7. ASSUME NEW f \in Fetches, Goroutine(f) PROVE CollectInv'
  BY <1>6, <1>7, SendLeavesResults DEF Goroutine
<1> QED
  BY <1>2, <1>3, <1>4, <1>5, <1>7 DEF Next

\* Both parts hold in every state of every behaviour.
LEMMA RoundAlways == Spec => []RoundInv
<1>1. Init => FetchInv /\ CollectInv
  BY InitFetch DEF Init, CollectInv
<1>2. RoundInv /\ [Next]_vars => FetchInv' /\ CollectInv'
  BY FetchStep, CollectInvStep DEF RoundInv
<1>3. QED
  BY <1>1, <1>2, PTL DEF Spec, RoundInv

\* With as many results as connections, each has one.
LEMMA AllHere ==
    ASSUME NEW s \in Seq(Answers), Len(s) = Len(Listed),
           \A i, j \in DOMAIN s : s[i].conn = s[j].conn => i = j
    PROVE  Rds!IsRound(s)
<1>1. ASSUME NEW c \in Conns, \A i \in DOMAIN s : s[i].conn # c PROVE FALSE
  BY <1>1, Room, ListedAssumption, LenProperties
<1>2. \A i \in DOMAIN s : s[i].conn \in Conns
  BY ConnsOf
<1> QED
  BY <1>1, <1>2 DEF Rds!IsRound

\* Where a name without a result is listed first.
Lacking(res) ==
    {i \in DOMAIN Listed :
        /\ nameOf[Listed[i]] \notin {nameOf[res[j].conn] : j \in DOMAIN res}
        /\ \A j \in 1 .. i - 1 : nameOf[Listed[j]] # nameOf[Listed[i]]}

\* The failures appended at the deadline are picked from one of each connection.
LEMMA MissingIsPicked == \A res : Missing(res) = Picked(Failures, Lacking(res))
  BY DEF Missing, Lacking

\* The results in time, with a failure for every name without one.
LEMMA AllNamed ==
    ASSUME NEW s \in Seq(Answers),
           \A i, j \in DOMAIN s : s[i].conn = s[j].conn => i = j
    PROVE  Rds!IsRound(s \o Missing(s))
<1> DEFINE P == Lacking(s)
           m == Missing(s)
           t == s \o m
           names == {nameOf[s[j].conn] : j \in DOMAIN s}
<1>1. /\ Len(Listed) \in Nat /\ DOMAIN Listed = 1 .. Len(Listed)
      /\ \A i \in DOMAIN Listed : Listed[i] \in Conns
  BY ListedAssumption, LenProperties, ElementOfSeq
<1>2. P \in SUBSET (1 .. Len(Listed))
  BY <1>1 DEF Lacking
<1>3. \A i \in P : /\ i \in DOMAIN Listed
                   /\ Failures[i] = Result(Listed[i], FALSE) /\ Failures[i] \in Answers
                   /\ Failures[i].conn = Listed[i] /\ nameOf[Listed[i]] \notin names
  <2> SUFFICES ASSUME NEW i \in P
               PROVE  /\ i \in DOMAIN Listed
                      /\ Failures[i] = Result(Listed[i], FALSE) /\ Failures[i] \in Answers
                      /\ Failures[i].conn = Listed[i] /\ nameOf[Listed[i]] \notin names
    OBVIOUS
  <2>1. i \in DOMAIN Listed /\ nameOf[Listed[i]] \notin names
    BY DEF Lacking
  <2>2. Failures[i] = Result(Listed[i], FALSE)
    BY <2>1 DEF Failures
  <2> QED
    BY <1>1, <2>1, <2>2 DEF Result, Answers
<1> HIDE DEF P, names
<1>4. /\ m \in Seq(Answers) /\ Len(m) = Cardinality(P) /\ Cardinality(P) \in Nat
      /\ \A k \in 1 .. Cardinality(P) : m[k] = Failures[Nth(P, k)]
  <2>1. m = Picked(Failures, P)
    BY MissingIsPicked DEF P
  <2> HIDE DEF m
  <2>2. \A i \in P : Failures[i] \in Answers
    BY <1>3
  <2>3. /\ Picked(Failures, P) \in Seq(Answers)
        /\ Len(Picked(Failures, P)) = Cardinality(P)
        /\ \A k \in 1 .. Cardinality(P) : Picked(Failures, P)[k] = Failures[Nth(P, k)]
    <3>1. /\ Picked(Failures, P) \in Seq(Answers)
          /\ Len(Picked(Failures, P)) = Cardinality(P)
      BY <1>1, <1>2, <2>2, PickedIsList
    <3> QED
      BY <3>1, PickedAt
  <2>4. Cardinality(P) \in Nat
    BY <1>1, <1>2, NthIsNth
  <2> QED
    BY <2>1, <2>3, <2>4
<1> HIDE DEF m
<1>5. /\ \A k \in 1 .. Cardinality(P) : Nth(P, k) \in P
      /\ \A i \in P : \E k \in 1 .. Cardinality(P) : Nth(P, k) = i
      /\ \A k, l \in 1 .. Cardinality(P) : Nth(P, k) = Nth(P, l) => k = l
  BY <1>1, <1>2, NthIsNth
<1>6. \A k \in 1 .. Len(m) : /\ m[k].conn = Listed[Nth(P, k)] /\ m[k].conn \in Conns
                             /\ nameOf[m[k].conn] \notin names
  <2> TAKE k \in 1 .. Len(m)
  <2>1. Nth(P, k) \in P /\ m[k] = Failures[Nth(P, k)]
    BY <1>4, <1>5
  <2> QED
    BY <1>1, <1>3, <2>1
<1>7. \A k, l \in 1 .. Len(m) : m[k].conn = m[l].conn => k = l
  <2> SUFFICES ASSUME NEW k \in 1 .. Len(m), NEW l \in 1 .. Len(m), m[k].conn = m[l].conn
               PROVE  k = l
    OBVIOUS
  <2>1. Listed[Nth(P, k)] = Listed[Nth(P, l)]
    BY <1>6
  <2>2. Nth(P, k) \in DOMAIN Listed /\ Nth(P, l) \in DOMAIN Listed
    BY <1>3, <1>4, <1>5
  <2>3. Nth(P, k) = Nth(P, l)
    BY <2>1, <2>2, ListedAssumption
  <2> QED
    BY <1>4, <1>5, <2>3
<1>8. /\ Len(s) \in Nat /\ DOMAIN s = 1 .. Len(s)
      /\ \A i \in 1 .. Len(s) : s[i].conn \in Conns /\ nameOf[s[i].conn] \in names
  BY ConnsOf DEF names
<1>9. /\ t \in Seq(Answers) /\ DOMAIN t = 1 .. Len(s) + Len(m)
      /\ \A i \in 1 .. Len(s) : t[i] = s[i]
      /\ \A k \in 1 .. Len(m) : Len(s) + k \in DOMAIN t /\ t[Len(s) + k] = m[k]
  <2>1. /\ t \in Seq(Answers) /\ Len(t) = Len(s) + Len(m)
        /\ \A i \in 1 .. Len(s) + Len(m) : t[i] = IF i <= Len(s) THEN s[i] ELSE m[i - Len(s)]
    BY <1>4, ConcatProperties
  <2>2. DOMAIN t = 1 .. Len(s) + Len(m)
    BY <2>1, LenProperties
  <2> HIDE DEF t
  <2>3. ASSUME NEW i \in 1 .. Len(s) PROVE t[i] = s[i]
    BY <1>4, <1>8, <2>1
  <2>4. ASSUME NEW k \in 1 .. Len(m)
        PROVE  Len(s) + k \in DOMAIN t /\ t[Len(s) + k] = m[k]
    <3>1. /\ Len(s) + k \in 1 .. Len(s) + Len(m) /\ ~(Len(s) + k <= Len(s))
          /\ (Len(s) + k) - Len(s) = k
      BY <1>4, <1>8
    <3> QED
      BY <2>1, <2>2, <3>1
  <2> QED
    BY <2>1, <2>2, <2>3, <2>4
<1>10. \A i \in DOMAIN t : i \in 1 .. Len(s) \/ \E k \in 1 .. Len(m) : i = Len(s) + k
  <2> SUFFICES ASSUME NEW i \in DOMAIN t, i \notin 1 .. Len(s)
               PROVE  \E k \in 1 .. Len(m) : i = Len(s) + k
    OBVIOUS
  <2>1. i - Len(s) \in 1 .. Len(m) /\ i = Len(s) + (i - Len(s))
    BY <1>4, <1>8, <1>9
  <2> QED
    BY <2>1
<1> HIDE DEF t
<1>11. \A i \in DOMAIN t :
          \/ i \in 1 .. Len(s) /\ t[i] = s[i]
          \/ \E k \in 1 .. Len(m) : i = Len(s) + k /\ t[i] = m[k]
  BY <1>9, <1>10
<1>14. \A i \in DOMAIN t : t[i].conn \in Conns
  BY <1>6, <1>8, <1>11
<1>12. ASSUME NEW i \in DOMAIN t, NEW j \in DOMAIN t, t[i].conn = t[j].conn
       PROVE  i = j
  <2>1. CASE i \in 1 .. Len(s) /\ t[i] = s[i] /\ j \in 1 .. Len(s) /\ t[j] = s[j]
    BY <1>8, <1>12, <2>1
  <2>2. ASSUME NEW k \in 1 .. Len(m), NEW l \in 1 .. Len(s), m[k].conn = s[l].conn
        PROVE  FALSE
    BY <1>6, <1>8, <2>2
  <2>3. ASSUME NEW k \in 1 .. Len(m), NEW l \in 1 .. Len(m), m[k].conn = m[l].conn
        PROVE  Len(s) + k = Len(s) + l
    BY <1>7, <2>3
  <2> QED
    BY <1>11, <1>12, <2>1, <2>2, <2>3
<1>13. ASSUME NEW c \in Conns PROVE \E i \in DOMAIN t : nameOf[t[i].conn] = nameOf[c]
  <2>1. CASE nameOf[c] \in names
    <3>1. PICK i \in 1 .. Len(s) : nameOf[s[i].conn] = nameOf[c]
      BY <1>8, <2>1 DEF names
    <3>2. i \in DOMAIN t
      BY <1>4, <1>8, <1>9
    <3> QED
      BY <1>9, <3>1, <3>2
  <2>2. CASE nameOf[c] \notin names
    <3> DEFINE T == {i \in DOMAIN Listed : nameOf[Listed[i]] = nameOf[c]}
    <3>1. PICK j \in DOMAIN Listed : Listed[j] = c
      BY ListedAssumption DEF Range
    <3>2. T \in SUBSET Nat /\ T # {}
      BY <1>1, <3>1
    <3>3. PICK i \in T : \A k \in T : i <= k
      <4> HIDE DEF T
      <4> QED
        BY <3>2, Least
    <3>4. \A k \in 1 .. i - 1 : nameOf[Listed[k]] # nameOf[Listed[i]]
      <4> SUFFICES ASSUME NEW k \in 1 .. i - 1, nameOf[Listed[k]] = nameOf[Listed[i]]
                   PROVE  FALSE
        OBVIOUS
      <4>1. i \in 1 .. Len(Listed) /\ nameOf[Listed[i]] = nameOf[c]
        BY <1>1, <3>3
      <4>2. k \in DOMAIN Listed /\ ~(i <= k)
        BY <1>1, <4>1
      <4>3. k \in T
        BY <4>1, <4>2
      <4> QED
        BY <3>3, <4>2, <4>3
    <3>5. i \in P
      BY <2>2, <3>3, <3>4 DEF P, Lacking, names
    <3>6. PICK k \in 1 .. Len(m) : Nth(P, k) = i
      BY <1>4, <1>5, <3>5
    <3>7. t[Len(s) + k].conn = Listed[i] /\ Len(s) + k \in DOMAIN t
      BY <1>6, <1>9, <3>6
    <3> QED
      BY <3>3, <3>7
  <2> QED
    BY <2>1, <2>2
<1> QED
  BY <1>12, <1>13, <1>14 DEF Rds!IsRound, t, m

\* FetchAll returns rounds, whatever the goroutines of this round and of the
\* rounds before are doing: one result of every connection, or when the time
\* is over one for every name.
THEOREM ReturnsRounds == Spec => RoundsSpec
<1>1. Init => Rds!Init
  BY DEF Init, Rds!Init
<1>2. RoundInv /\ RoundInv' /\ [Next]_vars => [Rds!Next]_(Rds!vars)
  <2> SUFFICES ASSUME RoundInv, RoundInv', [Next]_vars PROVE [Rds!Next]_(Rds!vars)
    OBVIOUS
  <2> USE DEF Rds!vars
  <2>1. CASE FetchAll /\ UNCHANGED nameOf
    <3>1. Listed = <<>> <=> Conns = {}
      <4>1. Range(Listed) = Conns /\ Listed \in Seq(Conns)
        BY ListedAssumption
      <4>2. DOMAIN Listed = 1 .. Len(Listed) /\ Len(Listed) \in Nat
        BY <4>1, LenProperties
      <4> QED
        BY <4>1, <4>2, EmptySeq DEF Range
    <3>2. /\ main # "collecting" /\ round' = round + 1 /\ results' = <<>>
          /\ main' = IF Listed = <<>> THEN "idle" ELSE "collecting"
      BY <2>1 DEF FetchAll
    <3> QED
      BY <2>1, <3>1, <3>2 DEF Rds!Next, Rds!Start
  <2>2. CASE Collect /\ UNCHANGED nameOf
    <3>1. UNCHANGED round /\ main = "collecting"
      BY <2>2 DEF Collect
    <3>2. CASE Len(results') = Len(Listed)
      <4>1. main' = "idle"
        BY <2>2, <3>2 DEF Collect
      <4>2. Rds!IsRound(results')
        BY <2>2, <3>2, NextResult, AllHere
      <4> QED
        BY <2>2, <3>1, <4>1, <4>2 DEF Rds!Next, Rds!Return
    <3>3. CASE Len(results') # Len(Listed)
      BY <2>2, <3>1, <3>3 DEF Collect
    <3> QED
      BY <3>2, <3>3
  <2>3. CASE TimeOut /\ UNCHANGED nameOf
    <3>1. /\ main = "collecting" /\ main' = "idle" /\ UNCHANGED round
          /\ results' = results \o Missing(results)
      BY <2>3 DEF TimeOut
    <3>2. Rds!IsRound(results \o Missing(results))
      BY <3>1, AllNamed DEF RoundInv, CollectInv
    <3> QED
      BY <2>3, <3>1, <3>2 DEF Rds!Next, Rds!Return
  <2>4. CASE Deadline /\ UNCHANGED nameOf
    BY <2>4 DEF Deadline
  <2>5. ASSUME NEW f \in Fetches, Goroutine(f), UNCHANGED nameOf
        PROVE  UNCHANGED (Rds!vars)
    BY <2>5 DEF Goroutine, Check, Begin, Answer, Send
  <2>6. CASE UNCHANGED vars
    BY <2>6 DEF vars
  <2> QED
    BY <2>1, <2>2, <2>3, <2>4, <2>5, <2>6 DEF Next
<1> QED
  BY <1>1, <1>2, RoundAlways, PTL DEF Spec, RoundsSpec, Rds!Spec

-----------------------------------------------------------------------------
(* One connection's fetch, against a herdr that changes under it. *)

\* The history follows herdr; every answer is kept as it was given, and what
\* stayed was in the first.
HerdrInv ==
    /\ place \in [Panes -> Workspaces \cup {Gone}]
    /\ title \in [Panes -> Titles]
    /\ places \in [Panes -> SUBSET (Workspaces \cup {Gone})]
    /\ titles \in [Panes -> SUBSET Titles]
    /\ asked \in 0 .. 3
    /\ \A p \in Panes : place[p] \in places[p] /\ title[p] \in titles[p]
    /\ asked >= 1 => stayed \subseteq wsRead
    /\ asked >= 2 => \A p \in Panes : agRead[p] \in places[p]

\* The answers are joined pane by pane.
JoinInv ==
    asked = 3 =>
        /\ \A p \in Panes : agRead[p] \in wsRead
              => \E a \in reported : a.pane = p /\ a.ws = agRead[p]
        /\ \A a \in reported : /\ a.pane \in Panes /\ a.ws = agRead[a.pane]
                               /\ a.ws \in wsRead
                               /\ a.tab \in titles[a.pane] \cup {None}

FetchedInv == HerdrInv /\ JoinInv

\* What herdr's users do adds to the history and leaves the answers alone.
LEMMA UsersStep ==
    ASSUME FetchedInv, UNCHANGED fetchVars,
           place' \in [Panes -> Workspaces \cup {Gone}], title' \in [Panes -> Titles],
           places' \in [Panes -> SUBSET (Workspaces \cup {Gone})],
           titles' \in [Panes -> SUBSET Titles],
           \A p \in Panes : place'[p] \in places'[p] /\ places[p] \subseteq places'[p],
           \A p \in Panes : title'[p] \in titles'[p] /\ titles[p] \subseteq titles'[p],
           stayed' \subseteq stayed
    PROVE  FetchedInv'
<1>1. UNCHANGED <<asked, wsRead, agRead, reported>>
  BY DEF fetchVars
<1>2. HerdrInv'
  BY <1>1 DEF FetchedInv, HerdrInv
<1>3. JoinInv'
  BY <1>1 DEF FetchedInv, JoinInv
<1> QED
  BY <1>2, <1>3 DEF FetchedInv

\* An agent that moves or ends was in both places.
LEMMA MoveStep ==
    ASSUME FetchedInv, NEW p \in Panes, NEW w \in Workspaces \cup {Gone}, Move(p, w)
    PROVE  FetchedInv'
<1>1. /\ place' = [place EXCEPT ![p] = w]
      /\ places' = [places EXCEPT ![p] = @ \cup {w}]
      /\ UNCHANGED <<open, title, fetchVars, stayed, titles>>
  BY DEF Move
<1>2. /\ place \in [Panes -> Workspaces \cup {Gone}] /\ title \in [Panes -> Titles]
      /\ places \in [Panes -> SUBSET (Workspaces \cup {Gone})]
      /\ titles \in [Panes -> SUBSET Titles]
      /\ \A q \in Panes : place[q] \in places[q] /\ title[q] \in titles[q]
  BY DEF FetchedInv, HerdrInv
<1>3. /\ place' \in [Panes -> Workspaces \cup {Gone}]
      /\ places' \in [Panes -> SUBSET (Workspaces \cup {Gone})]
  BY <1>1, <1>2
<1>4. \A q \in Panes : place'[q] \in places'[q] /\ places[q] \subseteq places'[q]
  BY <1>1, <1>2
<1> QED
  BY <1>1, <1>2, <1>3, <1>4, UsersStep

\* With a workspace that closes its agents go; it has not stayed.
LEMMA CloseStep ==
    ASSUME FetchedInv, NEW w \in Workspaces, Close(w)
    PROVE  FetchedInv'
<1>1. /\ place' = [p \in Panes |-> IF place[p] = w THEN Gone ELSE place[p]]
      /\ places' = [p \in Panes |-> places[p] \cup {place'[p]}]
      /\ stayed' = stayed \ {w}
      /\ UNCHANGED <<title, fetchVars, titles>>
  BY DEF Close
<1>2. /\ place \in [Panes -> Workspaces \cup {Gone}] /\ title \in [Panes -> Titles]
      /\ places \in [Panes -> SUBSET (Workspaces \cup {Gone})]
      /\ titles \in [Panes -> SUBSET Titles]
      /\ \A q \in Panes : place[q] \in places[q] /\ title[q] \in titles[q]
  BY DEF FetchedInv, HerdrInv
<1>3. place' \in [Panes -> Workspaces \cup {Gone}]
  BY <1>1, <1>2
<1>4. /\ places' \in [Panes -> SUBSET (Workspaces \cup {Gone})]
      /\ \A q \in Panes : place'[q] \in places'[q] /\ places[q] \subseteq places'[q]
  BY <1>1, <1>2, <1>3
<1> QED
  BY <1>1, <1>2, <1>3, <1>4, UsersStep

\* A tab had both labels.
LEMMA RenameStep ==
    ASSUME FetchedInv, NEW p \in Panes, NEW l \in Titles, Rename(p, l)
    PROVE  FetchedInv'
<1>1. /\ title' = [title EXCEPT ![p] = l]
      /\ titles' = [titles EXCEPT ![p] = @ \cup {l}]
      /\ UNCHANGED <<open, place, fetchVars, places, stayed>>
  BY DEF Rename
<1>2. /\ place \in [Panes -> Workspaces \cup {Gone}] /\ title \in [Panes -> Titles]
      /\ places \in [Panes -> SUBSET (Workspaces \cup {Gone})]
      /\ titles \in [Panes -> SUBSET Titles]
      /\ \A q \in Panes : place[q] \in places[q] /\ title[q] \in titles[q]
  BY DEF FetchedInv, HerdrInv
<1>3. /\ title' \in [Panes -> Titles] /\ titles' \in [Panes -> SUBSET Titles]
  BY <1>1, <1>2
<1>4. \A q \in Panes : title'[q] \in titles'[q] /\ titles[q] \subseteq titles'[q]
  BY <1>1, <1>2
<1> QED
  BY <1>1, <1>2, <1>3, <1>4, UsersStep

\* The third call ends the fetch: its answer is joined with the first two.
LEMMA ListTabsStep == ASSUME FetchedInv, ListTabs PROVE FetchedInv'
<1>1. PICK closed \in SUBSET {p \in Panes : place[p] = Gone} :
          reported' = {[pane |-> p, ws |-> agRead[p], label |-> Label(agRead[p]),
                        tab |-> IF p \in closed THEN None ELSE title[p]] :
                       p \in {q \in Panes : Merged(q)}}
  BY DEF ListTabs
<1>2. /\ asked = 2 /\ asked' = 3
      /\ UNCHANGED <<open, place, title, wsRead, agRead, places, stayed, titles>>
  BY DEF ListTabs, herdrVars
<1>3. \A p \in Panes : title[p] \in titles[p]
  BY DEF FetchedInv, HerdrInv
<1>4. HerdrInv'
  BY <1>2 DEF FetchedInv, HerdrInv
<1>5. ASSUME NEW p \in Panes, agRead[p] \in wsRead
      PROVE  \E a \in reported' : a.pane = p /\ a.ws = agRead[p]
  <2> DEFINE a == [pane |-> p, ws |-> agRead[p], label |-> Label(agRead[p]),
                   tab |-> IF p \in closed THEN None ELSE title[p]]
  <2>1. a \in reported'
    BY <1>1, <1>5, Zenon DEF Merged
  <2> QED
    BY <2>1
<1>6. ASSUME NEW a \in reported'
      PROVE  /\ a.pane \in Panes /\ a.ws = agRead[a.pane] /\ a.ws \in wsRead
             /\ a.tab \in titles[a.pane] \cup {None}
  <2>1. PICK p \in {q \in Panes : Merged(q)} :
            a = [pane |-> p, ws |-> agRead[p], label |-> Label(agRead[p]),
                 tab |-> IF p \in closed THEN None ELSE title[p]]
    BY <1>1, Zenon
  <2>2. p \in Panes /\ agRead[p] \in wsRead
    BY Zenon DEF Merged
  <2>3. a.pane = p /\ a.ws = agRead[p] /\ (a.tab = None \/ a.tab = title[p])
    BY <2>1
  <2> QED
    BY <1>3, <2>2, <2>3
<1>7. JoinInv'
  BY <1>2, <1>5, <1>6 DEF JoinInv
<1> QED
  BY <1>4, <1>7 DEF FetchedInv

\* Every step of herdr and of the fetch keeps the invariant.
LEMMA FetchedStep == FetchedInv /\ [HerdrNext]_herdrFetchVars => FetchedInv'
<1> SUFFICES ASSUME FetchedInv, [HerdrNext]_herdrFetchVars PROVE FetchedInv'
  OBVIOUS
<1>1. ASSUME NEW w \in Workspaces, Open(w) PROVE FetchedInv'
  <2>1. UNCHANGED <<place, title, asked, wsRead, agRead, reported, places, stayed, titles>>
    BY <1>1 DEF Open, fetchVars
  <2> QED
    BY <2>1 DEF FetchedInv, HerdrInv, JoinInv
<1>2. CASE UNCHANGED herdrFetchVars
  BY <1>2 DEF herdrFetchVars, herdrVars, fetchVars, FetchedInv, HerdrInv, JoinInv
<1>3. CASE ListWorkspaces
  <2>1. /\ asked' = 1 /\ wsRead' = open /\ stayed' = open
        /\ places' = [p \in Panes |-> {place[p]}]
        /\ titles' = [p \in Panes |-> {title[p]}]
        /\ UNCHANGED <<open, place, title>>
    BY <1>3 DEF ListWorkspaces, herdrVars
  <2>2. HerdrInv'
    BY <2>1 DEF FetchedInv, HerdrInv
  <2> QED
    BY <2>1, <2>2 DEF FetchedInv, JoinInv
<1>4. CASE ListAgents
  <2>1. /\ asked = 1 /\ asked' = 2 /\ agRead' = place
        /\ UNCHANGED <<open, place, title, wsRead, places, stayed, titles>>
    BY <1>4 DEF ListAgents, herdrVars
  <2>2. HerdrInv'
    BY <2>1 DEF FetchedInv, HerdrInv
  <2> QED
    BY <2>1, <2>2 DEF FetchedInv, JoinInv
<1> QED
  BY <1>1, <1>2, <1>3, <1>4, MoveStep, CloseStep, RenameStep, ListTabsStep DEF HerdrNext

\* It holds in every state of every behaviour.
LEMMA FetchedAlways == HerdrSpec => []FetchedInv
<1>1. HerdrInit => FetchedInv
  <2> SUFFICES ASSUME HerdrInit PROVE FetchedInv
    OBVIOUS
  <2>1. HerdrInv
    BY DEF HerdrInit, HerdrInv
  <2> QED
    BY <2>1 DEF HerdrInit, FetchedInv, JoinInv
<1>2. QED
  BY <1>1, FetchedStep, PTL DEF HerdrSpec

\* Whatever herdr's users do between the three calls, an agent that stayed is
\* reported where it stayed.
THEOREM StayersAreReported == HerdrSpec => []StayersReported
<1>1. FetchedInv => StayersReported
  BY DEF FetchedInv, HerdrInv, JoinInv, StayersReported
<1>2. QED
  BY <1>1, FetchedAlways, PTL

\* ... and every part of what is reported was so during the fetch.
THEOREM ReportIsMadeOfAnswers == HerdrSpec => []NothingInvented
<1>1. FetchedInv => NothingInvented
  BY DEF FetchedInv, HerdrInv, JoinInv, NothingInvented
<1>2. QED
  BY <1>1, FetchedAlways, PTL

=============================================================================
