---------------------------- MODULE StartupProofs ----------------------------
(***************************************************************************)
(* Secure boot and the clock inside the start of a board: the steps of     *)
(* main are steps of each, so that their invariants hold of the whole.     *)
(***************************************************************************)
EXTENDS Startup, SecureBootProofs, TLAPS

-----------------------------------------------------------------------------
(* The clock, for every width of a word, rate of the timer, epoch, number  *)
(* of rounds and hour of the start.                                        *)


(* What the main thread does to the clock. *)
TimeNext ==
  \/ SyncTime \/ SyncStep \/ Tick \/ TimeLost
  \/ sync = "failed" /\ SetTime(Override) /\ sync' = "done"

-----------------------------------------------------------------------------
(* Division with a positive divisor. *)

LEMMA DivMod ==
  ASSUME NEW a \in Int, NEW w \in Nat \ {0}
  PROVE  a = w * (a \div w) + (a % w) /\ a % w \in 0 .. w - 1 /\ a \div w \in Int
OBVIOUS

LEMMA ModIs ==
  ASSUME NEW w \in Nat \ {0}, NEW q \in Int, NEW r \in 0 .. w - 1
  PROVE  (w * q + r) % w = r
OBVIOUS

LEMMA DivIs ==
  ASSUME NEW w \in Nat \ {0}, NEW q \in Int, NEW r \in 0 .. w - 1
  PROVE  (w * q + r) \div w = q
OBVIOUS

(* A multiple of the width of a word does not show. *)
LEMMA ModShift ==
  ASSUME NEW w \in Nat \ {0}, NEW a \in Int, NEW k \in Int
  PROVE  (a + w * k) % w = a % w
<1>. DEFINE q == a \div w
            r == a % w
<1>1. a = w * q + r /\ r \in 0 .. w - 1 /\ q \in Int
  BY DivMod
<1>. HIDE DEF q, r
<1>2. q + k \in Int /\ w * (q + k) = w * q + w * k /\ w * k \in Int /\ w * q \in Int
  BY <1>1
<1>3. a + w * k = w * (q + k) + r
  BY <1>1, <1>2
<1>4. (w * (q + k) + r) % w = r
  BY <1>1, <1>2, ModIs
<1>. QED  BY <1>3, <1>4 DEF r

(* The differences and sums of numbers that wrap. *)
LEMMA UlongDifference ==
  ASSUME NEW a \in Int, NEW b \in Int
  PROVE  Ulong(Ulong(a) - Ulong(b)) = Ulong(a - b)
<1>. DEFINE p == a \div Word
            q == b \div Word
            r == a % Word
            s == b % Word
<1>1. Word \in Nat \ {0}
  BY TimeAssumption
<1>2. a = Word * p + r /\ r \in Int /\ p \in Int
  BY <1>1, DivMod
<1>3. b = Word * q + s /\ s \in Int /\ q \in Int
  BY <1>1, DivMod
<1>4. Ulong(Ulong(a) - Ulong(b)) = (r - s) % Word
  BY DEF Ulong
<1>. HIDE DEF p, q, r, s
<1>5. Word * (p - q) = Word * p - Word * q /\ Word * p \in Int /\ Word * q \in Int
  BY <1>1, <1>2, <1>3
<1>6. a - b = (r - s) + Word * (p - q)
  BY <1>1, <1>2, <1>3, <1>5
<1>7. r - s \in Int /\ p - q \in Int
  BY <1>2, <1>3
<1>8. ((r - s) + Word * (p - q)) % Word = (r - s) % Word
  BY <1>1, <1>7, ModShift
<1>. QED  BY <1>4, <1>6, <1>8 DEF Ulong

LEMMA UlongSum ==
  ASSUME NEW a \in Int, NEW b \in Int
  PROVE  Ulong(Ulong(a) + b) = Ulong(a + b)
<1>. DEFINE p == a \div Word
            r == a % Word
<1>1. Word \in Nat \ {0}
  BY TimeAssumption
<1>2. a = Word * p + r /\ r \in Int /\ p \in Int
  BY <1>1, DivMod
<1>3. Ulong(Ulong(a) + b) = (r + b) % Word
  BY DEF Ulong
<1>. HIDE DEF p, r
<1>4. a + b = (r + b) + Word * p /\ r + b \in Int
  BY <1>1, <1>2
<1>5. ((r + b) + Word * p) % Word = (r + b) % Word
  BY <1>1, <1>2, <1>4, ModShift
<1>. QED  BY <1>3, <1>4, <1>5 DEF Ulong

LEMMA UlongType ==
  ASSUME NEW a \in Int
  PROVE  Ulong(a) \in 0 .. Word - 1 /\ Ulong(a) \in Int
BY TimeAssumption, DivMod DEF Ulong

(* Two clocks that differ by d ticks show a difference of d \div Rate      *)
(* seconds, or of one more.                                                *)
LEMMA TwoClocks ==
  ASSUME NEW t \in Nat, NEW d \in Nat
  PROVE  /\ (t + d) \div Rate - t \div Rate \in {d \div Rate, d \div Rate + 1}
         /\ (t + d) \div Rate \in Int /\ t \div Rate \in Int /\ d \div Rate \in Int
<1>. DEFINE p == t \div Rate
            q == d \div Rate
            r == t % Rate
            s == d % Rate
<1>1. Rate \in Nat \ {0}
  BY TimeAssumption
<1>2. t = Rate * p + r /\ r \in 0 .. Rate - 1 /\ p \in Int
  BY <1>1, DivMod
<1>3. d = Rate * q + s /\ s \in 0 .. Rate - 1 /\ q \in Int
  BY <1>1, DivMod
<1>. HIDE DEF p, q, r, s
<1>4. /\ Rate * (p + q) = Rate * p + Rate * q /\ Rate * (p + q + 1) = Rate * p + Rate * q + Rate
      /\ Rate * p \in Int /\ Rate * q \in Int
  BY <1>1, <1>2, <1>3
<1>5. CASE r + s < Rate
  <2>1. t + d = Rate * (p + q) + (r + s) /\ r + s \in 0 .. Rate - 1 /\ p + q \in Int
    BY <1>1, <1>2, <1>3, <1>4, <1>5
  <2>2. (t + d) \div Rate = p + q
    BY <1>1, <2>1, DivIs
  <2>. QED  BY <1>2, <1>3, <2>2 DEF p, q
<1>6. CASE r + s >= Rate
  <2>1. /\ t + d = Rate * (p + q + 1) + (r + s - Rate)
        /\ r + s - Rate \in 0 .. Rate - 1 /\ p + q + 1 \in Int
    BY <1>1, <1>2, <1>3, <1>4, <1>6
  <2>2. (t + d) \div Rate = p + q + 1
    BY <1>1, <2>1, DivIs
  <2>. QED  BY <1>2, <1>3, <2>2 DEF p, q
<1>. QED  BY <1>1, <1>2, <1>3, <1>5, <1>6

-----------------------------------------------------------------------------
(* Types.  The ticks, those that wrapped included, never run ahead of the  *)
(* true time.                                                              *)

TimeInv ==
  /\ TimeTypeOK
  /\ Late + ticks <= now - start
  /\ now - start <= MaxTicks
  /\ start <= now

LEMMA LateIs ==
  ASSUME wraps \in Nat
  PROVE  Late \in Nat /\ (wraps = 0 => Late = 0)
<1>1. Word \in Nat
  BY TimeAssumption
<1>. QED  BY <1>1 DEF Late

LEMMA TimeTypeInit == ASSUME TimeInit PROVE TimeInv
<1>1. wraps = 0 /\ ticks = 0
  BY DEF TimeInit
<1>2. Late = 0
  BY <1>1, LateIs
<1>. QED  BY <1>1, <1>2, TimeAssumption DEF TimeInit, TimeInv, TimeTypeOK, Addresses

LEMMA TimeNumbers ==
  ASSUME TimeTypeOK
  PROVE  /\ now \in Nat /\ start \in Nat /\ start \in Starts /\ ticks \in Nat
         /\ wraps \in Nat /\ Late \in Nat /\ i \in 0 .. UpdateMax
<1>1. /\ now \in Nat /\ start \in Starts /\ ticks \in 0 .. Word - 1 /\ wraps \in Nat
      /\ i \in 0 .. UpdateMax
  BY DEF TimeTypeOK
<1>2. Starts \subseteq Nat /\ Word \in Nat
  BY TimeAssumption
<1>. QED  BY <1>1, <1>2, LateIs

(* What the counter loses when it wraps is counted. *)
LEMMA PassedTicks ==
  ASSUME TimeTypeOK, NEW n \in Nat, Passed(n)
  PROVE  /\ ticks' \in 0 .. Word - 1 /\ wraps' \in Nat
         /\ Late' + ticks' = Late + ticks + n /\ Late' \in Nat
<1>. DEFINE q == (ticks + n) \div Word
            r == (ticks + n) % Word
<1>1. ticks \in Nat /\ wraps \in Nat /\ Word \in Nat \ {0}
  BY TimeNumbers, TimeAssumption
<1>2. ticks + n = Word * q + r /\ r \in 0 .. Word - 1 /\ q \in Int
  <2>1. ticks + n \in Int
    BY <1>1
  <2>. QED  BY <1>1, <2>1, DivMod
<1>3. q \in Nat
  <2>. HIDE DEF q, r
  <2>. SUFFICES ASSUME q <= -1 PROVE FALSE
    BY <1>2
  <2>1. Word * q <= -Word
    BY <1>1, <1>2
  <2>. QED  BY <1>1, <1>2, <2>1
<1>4. ticks' = r /\ wraps' = wraps + q
  BY DEF Passed, Ulong
<1>. HIDE DEF q, r
<1>5. (wraps + q) * Word = wraps * Word + Word * q /\ (wraps + q) * Word \in Nat
  BY <1>1, <1>3
<1>6. Late' = (wraps + q) * Word /\ Late = wraps * Word
  BY <1>4 DEF Late
<1>7. Late \in Nat /\ Word * q \in Nat
  BY <1>1, <1>3, <1>6
<1>. QED  BY <1>1, <1>2, <1>3, <1>4, <1>5, <1>6, <1>7

LEMMA PassedType ==
  ASSUME TimeInv, NEW n \in Nat, Passed(n)
  PROVE  /\ ticks' \in 0 .. Word - 1 /\ wraps' \in Nat /\ now' \in Nat /\ start' \in Starts
         /\ Late' + ticks' <= now' - start' /\ now' - start' <= MaxTicks /\ start' <= now'
<1>1. /\ now \in Nat /\ start \in Nat /\ start \in Starts /\ ticks \in Nat
      /\ Late \in Nat
  BY TimeNumbers DEF TimeInv
<1>2. Late + ticks <= now - start /\ start <= now
  BY DEF TimeInv
<1>3. now - start + n <= MaxTicks /\ now' = now + n /\ start' = start
  BY DEF Passed
<1>4. MaxTicks \in Nat
  BY TimeAssumption
<1>5. /\ ticks' \in 0 .. Word - 1 /\ wraps' \in Nat
      /\ Late' + ticks' = Late + ticks + n
  BY PassedTicks DEF TimeInv
<1>. QED  BY <1>1, <1>2, <1>3, <1>4, <1>5

(* When the base is set, or lost, the wraps so far are forgotten. *)
LEMMA Forgotten ==
  ASSUME TimeInv, wraps' = 0, ticks' \in {0, ticks}, UNCHANGED <<now, start>>
  PROVE  Late' = 0 /\ Late' + ticks' <= now' - start' /\ now' - start' <= MaxTicks /\ start' <= now'
<1>1. now \in Nat /\ start \in Nat /\ ticks \in Nat /\ Late \in Nat
  BY TimeNumbers DEF TimeInv
<1>2. Late' = 0
  <2>1. Word \in Nat
    BY TimeAssumption
  <2>2. Late' = wraps' * Word
    BY DEF Late
  <2>3. wraps' = 0
    OBVIOUS
  <2>. QED  BY <2>1, <2>2, <2>3
<1>3. Late + ticks <= now - start /\ now - start <= MaxTicks /\ start <= now
  BY DEF TimeInv
<1>4. 0 + ticks' <= now - start
  <2>1. ticks' = 0 \/ ticks' = ticks
    OBVIOUS
  <2>2. CASE ticks' = 0
    BY <1>1, <1>3, <2>2
  <2>3. CASE ticks' = ticks
    BY <1>1, <1>3, <2>3
  <2>. QED  BY <2>1, <2>2, <2>3
<1>5. now' = now /\ start' = start
  OBVIOUS
<1>. QED  BY <1>2, <1>3, <1>4, <1>5

LEMMA TimeTypeStep ==
  ASSUME TimeInv, [TimeNext]_timeVars
  PROVE  TimeInv'
<1>0. /\ start \in Nat /\ now \in Nat /\ ticks \in Nat /\ Rate \in Nat \ {0}
      /\ UpdateMax \in Nat /\ MaxTicks \in Nat /\ Word \in Nat \ {0}
  BY TimeNumbers, TimeAssumption DEF TimeInv
<1>9. /\ 0 \in 0 .. UpdateMax /\ 0 \in 0 .. SyncMax - 1
      /\ 0 \in 0 .. Word - 1
  BY <1>0, TimeAssumption
<1>. USE TimeAssumption DEF TimeTypeOK, Addresses, NoTicks
<1>1. CASE UNCHANGED timeVars
  BY <1>1 DEF timeVars, TimeInv, Late
<1>2. CASE SyncTime
  BY <1>2 DEF SyncTime, Enter, NoTime, Late, TimeInv
<1>3. CASE SyncStep
  <2>1. ASSUME NEW status \in {"ok", "failed"}, Lookup(status) PROVE TimeInv'
    BY <2>1 DEF Lookup, NoTime, Late, TimeInv
  <2>2. CASE CreateSntp
    BY <2>2 DEF CreateSntp, NoTime, Late, TimeInv
  <2>3. CASE InitializeSntp
    BY <2>3 DEF InitializeSntp, DeletesClient, NoTime, Late, TimeInv
  <2>4. CASE RunSntp
    <3>1. i' = 0
      BY <2>4 DEF RunSntp
    <3>2. sntp_client' \in {"running", "none"} /\ sync' \in {"wait", "failed"}
      BY <2>4 DEF RunSntp
    <3>. QED  BY <1>9, <2>4, <3>1, <3>2 DEF RunSntp, NoTime, Late, TimeInv
  <2>5. CASE Updated
    <3>1. /\ now \div Rate \in Int /\ ticks \div Rate \in Int
      BY <1>0, DivMod
    <3>2. BaseFrom \in 0 .. Word - 1
      BY <3>1, UlongType DEF BaseFrom, UnixTime, SystemTime
    <3>3. wraps' = 0 /\ UNCHANGED <<ticks, now, start>>
      BY <2>5 DEF Updated
    <3>4. TimeTypeOK'
      BY <2>5, <3>2, <3>3 DEF Updated, TimeInv
    <3>. QED  BY <3>3, <3>4, Forgotten DEF TimeInv
  <2>6. CASE NotUpdated
    <3>1. Rate \div 2 \in Nat
      OBVIOUS
    <3>2. CASE Passed(Rate \div 2)
      BY <2>6, <3>1, <3>2, PassedType DEF NotUpdated, RoundsLeft, TimeInv
    <3>3. CASE NoTime
      BY <2>6, <3>3 DEF NotUpdated, RoundsLeft, NoTime, Late, TimeInv
    <3>. QED  BY <2>6, <3>2, <3>3 DEF NotUpdated
  <2>7. CASE NeverUpdated
    BY <2>7 DEF NeverUpdated, NoTime, Late, TimeInv
  <2>8. CASE TryAgain
    BY <2>8 DEF TryAgain, Enter, NoTime, Late, TimeInv
  <2>. QED  BY <1>3, <2>1, <2>2, <2>3, <2>4, <2>5, <2>6, <2>7, <2>8 DEF SyncStep
<1>4. CASE Tick
  BY <1>4, PassedType DEF Tick, TimeInv
<1>5. CASE TimeLost
  <2>1. UNCHANGED <<now, start>> /\ ticks' = 0 /\ wraps' = 0
    BY <1>5 DEF TimeLost
  <2>2. Late' + ticks' <= now' - start' /\ now' - start' <= MaxTicks /\ start' <= now'
    BY <2>1, Forgotten
  <2>3. TimeTypeOK'
    BY <1>9, <1>5 DEF TimeLost, TimeInv
  <2>. QED  BY <2>2, <2>3 DEF TimeInv
<1>6. CASE SetTime(Override) /\ sync' = "done"
  <2>1. ticks \div Rate \in Int
    BY <1>0, DivMod
  <2>2. Ulong(Override - SystemTime) \in 0 .. Word - 1
    BY <2>1, UlongType DEF SystemTime
  <2>3. wraps' = 0 /\ UNCHANGED <<ticks, now, start>>
    BY <1>6, Zenon DEF SetTime, NoTicks
  <2>4. /\ unix_time_base' \in 0 .. Word - 1 /\ source' = "override" /\ sync' = "done"
        /\ UNCHANGED <<tries, address, sntp_client, i>>
    BY <1>6, <2>2, Zenon DEF SetTime
  <2>5. TimeTypeOK'
    BY <1>0, <2>3, <2>4 DEF TimeInv
  <2>. QED  BY <2>3, <2>5, Forgotten DEF TimeInv
<1>. QED  BY <1>1, <1>2, <1>3, <1>4, <1>5, <1>6 DEF TimeNext

-----------------------------------------------------------------------------
(* sntp_client is deleted on every way out.                                *)

LEMMA ClientInit == ASSUME TimeInit PROVE ClientDeleted
BY DEF TimeInit, ClientDeleted

LEMMA ClientStep ==
  ASSUME TimeTypeOK, ClientDeleted, [TimeNext]_timeVars
  PROVE  ClientDeleted'
<1>. USE DEF ClientDeleted
<1>1. CASE UNCHANGED timeVars
  BY <1>1 DEF timeVars
<1>2. CASE SyncTime
  BY <1>2 DEF SyncTime, Enter
<1>3. CASE SyncStep
  <2>1. ASSUME NEW status \in {"ok", "failed"}, Lookup(status) PROVE ClientDeleted'
    BY <2>1 DEF Lookup
  <2>2. CASE CreateSntp
    BY <2>2 DEF CreateSntp
  <2>3. CASE InitializeSntp
    BY <2>3 DEF InitializeSntp, DeletesClient
  <2>4. CASE RunSntp
    BY <2>4 DEF RunSntp
  <2>5. CASE Updated \/ NeverUpdated
    BY <2>5 DEF Updated, NeverUpdated
  <2>6. CASE NotUpdated
    BY <2>6 DEF NotUpdated
  <2>7. CASE TryAgain
    BY <2>7 DEF TryAgain, Enter
  <2>. QED  BY <1>3, <2>1, <2>2, <2>3, <2>4, <2>5, <2>6, <2>7 DEF SyncStep
<1>4. CASE Tick
  BY <1>4 DEF Tick
<1>5. CASE TimeLost
  BY <1>5 DEF TimeLost
<1>6. CASE sync = "failed" /\ SetTime(Override)
  BY <1>6 DEF SetTime
<1>. QED  BY <1>1, <1>2, <1>3, <1>4, <1>5, <1>6 DEF TimeNext

-----------------------------------------------------------------------------
(* The clock.  The true time and the ticks, with those that wrapped,       *)
(* advance together, so that the base stays within a second of their       *)
(* difference, as far as it shows.                                         *)

Skew == now - Late - ticks
ClockInv ==
  source = "sntp" =>
    unix_time_base \in {Ulong(Skew \div Rate), Ulong(Skew \div Rate + 1)}

LEMMA SkewSeconds ==
  ASSUME TimeInv
  PROVE  /\ (now - Late) \div Rate - SystemTime \in {Skew \div Rate, Skew \div Rate + 1}
         /\ (now - Late) \div Rate \in Int /\ SystemTime \in Int /\ Skew \div Rate \in Int
<1>1. now \in Nat /\ start \in Nat /\ ticks \in Nat /\ Late \in Nat
  BY TimeNumbers DEF TimeInv
<1>2. Late + ticks <= now - start
  BY DEF TimeInv
<1>3. Skew \in Nat /\ ticks + Skew = now - Late
  BY <1>1, <1>2 DEF Skew
<1>. QED  BY <1>1, <1>3, TwoClocks DEF SystemTime

(* The base set from the server's time is the skew counted without wraps.  *)
LEMMA BaseIsSkew ==
  ASSUME TimeInv, Updated
  PROVE  BaseFrom \in {Ulong(Skew' \div Rate), Ulong(Skew' \div Rate + 1)}
<1>. DEFINE x == now \div Rate
            s == now - ticks
<1>1. now \in Nat /\ start \in Nat /\ ticks \in Nat /\ Late \in Nat
  BY TimeNumbers DEF TimeInv
<1>2. Late + ticks <= now - start
  BY DEF TimeInv
<1>3. s \in Nat /\ ticks + s = now
  BY <1>1, <1>2
<1>4. wraps' = 0 /\ UNCHANGED <<ticks, now, start>>
  BY DEF Updated, NoTicks
<1>5. Late' = 0
  BY <1>4, Forgotten
<1>6. Skew' = s
  BY <1>1, <1>4, <1>5 DEF Skew
<1>. HIDE DEF s
<1>7. /\ x - SystemTime \in {s \div Rate, s \div Rate + 1}
      /\ x \in Int /\ SystemTime \in Int /\ s \div Rate \in Int /\ Epoch \in Int
  BY <1>1, <1>3, TwoClocks, TimeAssumption DEF SystemTime
<1>8. Ulong(UnixTime + Epoch) = Ulong(x + Epoch)
  BY <1>7, UlongSum DEF UnixTime
<1>. HIDE DEF x
<1>9. Ulong(Ulong(x + Epoch) - Ulong(SystemTime + Epoch)) = Ulong((x + Epoch) - (SystemTime + Epoch))
  BY <1>7, UlongDifference
<1>10. (x + Epoch) - (SystemTime + Epoch) = x - SystemTime
  BY <1>7
<1>11. BaseFrom = Ulong(x - SystemTime)
  BY <1>8, <1>9, <1>10 DEF BaseFrom
<1>. QED  BY <1>6, <1>7, <1>11

LEMMA ClockStep ==
  ASSUME TimeInv, ClockInv, [TimeNext]_timeVars
  PROVE  ClockInv'
<1>1. CASE Updated
  <2>1. unix_time_base' = BaseFrom
    BY <1>1 DEF Updated
  <2>. QED  BY <1>1, <2>1, BaseIsSkew DEF ClockInv, Ulong
<1>2. ASSUME UNCHANGED <<source, unix_time_base, ticks, wraps, now>> PROVE ClockInv'
  <2>1. Skew' = Skew
    BY <1>2 DEF Skew, Late
  <2>. QED  BY <1>2, <2>1 DEF ClockInv, Ulong
<1>3. ASSUME NEW n \in Nat, Passed(n), UNCHANGED <<source, unix_time_base>> PROVE ClockInv'
  <2>1. now \in Nat /\ ticks \in Nat /\ Late \in Nat
    BY TimeNumbers DEF TimeInv
  <2>2. /\ ticks' \in 0 .. Word - 1 /\ Late' \in Nat
        /\ Late' + ticks' = Late + ticks + n
    BY <1>3, PassedTicks DEF TimeInv
  <2>3. Skew' = Skew
    BY <1>3, <2>1, <2>2, TimeAssumption DEF Skew, Passed
  <2>. QED  BY <1>3, <2>3 DEF ClockInv, Ulong
<1>4. ASSUME source' \in {"none", "override"} PROVE ClockInv'
  BY <1>4 DEF ClockInv
<1>5. CASE SyncStep
  <2>1. CASE NotUpdated
    <3>1. Rate \div 2 \in Nat
      BY TimeAssumption
    <3>. QED  BY <2>1, <3>1, <1>2, <1>3 DEF NotUpdated, NoTime, NoTicks
  <2>2. CASE TryAgain
    BY <2>2, <1>2 DEF TryAgain, NoTime, NoTicks
  <2>3. CASE NeverUpdated
    BY <2>3, <1>2 DEF NeverUpdated, NoTime, NoTicks
  <2>4. ASSUME NEW status \in {"ok", "failed"}, Lookup(status) PROVE ClockInv'
    BY <2>4, <1>2 DEF Lookup, NoTime, NoTicks
  <2>5. CASE CreateSntp \/ InitializeSntp \/ RunSntp
    BY <2>5, <1>2 DEF CreateSntp, InitializeSntp, RunSntp, NoTime, NoTicks
  <2>. QED  BY <1>1, <1>5, <2>1, <2>2, <2>3, <2>4, <2>5 DEF SyncStep
<1>6. CASE UNCHANGED timeVars \/ SyncTime
  BY <1>2, <1>6 DEF timeVars, SyncTime, NoTime, NoTicks
<1>7. CASE Tick
  BY <1>3, <1>7 DEF Tick
<1>8. CASE TimeLost \/ SetTime(Override)
  BY <1>4, <1>8 DEF TimeLost, SetTime
<1>. QED  BY <1>5, <1>6, <1>7, <1>8 DEF TimeNext

LEMMA ClockIsRight ==
  ASSUME TimeInv, ClockInv
  PROVE  ClockRight
<1>. DEFINE x == (now - Late) \div Rate
            q == Skew \div Rate
<1>. SUFFICES ASSUME source = "sntp"
              PROVE  \E error \in {-1, 0, 1} : UnixTimeGet = Ulong(x + error)
  BY DEF ClockRight
<1>1. /\ x \in Int /\ SystemTime \in Int /\ q \in Int
      /\ x - SystemTime \in {q, q + 1}
  BY SkewSeconds
<1>2. PICK p \in {q, q + 1} : unix_time_base = Ulong(p)
  BY DEF ClockInv
<1>. HIDE DEF q
<1>3. p \in Int
  BY <1>1, <1>2
<1>4. UnixTimeGet = Ulong(p + SystemTime)
  BY <1>1, <1>2, <1>3, UlongSum DEF UnixTimeGet
<1>. HIDE DEF x
<1>5. \E error \in {-1, 0, 1} : p + SystemTime = x + error
  BY <1>1, <1>2
<1>. QED  BY <1>4, <1>5

-----------------------------------------------------------------------------
(* The start as a whole. *)

Stages == {"boot", "network", "sync", "app", "idle", "stopped"}

(* How far main has come says what has succeeded before. *)
StageInv ==
  /\ board \in Boards /\ stage \in Stages
  /\ board = "stm32l4" => stage # "boot" /\ boot = "restore"
  /\ board = "ck-rx65n" /\ stage \notin {"boot", "stopped"} => boot = "success"
  /\ stage = "stopped" => boot \in {"restore", "status", "success"}
  /\ stage \in {"app", "idle"} =>
       source # "none" /\ (board = "ck-rx65n" => source = "sntp")

IInv ==
  /\ BootInv /\ TimeInv
  /\ ClientDeleted /\ ClockInv
  /\ StageInv

-----------------------------------------------------------------------------
LEMMA Initially == ASSUME Init PROVE IInv
<1>1. BootInv /\ TimeInv /\ ClientDeleted
  BY BootInitially, TimeTypeInit, ClientInit DEF Init
<1>2. ClockInv
  BY DEF Init, TimeInit, ClockInv
<1>3. StageInv
  BY StartupAssumption DEF Init, BootInit, FirstStage, StageInv, Stages
<1>. QED  BY <1>1, <1>2, <1>3 DEF IInv

(* Only main resets the board once secure boot is over. *)
LEMMA StepsOfBoot == ASSUME StageInv, [Next]_vars PROVE [BootNext]_bootVars
<1>1. CASE Boot
  BY <1>1 DEF Boot, BootNext
<1>2. CASE Reset
  <2>1. ResetByMain => boot # "write"
    BY <1>2 DEF StageInv, Reset, ResetByMain
  <2>. QED  BY <1>2, <2>1 DEF Reset, BootNext
<1>3. CASE TurnOffAndOn \/ LosePower
  BY <1>3 DEF TurnOffAndOn, LosePower, BootNext, StageInv
<1>4. CASE Stop \/ Network \/ Sync \/ GiveUpSync \/ RunApp \/ UNCHANGED vars
  BY <1>4 DEF Stop, Network, Sync, GiveUpSync, RunApp, vars
<1>. QED  BY <1>1, <1>2, <1>3, <1>4 DEF Next

LEMMA StepsOfTime == ASSUME [Next]_vars PROVE [TimeNext]_timeVars
<1>1. CASE Network \/ Sync \/ RunApp
  BY <1>1 DEF Network, Sync, RunApp, TimeNext
<1>2. CASE GiveUpSync
  BY <1>2 DEF GiveUpSync, TimeNext
<1>3. CASE Reset \/ TurnOffAndOn \/ LosePower
  BY <1>3 DEF Reset, TurnOffAndOn, LosePower, TimeNext
<1>4. CASE Boot \/ Stop \/ UNCHANGED vars
  BY <1>4 DEF Boot, Stop, vars
<1>. QED  BY <1>1, <1>2, <1>3, <1>4 DEF Next

(* sntp_time_sync is done when the clock was set from its updates. *)
LEMMA DoneMeansUpdated ==
  ASSUME SyncStep, sync' = "done"
  PROVE  source' = "sntp"
BY DEF SyncStep, Lookup, CreateSntp, InitializeSntp, RunSntp, Updated, NotUpdated, NeverUpdated,
   TryAgain, Enter

LEMMA StageStep == ASSUME StageInv, [Next]_vars PROVE StageInv'
<1>. USE DEF StageInv, Stages
<1>1. CASE Boot
  BY <1>1 DEF Boot
<1>2. CASE Network
  BY <1>2 DEF Network, bootVars
<1>3. CASE Sync
  BY <1>3, DoneMeansUpdated DEF Sync, bootVars
<1>4. CASE GiveUpSync
  BY <1>4 DEF GiveUpSync, SetTime, bootVars
<1>5. CASE RunApp
  BY <1>5 DEF RunApp, Tick, timeVars, bootVars
<1>6. CASE Reset
  BY <1>6 DEF Reset, FirstStage, Restarted
<1>9. CASE TurnOffAndOn
  BY <1>9 DEF TurnOffAndOn, FirstStage, Restarted
<1>10. CASE LosePower
  BY <1>10 DEF LosePower, FirstStage, Restarted, PowerCycle
<1>8. CASE Stop
  <2>1. /\ stage' = "stopped" /\ UNCHANGED <<board, boot>>
        /\ \/ stage = "boot" /\ boot \in {"restore", "status"}
           \/ stage = "network"
    BY <1>8, Zenon DEF Stop, bootVars
  <2>. QED  BY <2>1, StartupAssumption
<1>7. CASE UNCHANGED vars
  BY <1>7 DEF vars, bootVars, timeVars
<1>. QED  BY <1>1, <1>2, <1>3, <1>4, <1>5, <1>6, <1>7, <1>8, <1>9, <1>10
  DEF Next

LEMMA Inductive == ASSUME IInv, [Next]_vars PROVE IInv'
<1>1. BootInv'
  BY StepsOfBoot, BootStepKeeps DEF IInv
<1>2. TimeInv' /\ ClientDeleted' /\ ClockInv'
  BY StepsOfTime, TimeTypeStep, ClientStep, ClockStep DEF IInv, TimeInv
<1>3. StageInv'
  BY StageStep DEF IInv
<1>. QED  BY <1>1, <1>2, <1>3 DEF IInv

LEMMA Always == Spec => []IInv
<1>1. Init => IInv
  BY Initially
<1>2. IInv /\ [Next]_vars => IInv'
  BY Inductive
<1>. QED  BY <1>1, <1>2, PTL DEF Spec

-----------------------------------------------------------------------------
(* Every variable has its type: the counters of secure boot and of the     *)
(* SNTP loops stay within their limits.                                    *)
THEOREM TypeCorrect == Spec => []TypeOK
<1>1. IInv => TypeOK
  BY DEF IInv, BootInv, TimeInv, StageInv, Stages, TypeOK
<1>. QED  BY <1>1, Always, PTL

(* Secure boot (secure_boot.c) succeeds only with key indexes and with a   *)
(* mirror of them, unless an update of main was cut short.                 *)
THEOREM BootHasKeys == Spec => []SuccessHasKeys
<1>1. IInv => SuccessHasKeys
  BY BootProperties DEF IInv
<1>. QED  BY <1>1, Always, PTL

(* Once a boot has succeeded neither copy of the key block holds the       *)
(* encrypted keys (secure_boot.c:136).                                     *)
THEOREM KeysAreWiped == Spec => []EncryptedKeysGone
<1>1. IInv => EncryptedKeysGone
  BY BootProperties DEF IInv
<1>. QED  BY <1>1, Always, PTL

(* However often and wherever the mirror is lost, the device is not        *)
(* declared broken, nor its key block not genuine.                         *)
THEOREM MirrorIsExpendable == Spec => []MirrorExpendable
<1>1. IInv => MirrorExpendable
  BY BootProperties DEF IInv
<1>. QED  BY <1>1, Always, PTL

(* Key indexes are generated no more once a boot has succeeded, whatever   *)
(* resets and losses of power follow.                                      *)
THEOREM KeysAreGeneratedOnce == Spec => GeneratedOnce
<1>1. IInv /\ [Next]_vars => [released => generations' = generations]_generations
  BY StepsOfBoot, GeneratesOnce DEF IInv
<1>. QED  BY <1>1, Always, PTL DEF Spec, GeneratedOnce

(* unix_time_get (azrtos_time.c) is right to a second after a              *)
(* synchronisation, through every wrap of the seconds, but late by a whole *)
(* word of ticks for each time tx_time_get has wrapped since.              *)
THEOREM ClockIsAlwaysRight == Spec => []ClockRight
<1>1. IInv => ClockRight
  BY ClockIsRight DEF IInv
<1>. QED  BY <1>1, Always, PTL

(* The static SNTP client is deleted on every way out of sntp_time_sync.   *)
THEOREM ClientIsDeleted == Spec => []ClientDeleted
<1>1. IInv => ClientDeleted
  BY DEF IInv
<1>. QED  BY <1>1, Always, PTL

(* app_startup never runs without a clock nor, on the CK-RX65N, without    *)
(* the keys of the device.                                                 *)
THEOREM AppStartsReady == Spec => []AppIsReady
<1>1. IInv => AppIsReady
  BY DEF IInv, BootInv, MainIsWhole, InPlace, WhollyWritten, Delivered, Made, StageInv, AppIsReady
<1>. QED  BY <1>1, Always, PTL
=============================================================================
