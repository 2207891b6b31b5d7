------------------------------ MODULE CronProofs ------------------------------
(* Proofs about Cron: the walk finds the first occurrence, or there is none  *)
(* in four years, for every expression, start and clock.                     *)
EXTENDS Cron, TLAPS

-----------------------------------------------------------------------------
(* The calendar: every part of an instant is in the range of its field. *)

(* Within 400 years a day is in a century c, a leap cycle b of it and a year *)
(* g of that.  The century, the cycle and the year that end with a leap day  *)
(* are one day longer than the others of their kind.                         *)
IsDate(z, c, b, g, e) ==
  /\ z = 36524 * c + 1461 * b + 365 * g + e
  /\ 0 <= c /\ c <= 3 /\ 0 <= b /\ b <= 24 /\ 0 <= g /\ g <= 3 /\ 0 <= e /\ e <= 365
  /\ e = 365 => g = 3 /\ (b = 24 => c = 3)

LEMMA DayInCycle ==
  ASSUME NEW z \in Int, 0 <= z, z <= 146096
  PROVE  \E c, b, g, e \in Int : IsDate(z, c, b, g, e)
<1> DEFINE c == IF z = 146096 THEN 3 ELSE z \div 36524
           d == z - 36524 * c
           b == IF d = 36524 THEN 24 ELSE d \div 1461
           f == d - 1461 * b
           g == IF f = 1460 THEN 3 ELSE f \div 365
           e == f - 365 * g
<1>1. /\ c \in Int /\ 0 <= c /\ c <= 3
      /\ d \in Int /\ 0 <= d /\ d <= 36524 /\ (d = 36524 => c = 3)
  BY SMT
<1>2. z = 36524 * c + d
  <2> HIDE DEF c
  <2> QED BY <1>1, SMT
<1> HIDE DEF c, d
<1>3. /\ b \in Int /\ 0 <= b /\ b <= 24
      /\ f \in Int /\ 0 <= f /\ f <= 1460 /\ (f = 1460 /\ b = 24 => d = 36524)
  BY <1>1, SMT
<1>4. d = 1461 * b + f
  <2> HIDE DEF b
  <2> QED BY <1>1, <1>3, SMT
<1> HIDE DEF b, f
<1>5. /\ g \in Int /\ 0 <= g /\ g <= 3
      /\ e \in Int /\ 0 <= e /\ e <= 365 /\ (e = 365 => g = 3 /\ f = 1460)
  BY <1>3, SMT
<1>6. f = 365 * g + e
  <2> HIDE DEF g
  <2> QED BY <1>3, <1>5, SMT
<1> HIDE DEF g, e
<1>7. z = 36524 * c + 1461 * b + 365 * g + e
  BY <1>1, <1>2, <1>3, <1>4, <1>5, <1>6, SMT
<1>8. IsDate(z, c, b, g, e)
  BY <1>1, <1>3, <1>5, <1>7 DEF IsDate
<1> QED BY <1>1, <1>3, <1>5, <1>8

(* So years are numbered that each begins where the one before it ends. *)
LEMMA DayOfYear ==
  ASSUME NEW z \in Int, 0 <= z, z <= 146096, NEW year \in Int,
         year = (z - z \div 1460 + z \div 36524 - z \div 146096) \div 365
  PROVE  /\ 0 <= z - (365 * year + year \div 4 - year \div 100)
         /\ z - (365 * year + year \div 4 - year \div 100) <= 365
<1>1. PICK c, b, g, e \in Int : IsDate(z, c, b, g, e)
  BY DayInCycle, SMT
<1> DEFINE x == IF 24 * c + b + 365 * g + e >= 1460 THEN 1 ELSE 0
<1>2. z \div 1460 = 25 * c + b + x
  BY <1>1, SMT DEF IsDate
<1>3. z \div 36524 - z \div 146096 = c
  <2>1. CASE z = 146096
    BY <1>1, <2>1, SMT DEF IsDate
  <2>2. CASE z # 146096
    <3>1. 0 <= 1461 * b + 365 * g + e /\ 1461 * b + 365 * g + e < 36524
      BY <1>1, <2>2, SMT DEF IsDate
    <3>2. z \div 36524 = c /\ z \div 146096 = 0
      BY <1>1, <2>2, <3>1, SMT DEF IsDate
    <3> QED BY <1>1, <3>2, SMT
  <2> QED BY <2>1, <2>2
<1>4. z - z \div 1460 + z \div 36524 - z \div 146096 = 365 * (100 * c + 4 * b + g) + e - x
  <2> DEFINE q == z \div 1460
             p == z \div 36524
             r == z \div 146096
  <2>1. q \in Int /\ p \in Int /\ r \in Int /\ q = 25 * c + b + x /\ p - r = c
    BY <1>2, <1>3, SMT
  <2>2. x \in Int
    OBVIOUS
  <2> HIDE DEF q, p, r, x
  <2>3. z - q + p - r = 365 * (100 * c + 4 * b + g) + e - x
    BY <1>1, <2>1, <2>2, SMT DEF IsDate
  <2> QED BY <2>3 DEF q, p, r
<1>5. year = 100 * c + 4 * b + g
  <2>1. 0 <= e - x /\ e - x < 365
    BY <1>1, SMT DEF IsDate
  <2>2. x \in Int
    OBVIOUS
  <2> HIDE DEF x
  <2>3. year = (365 * (100 * c + 4 * b + g) + e - x) \div 365
    BY <1>4, SMT
  <2> QED BY <2>1, <2>2, <2>3, SMT
<1>6. year \div 4 = 25 * c + b /\ year \div 100 = c
  BY <1>1, <1>5, SMT DEF IsDate
<1>7. z - (365 * year + year \div 4 - year \div 100) = e
  BY <1>1, <1>5, <1>6, SMT DEF IsDate
<1> QED BY <1>1, <1>7, SMT DEF IsDate

LEMMA DayOfMonth ==
  ASSUME NEW doy \in Int, 0 <= doy, doy <= 365, NEW m \in Int, m = (5 * doy + 2) \div 153
  PROVE  /\ 0 <= m /\ m <= 11
         /\ 1 <= doy - (153 * m + 2) \div 5 + 1 /\ doy - (153 * m + 2) \div 5 + 1 <= 31
BY SMT

LEMMA MonthDayRange ==
  ASSUME NEW day \in Int
  PROVE  MonthDay(day).month \in 1..12 /\ MonthDay(day).day \in 1..31
<1> DEFINE z == (day + 719468) % 146097
           year == (z - z \div 1460 + z \div 36524 - z \div 146096) \div 365
           doy == z - (365 * year + year \div 4 - year \div 100)
           m == (5 * doy + 2) \div 153
<1>1. z \in Int /\ 0 <= z /\ z <= 146096
  BY SMT
<1>2. doy \in Int /\ 0 <= doy /\ doy <= 365
  <2> HIDE DEF z
  <2>1. year \in Int
    BY <1>1, SMT
  <2>2. 0 <= doy /\ doy <= 365
    BY <1>1, <2>1, DayOfYear, SMT
  <2> HIDE DEF year
  <2> QED BY <1>1, <2>1, <2>2, SMT
<1> HIDE DEF doy
<1>3. m \in Int
  BY <1>2, SMT
<1>4. /\ 0 <= m /\ m <= 11
      /\ 1 <= doy - (153 * m + 2) \div 5 + 1 /\ doy - (153 * m + 2) \div 5 + 1 <= 31
  BY <1>2, <1>3, DayOfMonth, SMT
<1>5. /\ MonthDay(day).month = IF m < 10 THEN m + 3 ELSE m - 9
      /\ MonthDay(day).day = doy - (153 * m + 2) \div 5 + 1
  BY SMT DEF MonthDay, doy
<1> HIDE DEF m
<1> QED BY <1>2, <1>3, <1>4, <1>5, SMT

LEMMA WeekdayRange ==
  ASSUME NEW day \in Int
  PROVE  weekday(day) \in 0..6
BY DEF weekday

LEMMA Remainder ==
  ASSUME NEW a \in Int, NEW n \in Nat \ {0}
  PROVE  a % n \in 0..(n - 1) /\ a \div n \in Int /\ a = n * (a \div n) + (a % n)
OBVIOUS

LEMMA DayLength == MinutesPerDay \in Nat \ {0} /\ MinutesPerDay >= 1
<1>1. \A m, h \in Nat \ {0} : m * h \in Nat \ {0}
  OBVIOUS
<1> QED BY <1>1, ClockAssumption DEF MinutesPerDay

LEMMA HourRange ==
  ASSUME NEW m \in Int
  PROVE  Hour(m) \in 0..(HoursPerDay - 1)
<1>1. m % MinutesPerDay \in 0..(MinutesPerDay - 1)
  BY DayLength, Remainder
<1>2. \A a \in Nat, k, h \in Nat \ {0} : a < k * h => a \div k \in 0..(h - 1)
  <2> SUFFICES ASSUME NEW a \in Nat, NEW k \in Nat \ {0}, NEW h \in Nat \ {0}, a < k * h
               PROVE  a \div k \in 0..(h - 1)
    OBVIOUS
  <2> DEFINE q == a \div k
  <2>1. q \in Nat /\ k * q <= a
    OBVIOUS
  <2> HIDE DEF q
  <2>2. ASSUME q >= h PROVE k * q >= k * h
    BY <2>1, <2>2
  <2>3. k * q \in Nat /\ k * h \in Nat
    BY <2>1
  <2>4. q < h
    BY <2>1, <2>2, <2>3
  <2>5. q \in 0..(h - 1)
    BY <2>1, <2>4
  <2> QED BY <2>5 DEF q
<1>3. m % MinutesPerDay \in Nat /\ m % MinutesPerDay < MinutesPerHour * HoursPerDay
  <2>1. MinutesPerDay = MinutesPerHour * HoursPerDay
    BY DEF MinutesPerDay
  <2> QED BY <1>1, <2>1, DayLength
<1>4. (m % MinutesPerDay) \div MinutesPerHour \in 0..(HoursPerDay - 1)
  <2>1. \A a \in Nat : a < MinutesPerHour * HoursPerDay =>
                        a \div MinutesPerHour \in 0..(HoursPerDay - 1)
    BY <1>2, ClockAssumption
  <2> QED BY <1>3, <2>1, Zenon
<1> QED BY <1>4 DEF Hour

LEMMA MinuteRange ==
  ASSUME NEW m \in Int
  PROVE  Minute(m) \in 0..(MinutesPerHour - 1)
BY Remainder, ClockAssumption DEF Minute

LEMMA DayType ==
  ASSUME NEW m \in Int
  PROVE  Day(m) \in Int
BY DayLength, Remainder DEF Day

-----------------------------------------------------------------------------
(* The parser: a field that is accepted holds the values it covers. *)

LEMMA ChunkType ==
  ASSUME NEW chunk \in Chunk
  PROVE  /\ chunk.is \in {"*", "bad", "*/", "value", "-"}
         /\ chunk.is \in {"*/", "value"} => chunk.n \in Nat
         /\ chunk.is = "-" => chunk.a \in Nat /\ chunk.b \in Nat
         /\ chunk.is = "*" <=> chunk = [is |-> "*"]
<1>1. CASE chunk \in [is : {"*", "bad"}]
  BY <1>1
<1>2. CASE chunk \in [is : {"*/", "value"}, n : Nat]
  BY <1>2
<1>3. CASE chunk \in [is : {"-"}, a : Nat, b : Nat]
  BY <1>3
<1> QED BY <1>1, <1>2, <1>3 DEF Chunk

(* v is a whole number of steps of n away from lo. *)
Reached(lo, hi, v, n) == \E k \in 0..hi : v = lo + k * n

(* The values that a step reaches are those a multiple of it away. *)
LEMMA StepReaches ==
  ASSUME NEW lo \in Nat, NEW hi \in Nat, NEW v \in lo..hi, NEW n \in Nat \ {0}
  PROVE  (v - lo) % n = 0 <=> Reached(lo, hi, v, n)
<1>1. ASSUME (v - lo) % n = 0 PROVE \E k \in 0..hi : v = lo + k * n
  <2> DEFINE q == (v - lo) \div n
  <2>1. v - lo \in Nat
    OBVIOUS
  <2>2. q \in Int /\ v - lo = n * q + ((v - lo) % n)
    BY <2>1, Remainder
  <2> HIDE DEF q
  <2>3. v - lo = n * q
    BY <1>1, <2>2
  <2>4. q <= -1 => n * q <= -n
    BY <2>2
  <2>5. q >= 0 => q <= n * q
    BY <2>2
  <2>6. q \in 0..hi
    BY <2>1, <2>2, <2>3, <2>4, <2>5
  <2>7. v = lo + q * n
    BY <2>2, <2>3
  <2> QED BY <2>6, <2>7
<1>2. ASSUME NEW k \in 0..hi, v = lo + k * n PROVE (v - lo) % n = 0
  <2> DEFINE q == (v - lo) \div n
             r == (v - lo) % n
  <2>1. q \in Int /\ r \in 0..(n - 1) /\ v - lo = n * q + r
    <3>1. v - lo \in Int
      OBVIOUS
    <3> QED BY <3>1, Remainder
  <2> HIDE DEF q, r
  <2>2. r = n * (k - q)
    <3>1. v - lo = n * k
      BY <1>2
    <3>2. n * (k - q) = n * k - n * q
      BY <2>1
    <3> QED BY <2>1, <3>1, <3>2
  <2>3. k - q >= 1 => n * (k - q) >= n
    BY <2>1
  <2>4. k - q <= -1 => n * (k - q) <= -n
    BY <2>1
  <2>5. k - q = 0
    BY <2>1, <2>2, <2>3, <2>4
  <2>6. r = 0
    BY <2>1, <2>2, <2>5
  <2> QED BY <2>6 DEF r
<1> QED BY <1>1, <1>2 DEF Reached

LEMMA ChunkCovers ==
  ASSUME NEW lo \in Nat, NEW hi \in Nat, NEW v \in lo..hi,
         NEW chunk \in Chunk, ~Malformed(chunk)
  PROVE  v \in Pushed(chunk, lo, hi) <=>
           \/ chunk.is = "*"
           \/ chunk.is = "*/" /\ \E k \in 0..hi : v = lo + k * chunk.n
           \/ chunk.is = "-" /\ chunk.a <= v /\ v <= chunk.b
           \/ chunk.is = "value" /\ chunk.n = v
<1>1. CASE chunk.is = "*"
  BY <1>1 DEF Pushed
<1>2. CASE chunk.is = "*/"
  <2>1. chunk.n \in Nat \ {0}
    BY <1>2, ChunkType DEF Malformed
  <2>2. Pushed(chunk, lo, hi) = {w \in lo..hi : (w - lo) % chunk.n = 0}
    BY <1>2 DEF Pushed
  <2>3. v \in Pushed(chunk, lo, hi) <=> (v - lo) % chunk.n = 0
    BY <2>2
  <2>4. (v - lo) % chunk.n = 0 <=> Reached(lo, hi, v, chunk.n)
    BY <2>1, StepReaches
  <2> QED BY <1>2, <2>3, <2>4 DEF Reached
<1>3. CASE chunk.is = "-"
  <2>1. chunk.a \in Nat /\ chunk.b \in Nat
    BY <1>3, ChunkType
  <2>2. Pushed(chunk, lo, hi) = (chunk.a)..(chunk.b) \cap lo..hi
    BY <1>3 DEF Pushed
  <2> QED BY <1>3, <2>1, <2>2
<1>4. CASE chunk.is = "value"
  BY <1>4, ChunkType DEF Pushed
<1> QED BY <1>1, <1>2, <1>3, <1>4, ChunkType DEF Malformed

LEMMA FieldCovers ==
  ASSUME NEW lo \in Nat, NEW hi \in Nat, NEW v \in lo..hi,
         NEW field \in Seq(Chunk), parse_field(field, lo, hi) # {}
  PROVE  v \in parse_field(field, lo, hi) <=> Covers(field, v, lo, hi)
<1>1. \A i \in DOMAIN field : field[i] \in Chunk /\ ~Malformed(field[i])
  BY DEF parse_field
<1>2. parse_field(field, lo, hi) = UNION {Pushed(field[i], lo, hi) : i \in DOMAIN field}
  BY DEF parse_field
<1>3. v \in parse_field(field, lo, hi) <=> \E i \in DOMAIN field : v \in Pushed(field[i], lo, hi)
  BY <1>2
<1>4. ASSUME NEW i \in DOMAIN field
      PROVE  v \in Pushed(field[i], lo, hi) <=>
               \/ field[i].is = "*"
               \/ field[i].is = "*/" /\ \E k \in 0..hi : v = lo + k * field[i].n
               \/ field[i].is = "-" /\ field[i].a <= v /\ v <= field[i].b
               \/ field[i].is = "value" /\ field[i].n = v
  BY <1>1, ChunkCovers
<1> HIDE DEF Pushed
<1> QED BY <1>3, <1>4, Zenon DEF Covers

(* A field that is not restricted has a star, and so every value. *)
LEMMA StarCovers ==
  ASSUME NEW lo \in Nat, NEW hi \in Nat, NEW v \in lo..hi,
         NEW field \in Seq(Chunk), parse_field(field, lo, hi) # {}
  PROVE  /\ is_unrestricted(field) <=> \A i \in DOMAIN field : field[i] = [is |-> "*"]
         /\ is_unrestricted(field) => Covers(field, v, lo, hi)
<1>1. \A i \in DOMAIN field : field[i] \in Chunk
  OBVIOUS
<1>2. is_unrestricted(field) <=> \A i \in DOMAIN field : field[i] = [is |-> "*"]
  BY <1>1, ChunkType, Zenon DEF is_unrestricted
<1>3. ASSUME is_unrestricted(field) PROVE Covers(field, v, lo, hi)
  <2>1. DOMAIN field # {}
    <3>1. ASSUME DOMAIN field = {} PROVE parse_field(field, lo, hi) = {}
      BY <3>1 DEF parse_field
    <3> QED BY <3>1
  <2>2. PICK i \in DOMAIN field : field[i].is = "*"
    BY <1>3, <2>1 DEF is_unrestricted
  <2> QED BY <2>2, Zenon DEF Covers
<1> QED BY <1>2, <1>3

-----------------------------------------------------------------------------
(* The matcher says of an instant what the documentation says. *)

LEMMA MatchesOccurs ==
  ASSUME expr \in Seq(Seq(Chunk)), ~Refused(expr), NEW m \in Int
  PROVE  matches(parse(expr), m) <=> Occurs(m)
<1> DEFINE mi == Minute(m)
           ho == Hour(m)
           mo == MonthDay(Day(m)).month
           da == MonthDay(Day(m)).day
           wd == weekday(Day(m))
           P == parse(expr)
<1>1. /\ expr[1] \in Seq(Chunk) /\ expr[2] \in Seq(Chunk) /\ expr[3] \in Seq(Chunk)
      /\ expr[4] \in Seq(Chunk) /\ expr[5] \in Seq(Chunk)
  BY DEF Refused
<1>2. /\ P.minutes = parse_field(expr[1], 0, MinutesPerHour - 1)
      /\ P.hours = parse_field(expr[2], 0, HoursPerDay - 1)
      /\ P.doms = parse_field(expr[3], 1, 31)
      /\ P.months = parse_field(expr[4], 1, 12)
      /\ P.dows = parse_field(expr[5], 0, 6)
      /\ P.dom_unrestricted = is_unrestricted(expr[3])
      /\ P.dow_unrestricted = is_unrestricted(expr[5])
  BY DEF parse
<1>3. P.minutes # {} /\ P.hours # {} /\ P.doms # {} /\ P.months # {} /\ P.dows # {}
  BY DEF Refused
<1>4. /\ mi \in 0..(MinutesPerHour - 1) /\ ho \in 0..(HoursPerDay - 1)
      /\ mo \in 1..12 /\ da \in 1..31 /\ wd \in 0..6
  BY MinuteRange, HourRange, DayType, MonthDayRange, WeekdayRange
<1>5. MinutesPerHour - 1 \in Nat /\ HoursPerDay - 1 \in Nat
  BY ClockAssumption
<1> HIDE DEF mi, ho, mo, da, wd, P
<1>6. /\ mi \in P.minutes <=> Covers(expr[1], mi, 0, MinutesPerHour - 1)
      /\ ho \in P.hours <=> Covers(expr[2], ho, 0, HoursPerDay - 1)
      /\ da \in P.doms <=> Covers(expr[3], da, 1, 31)
      /\ mo \in P.months <=> Covers(expr[4], mo, 1, 12)
      /\ wd \in P.dows <=> Covers(expr[5], wd, 0, 6)
  <2>1. mi \in P.minutes <=> Covers(expr[1], mi, 0, MinutesPerHour - 1)
    <3>1. /\ mi \in 0..(MinutesPerHour - 1) /\ expr[1] \in Seq(Chunk) /\ P.minutes # {}
          /\ P.minutes = parse_field(expr[1], 0, MinutesPerHour - 1)
      BY <1>1, <1>2, <1>3, <1>4
    <3> QED BY <3>1, <1>5, FieldCovers
  <2>2. ho \in P.hours <=> Covers(expr[2], ho, 0, HoursPerDay - 1)
    <3>1. /\ ho \in 0..(HoursPerDay - 1) /\ expr[2] \in Seq(Chunk) /\ P.hours # {}
          /\ P.hours = parse_field(expr[2], 0, HoursPerDay - 1)
      BY <1>1, <1>2, <1>3, <1>4
    <3> QED BY <3>1, <1>5, FieldCovers
  <2>3. da \in P.doms <=> Covers(expr[3], da, 1, 31)
    <3> DEFINE last == 31
    <3>1. /\ last \in Nat /\ da \in 1..last /\ expr[3] \in Seq(Chunk)
          /\ P.doms = parse_field(expr[3], 1, last) /\ P.doms # {}
      BY <1>1, <1>2, <1>3, <1>4
    <3> HIDE DEF last
    <3>2. da \in P.doms <=> Covers(expr[3], da, 1, last)
      BY <3>1, FieldCovers
    <3> QED BY <3>2 DEF last
  <2>4. mo \in P.months <=> Covers(expr[4], mo, 1, 12)
    <3>1. mo \in 1..12 /\ expr[4] \in Seq(Chunk) /\ P.months = parse_field(expr[4], 1, 12)
          /\ P.months # {}
      BY <1>1, <1>2, <1>3, <1>4
    <3> QED BY <3>1, <1>5, FieldCovers
  <2>5. wd \in P.dows <=> Covers(expr[5], wd, 0, 6)
    <3>1. wd \in 0..6 /\ expr[5] \in Seq(Chunk) /\ P.dows = parse_field(expr[5], 0, 6)
          /\ P.dows # {}
      BY <1>1, <1>2, <1>3, <1>4
    <3> QED BY <3>1, <1>5, FieldCovers
  <2> QED BY <2>1, <2>2, <2>3, <2>4, <2>5
<1>7. /\ P.dom_unrestricted <=> \A i \in DOMAIN expr[3] : expr[3][i] = [is |-> "*"]
      /\ P.dom_unrestricted => Covers(expr[3], da, 1, 31)
  <2>1. da \in 1..31 /\ expr[3] \in Seq(Chunk) /\ parse_field(expr[3], 1, 31) # {}
    BY <1>1, <1>2, <1>3, <1>4
  <2>2. P.dom_unrestricted = is_unrestricted(expr[3])
    BY <1>2
  <2> QED BY <2>1, <2>2, StarCovers
<1>8. /\ P.dow_unrestricted <=> \A i \in DOMAIN expr[5] : expr[5][i] = [is |-> "*"]
      /\ P.dow_unrestricted => Covers(expr[5], wd, 0, 6)
  <2>1. wd \in 0..6 /\ expr[5] \in Seq(Chunk) /\ parse_field(expr[5], 0, 6) # {}
    BY <1>1, <1>2, <1>3, <1>4
  <2>2. P.dow_unrestricted = is_unrestricted(expr[5])
    BY <1>2
  <2> QED BY <2>1, <2>2, StarCovers
<1>9. matches(P, m) <=>
         /\ mi \in P.minutes /\ ho \in P.hours /\ mo \in P.months
         /\ CASE P.dom_unrestricted /\ P.dow_unrestricted -> TRUE
              [] P.dom_unrestricted /\ ~P.dow_unrestricted -> wd \in P.dows
              [] ~P.dom_unrestricted /\ P.dow_unrestricted -> da \in P.doms
              [] OTHER -> da \in P.doms \/ wd \in P.dows
  BY Zenon DEF matches, mi, ho, mo, da, wd
<1>10. Occurs(m) <=>
         /\ Covers(expr[1], mi, 0, MinutesPerHour - 1) /\ Covers(expr[2], ho, 0, HoursPerDay - 1)
         /\ Covers(expr[4], mo, 1, 12)
         /\ IF \/ \A i \in DOMAIN expr[3] : expr[3][i] = [is |-> "*"]
               \/ \A i \in DOMAIN expr[5] : expr[5][i] = [is |-> "*"]
            THEN Covers(expr[3], da, 1, 31) /\ Covers(expr[5], wd, 0, 6)
            ELSE Covers(expr[3], da, 1, 31) \/ Covers(expr[5], wd, 0, 6)
  BY Zenon DEF Occurs, OccursIf, Star, mi, ho, mo, da, wd
<1>11. P.dom_unrestricted \in BOOLEAN /\ P.dow_unrestricted \in BOOLEAN
  BY <1>2 DEF is_unrestricted
<1>12. matches(P, m) <=> Occurs(m)
  BY <1>6, <1>7, <1>8, <1>9, <1>10, <1>11
<1> QED BY <1>12 DEF P

-----------------------------------------------------------------------------
(* The walk. *)

(* The minutes the walk has left behind were no occurrences; it has stopped  *)
(* at one, or at the limit.                                                  *)
WalkInv ==
  /\ expr \in Exprs /\ start \in Int
  /\ result \in {"parsing", "walking", "ok", "refused", "none"}
  /\ result \in {"walking", "ok", "none"} =>
       /\ ~Refused(expr) /\ spec = parse(expr)
       /\ t \in Int /\ First <= t
       /\ \A m \in First..(t - 1) : ~matches(spec, m)
  /\ result = "ok" => matches(spec, t)
  /\ result = "none" => 2 * t >= Limit

LEMMA FirstIsNext ==
  ASSUME start \in Int
  PROVE  First \in Int /\ First = start \div 2 + 1 /\ 2 * First > start
BY DEF First

LEMMA InitWalk == ASSUME Init PROVE WalkInv
<1>1. start \in Int
  BY CallsAssumption DEF Init
<1> QED BY <1>1 DEF Init, WalkInv

LEMMA ParseStep == ASSUME WalkInv, Parse PROVE WalkInv'
<1>1. expr' = expr /\ start' = start /\ expr \in Exprs /\ start \in Int
  BY DEF Parse, WalkInv
<1>2. CASE Refused(expr)
  BY <1>1, <1>2 DEF Parse, WalkInv
<1>3. CASE ~Refused(expr)
  <2>1. result' = "walking" /\ spec' = parse(expr) /\ t' = First /\ First \in Int
    BY <1>1, <1>3, FirstIsNext DEF Parse
  <2>2. First' = First /\ ~Refused(expr)' /\ spec' = parse(expr)'
    BY <1>1, <1>3, <2>1 DEF First
  <2>3. First'..(t' - 1) = {}
    BY <2>1, <2>2
  <2> QED BY <1>1, <2>1, <2>2, <2>3 DEF WalkInv
<1> QED BY <1>2, <1>3

LEMMA WalkStep == ASSUME WalkInv, Walk PROVE WalkInv'
<1>1. /\ expr' = expr /\ start' = start /\ spec' = spec
      /\ expr \in Exprs /\ start \in Int /\ result = "walking"
      /\ ~Refused(expr) /\ spec = parse(expr) /\ t \in Int /\ First <= t
      /\ \A m \in First..(t - 1) : ~matches(spec, m)
  BY DEF Walk, WalkInv
<1>2. /\ First' = First /\ Limit' = Limit /\ ~Refused(expr)' /\ spec' = parse(expr)'
      /\ \A m \in Int : matches(spec, m)' <=> matches(spec, m)
      /\ First \in Int /\ Limit \in Int
  BY <1>1, FirstIsNext, DayLength DEF First, Limit
<1>3. CASE 2 * t >= Limit
  <2>1. result' = "none" /\ t' = t
    BY <1>1, <1>2, <1>3 DEF Walk
  <2> QED BY <1>1, <1>2, <1>3, <2>1 DEF WalkInv
<1>4. CASE ~(2 * t >= Limit) /\ matches(spec, t)
  <2>1. result' = "ok" /\ t' = t
    BY <1>1, <1>2, <1>4 DEF Walk
  <2> QED BY <1>1, <1>2, <1>4, <2>1 DEF WalkInv
<1>5. CASE ~(2 * t >= Limit) /\ ~matches(spec, t)
  <2>1. result' = "walking" /\ t' = t + 1
    BY <1>1, <1>2, <1>5 DEF Walk
  <2>2. \A m \in First..(t' - 1) : ~matches(spec, m)
    BY <1>1, <1>2, <1>5, <2>1
  <2> QED BY <1>1, <1>2, <2>1, <2>2 DEF WalkInv
<1> QED BY <1>3, <1>4, <1>5

LEMMA Invariance == Spec => []WalkInv
<1>1. Init => WalkInv
  BY InitWalk
<1>2. WalkInv /\ [Next]_vars => WalkInv'
  <2>1. WalkInv /\ UNCHANGED vars => WalkInv'
    BY DEF WalkInv, vars, First, Limit, matches
  <2> QED BY <2>1, ParseStep, WalkStep DEF Next
<1> QED BY <1>1, <1>2, PTL DEF Spec

LEMMA WalkOccurs ==
  ASSUME WalkInv, result \in {"walking", "ok", "none"}, NEW m \in Int
  PROVE  matches(spec, m) <=> Occurs(m)
BY MatchesOccurs, CallsAssumption DEF WalkInv

-----------------------------------------------------------------------------

(* The time next_after returns is an occurrence of the expression, it is     *)
(* after the start, and no earlier one is (cron.rs 166-200), of every         *)
(* expression on whose day fields the two comments agree.                     *)
THEOREM FirstOccurrence == Spec => []NextIsTheFirst
<1>1. WalkInv => NextIsTheFirst
  <2> SUFFICES ASSUME WalkInv, result = "ok"
               PROVE  /\ 2 * t > start /\ Occurs(t)
                      /\ \A m \in (start \div 2 + 1)..(t - 1) : ~Occurs(m)
    BY DEF NextIsTheFirst
  <2>1. /\ start \in Int /\ t \in Int /\ First <= t /\ matches(spec, t)
        /\ \A m \in First..(t - 1) : ~matches(spec, m)
    BY DEF WalkInv
  <2>2. First \in Int /\ First = start \div 2 + 1 /\ 2 * First > start
    BY <2>1, FirstIsNext
  <2>3. \A m \in First..(t - 1) : ~Occurs(m)
    BY <2>1, <2>2, WalkOccurs
  <2>4. Occurs(t)
    BY <2>1, WalkOccurs
  <2>5. 2 * t > start
    BY <2>1, <2>2
  <2> QED BY <2>2, <2>3, <2>4, <2>5
<1> QED BY <1>1, Invariance, PTL

(* An expression that next_after gives up has no occurrence in the 1461      *)
(* days after the start, so that a leap day is never missed.                 *)
THEOREM GivenUp == Spec => []GivenUpIsFar
<1>1. WalkInv => GivenUpIsFar
  <2> SUFFICES ASSUME WalkInv, result = "none",
                      NEW m \in (start \div 2 + 1)..(start \div 2 + 1461 * MinutesPerDay)
               PROVE  ~Occurs(m)
    BY DEF GivenUpIsFar
  <2>1. /\ start \in Int /\ t \in Int /\ 2 * t >= Limit
        /\ \A i \in First..(t - 1) : ~matches(spec, i)
    BY DEF WalkInv
  <2>2. First \in Int /\ First = start \div 2 + 1
    BY <2>1, FirstIsNext
  <2>3. MinutesPerDay \in Nat /\ MinutesPerDay >= 1
    BY DayLength
  <2>4. m \in Int /\ First <= m /\ m <= start \div 2 + 1461 * MinutesPerDay
    BY <2>1, <2>2, <2>3
  <2>5. m <= t - 1
    BY <2>1, <2>3, <2>4 DEF Limit
  <2>6. ~matches(spec, m)
    BY <2>1, <2>2, <2>4, <2>5
  <2> QED BY <2>4, <2>6, WalkOccurs
<1> QED BY <1>1, Invariance, PTL
=============================================================================
