------------------------- MODULE NotificationsProofs -------------------------
(***************************************************************************)
(* Proofs about Notifications, for any events, chats, commands, consumers, *)
(* clock and bounds: what the rows say of a notification agrees, and a chat*)
(* is notified once, under the policy of the moment.                       *)
(***************************************************************************)
EXTENDS Notifications, TLAPS

\* e has left evidence, or a decision.
Traced(e) ==
  \/ evidence[e] > 0
  \/ carries[e] # Unreadable /\ \E c \in Chat : decision[<<carries[e], c>>] # "none"

\* An envelope in the inbox could be read and left a trace.
TracesKept == \A e \in inbox : carries[e] # Unreadable /\ Traced(e)

\* A consumer decides what it could read, and answers for what it has committed.
AnswersEarned ==
  \A d \in Consumer :
    /\ pc[d] = "deciding" => carries[held[d]] # Unreadable
    /\ pc[d] = "ack"      => held[d] \in inbox
    /\ pc[d] = "term"     => evidence[held[d]] > 0

\* A job that waits for a retry has an attempt left, and a new one has them all.
ClaimsCounted ==
  \A x \in Slot : /\ job[x] \in {"absent", "ready"} => attempts[x] = 0
                  /\ job[x] = "retry_wait" => attempts[x] < MaxAttempts

\* What a command has read is the policy, as long as the version has not moved.
ReadsVersioned ==
  \A s \in Setting : spc[s] = "write" =>
    LET c == asks[s].chat IN
    /\ read[s].version <= version[c]
    /\ read[s].version = version[c] => read[s].policy = policy[c]

IInv == /\ RecordsAgree
        /\ TracesKept
        /\ AnswersEarned
        /\ ClaimsCounted
        /\ ReadsVersioned

\* The invariant by what it is about: settings, consumers, jobs and traces.
SettingsFit ==
  /\ linked \in BOOLEAN /\ bound \subseteq Chat
  /\ policy \in [Chat -> Policy] /\ version \in [Chat -> Nat]
  /\ asks \in Requests
  /\ spc \in [Setting -> {"waiting", "write", "done"}]
  /\ read \in [Setting -> [policy : Policy, version : Nat]]
  /\ ReadsVersioned

ConsumersFit ==
  /\ carries \in Loads
  /\ bus \in [Event -> {"pending", "acked", "termed"}]
  /\ inbox \subseteq Event /\ evidence \in [Event -> Nat]
  /\ pc \in [Consumer -> {"idle", "received", "deciding", "ack", "term"}]
  /\ held \in [Consumer -> Event]
  /\ view \in [Consumer -> [at : Nat, chats : SUBSET Chat, overrides : [Chat -> Override]]]

JobsFit ==
  /\ decision \in [Slot -> Outcome \cup {"none"}]
  /\ job \in [Slot -> JobState]
  /\ due \in [Slot -> Nat] /\ attempts \in [Slot -> 0 .. MaxAttempts]
  /\ DecisionTracksJob /\ ClaimsCounted

Traces == AnsweredLeftATrace /\ TracesKept /\ AnswersEarned

ClockFits == now \in Nat /\ faults \in 0 .. MaxFaults

-----------------------------------------------------------------------------
(* The day *)

LEMMA DayFits == Day \in Nat \ {0}
BY NotificationsAssumption

LEMMA DayOf ==
  \A t \in Nat : /\ t % Day \in 0 .. (Day - 1)
                 /\ \E q \in Nat : t = Day * q + (t % Day)
<1>1. \A t \in Nat : /\ t = Day * (t \div Day) + (t % Day)
                     /\ t \div Day \in Nat /\ t % Day \in 0 .. (Day - 1)
  BY DayFits
<1> QED
  BY <1>1

LEMMA WithinDay ==
  \A q \in Nat, s \in 0 .. (Day - 1) : (Day * q + s) % Day = s
BY DayFits

LEMMA NextDay ==
  \A q \in Nat, s \in Day .. (2 * Day - 1) : (Day * q + s) % Day = s - Day
<1> SUFFICES ASSUME NEW q \in Nat, NEW s \in Day .. (2 * Day - 1)
             PROVE  (Day * q + s) % Day = s - Day
  OBVIOUS
<1>1. Day * q + s = Day * (q + 1) + (s - Day)
  BY DayFits
<1>2. s - Day \in 0 .. (Day - 1)
  BY DayFits
<1> QED
  BY <1>1, <1>2, WithinDay

\* Up to a day later, the clock has gone round once at most.
LEMMA Later ==
  ASSUME NEW t \in Nat, NEW j \in 0 .. Day
  PROVE  (t + j) % Day = IF (t % Day) + j < Day THEN (t % Day) + j ELSE (t % Day) + j - Day
<1> DEFINE r == t % Day
<1>1. Day \in Nat \ {0} /\ r \in 0 .. (Day - 1) /\ j \in Nat
  BY DayOf, DayFits
<1>2. PICK q \in Nat : t = Day * q + r
  BY DayOf
<1> HIDE DEF r
<1>3. t + j = Day * q + (r + j)
  BY <1>1, <1>2
<1>4. ASSUME r + j < Day PROVE (t + j) % Day = r + j
  <2>1. r + j \in 0 .. (Day - 1)
    BY <1>1, <1>4
  <2> QED
    BY <1>3, <2>1, WithinDay
<1>5. ASSUME ~(r + j < Day) PROVE (t + j) % Day = r + j - Day
  <2> DEFINE s == r + j
  <2>1. s \in Day .. (2 * Day - 1)
    BY <1>1, <1>5
  <2>2. t + j = Day * q + s
    BY <1>3
  <2> HIDE DEF s
  <2>3. (Day * q + s) % Day = s - Day
    BY <2>1, NextDay
  <2>4. (t + j) % Day = s - Day
    BY <2>2, <2>3, Zenon
  <2> QED
    BY <1>1, <2>4 DEF s
<1>6. (t + j) % Day = IF r + j < Day THEN r + j ELSE r + j - Day
  BY <1>4, <1>5
<1> QED
  BY <1>6 DEF r

\* A window that something can be in.
Real(w) == w \in Window /\ w[1] # w[2]

LEMMA Edges ==
  ASSUME NEW w, Real(w)
  PROVE  /\ w[1] \in 0 .. (Day - 1) /\ w[2] \in 0 .. (Day - 1) /\ w[1] # w[2]
         /\ Day \in Nat \ {0}
BY DayFits DEF Real, Window

\* The comparison of the two ends tells what going round the arc tells.
LEMMA ArcIsQuiet ==
  ASSUME NEW w, Real(w), NEW t \in Nat
  PROVE  OnArc(w, t) <=> InQuiet(w, t % Day)
<1> DEFINE a == w[1]  b == w[2]  r == t % Day
           length == (b + Day - a) % Day
<1>1. /\ a \in 0 .. (Day - 1) /\ b \in 0 .. (Day - 1) /\ a # b /\ Day \in Nat \ {0}
      /\ r \in 0 .. (Day - 1)
  BY Edges, DayOf
<1>2. \A s \in 0 .. (Day - 1) : s % Day = s
  BY <1>1
<1>3. \A s \in 0 .. (Day - 1), j \in 0 .. Day :
        (s + j) % Day = IF s + j < Day THEN s + j ELSE s + j - Day
  <2> SUFFICES ASSUME NEW s \in 0 .. (Day - 1), NEW j \in 0 .. Day
               PROVE  (s + j) % Day = IF s + j < Day THEN s + j ELSE s + j - Day
    OBVIOUS
  <2>1. s \in Nat /\ s % Day = s
    BY <1>1, <1>2
  <2> QED
    BY <2>1, Later
<1>4. length = IF a < b THEN b - a ELSE b + Day - a
  <2>1. CASE a < b
    <3>1. b + Day - a = (b - a) + Day /\ b - a \in 0 .. (Day - 1) /\ Day \in 0 .. Day
      BY <1>1, <2>1
    <3> QED
      BY <1>1, <1>3, <2>1, <3>1
  <2>2. CASE ~(a < b)
    <3>1. b + Day - a \in 0 .. (Day - 1)
      BY <1>1, <2>2
    <3> QED
      BY <1>2, <2>2, <3>1
  <2> QED
    BY <2>1, <2>2
<1> HIDE DEF a, b, r, length
<1>5. length \in 1 .. (Day - 1)
  BY <1>1, <1>4
<1>6. ASSUME NEW k \in 0 .. (length - 1), (a + k) % Day = r
      PROVE  IF a < b THEN a <= r /\ r < b ELSE a <= r \/ r < b
  <2>1. r = IF a + k < Day THEN a + k ELSE a + k - Day
    <3>1. k \in 0 .. Day
      BY <1>1, <1>5, <1>6
    <3> QED
      BY <1>1, <1>3, <1>6, <3>1
  <2> QED
    BY <1>1, <1>4, <1>5, <2>1
<1>7. ASSUME IF a < b THEN a <= r /\ r < b ELSE a <= r \/ r < b
      PROVE  \E k \in 0 .. (length - 1) : (a + k) % Day = r
  <2> DEFINE k == IF a <= r THEN r - a ELSE r + Day - a
  <2>1. k \in 0 .. (length - 1) /\ k \in 0 .. Day
    BY <1>1, <1>4, <1>7
  <2>2. r = IF a + k < Day THEN a + k ELSE a + k - Day
    BY <1>1, <1>7
  <2> HIDE DEF k
  <2>3. (a + k) % Day = r
    BY <1>1, <1>3, <2>1, <2>2
  <2> QED
    BY <2>1, <2>3
<1>8. OnArc(w, t) <=> \E k \in 0 .. (length - 1) : (a + k) % Day = r
  BY DEF OnArc, a, b, r, length
<1>9. InQuiet(w, t % Day) <=> IF a < b THEN a <= r /\ r < b ELSE a <= r \/ r < b
  BY DEF InQuiet, a, b, r
<1> QED
  BY <1>6, <1>7, <1>8, <1>9

\* From an instant that is quiet, UntilEnd is the first one that is not.
LEMMA QuietEnds ==
  ASSUME NEW w, Real(w), NEW t \in Nat, InQuiet(w, t % Day)
  PROVE  /\ UntilEnd(w, t % Day) \in Nat
         /\ ~InQuiet(w, (t + UntilEnd(w, t % Day)) % Day)
         /\ \A v \in t .. (t + UntilEnd(w, t % Day) - 1) : InQuiet(w, v % Day)
<1> DEFINE a == w[1]  b == w[2]  r == t % Day  u == UntilEnd(w, r)
<1>1. /\ a \in 0 .. (Day - 1) /\ b \in 0 .. (Day - 1) /\ a # b /\ Day \in Nat \ {0}
      /\ r \in 0 .. (Day - 1)
  BY Edges, DayOf
<1>2. \A s : InQuiet(w, s) <=> IF a < b THEN a <= s /\ s < b ELSE a <= s \/ s < b
  BY DEF InQuiet
<1>3. u = IF r < b THEN b - r ELSE Day - r + b
  BY DEF UntilEnd
<1>4. \A j \in 0 .. Day : (t + j) % Day = IF r + j < Day THEN r + j ELSE r + j - Day
  BY Later
<1>5. InQuiet(w, r)
  OBVIOUS
<1> HIDE DEF a, b, r, u
<1>6. u \in 0 .. Day
  BY <1>1, <1>2, <1>3, <1>5
<1>7. ~InQuiet(w, (t + u) % Day)
  <2>1. (t + u) % Day = b
    BY <1>1, <1>3, <1>4, <1>6
  <2> QED
    BY <1>1, <1>2, <2>1
<1>8. ASSUME NEW v \in t .. (t + u - 1) PROVE InQuiet(w, v % Day)
  <2> DEFINE j == v - t
  <2>1. j \in 0 .. Day /\ j < u /\ v = t + j
    BY <1>1, <1>6, <1>8
  <2> HIDE DEF j
  <2>2. v % Day = IF r + j < Day THEN r + j ELSE r + j - Day
    BY <1>4, <2>1
  <2> QED
    BY <1>1, <1>2, <1>3, <1>5, <2>1, <2>2
<1> QED
  BY <1>6, <1>7, <1>8 DEF r, u

-----------------------------------------------------------------------------
(* Settings *)

LEMMA Asked ==
  ASSUME SettingsFit, NEW s \in Setting
  PROVE  Command(asks[s]) /\ asks[s].chat \in Chat
BY NotificationsAssumption DEF SettingsFit, Command

\* What a command makes of a policy: one field.
Named(p, a) == IF a.field \in Class THEN [p EXCEPT !.classes[a.field] = a.value]
                                    ELSE [p EXCEPT ![a.field] = a.value]

LEMMA NamedFits ==
  ASSUME NEW p \in Policy, NEW a, Command(a)
  PROVE  Named(p, a) \in Policy
<1>1. CASE a.field \in Class
  <2>1. p.classes \in [Class -> Override] /\ a.value \in Override
    BY <1>1, NotificationsAssumption DEF Policy, Command
  <2>2. [p.classes EXCEPT ![a.field] = a.value] \in [Class -> Override]
    BY <2>1
  <2>3. Named(p, a) = [p EXCEPT !.classes = [p.classes EXCEPT ![a.field] = a.value]]
    BY <1>1 DEF Named, Policy
  <2> QED
    BY <2>2, <2>3 DEF Policy
<1>2. CASE a.field = "on"
  <2>1. Named(p, a) = [p EXCEPT !.on = a.value] /\ a.value \in BOOLEAN
    BY <1>2, NotificationsAssumption DEF Named, Command
  <2> QED
    BY <2>1 DEF Policy
<1>3. CASE a.field = "bypass"
  <2>1. Named(p, a) = [p EXCEPT !.bypass = a.value] /\ a.value \in BOOLEAN
    BY <1>3, NotificationsAssumption DEF Named, Command
  <2> QED
    BY <2>1 DEF Policy
<1>4. CASE a.field = "quiet"
  <2>1. Named(p, a) = [p EXCEPT !.quiet = a.value] /\ a.value \in Quiet
    BY <1>4, NotificationsAssumption DEF Named, Command
  <2> QED
    BY <2>1 DEF Policy
<1> QED
  BY <1>1, <1>2, <1>3, <1>4 DEF Command

\* With the version unmoved, every field is written as it is but the one asked for.
LEMMA EditedIsNamed ==
  ASSUME SettingsFit, NEW s \in Setting, spc[s] = "write", Unmoved(s)
  PROVE  Edited(s) = Named(policy[asks[s].chat], asks[s])
<1> DEFINE c == asks[s].chat
<1>1. c \in Chat /\ policy[c] \in Policy
  BY Asked DEF SettingsFit
<1>2. read[s].policy = policy[c]
  BY DEF SettingsFit, ReadsVersioned, Unmoved
<1>3. [policy[c] EXCEPT !.classes = policy[c].classes] = policy[c]
  BY <1>1 DEF Policy
<1> QED
  BY <1>2, <1>3 DEF Edited, Named

LEMMA SettingsStay == SettingsFit /\ UNCHANGED settingVars => SettingsFit'
BY DEF SettingsFit, ReadsVersioned, settingVars

LEMMA SettingSteps ==
  ASSUME SettingsFit, NEW s \in Setting,
         ReadSetting(s) \/ WriteSetting(s) \/ SettingFails(s)
  PROVE  SettingsFit'
<1> DEFINE c == asks[s].chat
<1>1. /\ linked \in BOOLEAN /\ bound \subseteq Chat /\ policy \in [Chat -> Policy]
      /\ version \in [Chat -> Nat] /\ asks \in Requests
      /\ spc \in [Setting -> {"waiting", "write", "done"}]
      /\ read \in [Setting -> [policy : Policy, version : Nat]]
  BY DEF SettingsFit
<1>2. c \in Chat /\ \A z \in Setting : asks[z].chat \in Chat
  BY Asked
<1>3. DefaultPolicy \in Policy /\ NoRead \in [policy : Policy, version : Nat]
  <2>1. [mode |-> "inherit", window |-> NoWindow] \in Quiet
    BY DEF Quiet
  <2>2. DefaultPolicy \in Policy
    BY <2>1 DEF DefaultPolicy, Policy, Override
  <2> QED
    BY <2>2 DEF NoRead
<1>4. CASE ReadSetting(s)
  <2>1. /\ UNCHANGED <<linked, bound, policy, version, asks>>
        /\ read' = [read EXCEPT ![s] = [policy |-> policy[c], version |-> version[c]]]
        /\ spc' = [spc EXCEPT ![s] = "write"]
    BY <1>4 DEF ReadSetting, To
  <2>2. [policy |-> policy[c], version |-> version[c]] \in [policy : Policy, version : Nat]
    BY <1>1, <1>2
  <2>3. read' \in [Setting -> [policy : Policy, version : Nat]]
    BY <1>1, <2>1, <2>2
  <2>4. ReadsVersioned'
    <3> SUFFICES ASSUME NEW z \in Setting, spc'[z] = "write"
                 PROVE  /\ read'[z].version <= version[asks[z].chat]
                        /\ read'[z].version = version[asks[z].chat]
                             => read'[z].policy = policy[asks[z].chat]
      BY <2>1 DEF ReadsVersioned
    <3>1. CASE z = s
      <4>1. read'[z] = [policy |-> policy[c], version |-> version[c]] /\ version[c] \in Nat
        BY <1>1, <1>2, <2>1, <3>1
      <4> QED
        BY <3>1, <4>1
    <3>2. CASE z # s
      <4>1. read'[z] = read[z] /\ spc[z] = "write"
        BY <1>1, <2>1, <3>2
      <4> QED
        BY <4>1 DEF SettingsFit, ReadsVersioned
    <3> QED
      BY <3>1, <3>2
  <2>5. spc' \in [Setting -> {"waiting", "write", "done"}]
    BY <1>1, <2>1
  <2> QED
    BY <1>1, <2>1, <2>3, <2>4, <2>5 DEF SettingsFit
<1>5. CASE WriteSetting(s) \/ SettingFails(s)
  <2>1. /\ UNCHANGED <<linked, bound, asks>> /\ spc[s] = "write"
        /\ read' = [read EXCEPT ![s] = NoRead]
        /\ spc' = [spc EXCEPT ![s] = "done"] \/ spc' = [spc EXCEPT ![s] = "waiting"]
        /\ \/ UNCHANGED <<policy, version>>
           \/ /\ Unmoved(s) /\ policy' = [policy EXCEPT ![c] = Edited(s)]
              /\ version' = [version EXCEPT ![c] = @ + 1]
    <3>1. CASE WriteSetting(s)
      BY <3>1 DEF WriteSetting, To
    <3>2. CASE SettingFails(s)
      BY <3>2 DEF SettingFails, To
    <3> QED
      BY <1>5, <3>1, <3>2
  <2>2. Unmoved(s) => Edited(s) \in Policy
    BY <1>1, <1>2, <2>1, EditedIsNamed, NamedFits, Asked
  <2>3. policy' \in [Chat -> Policy] /\ version' \in [Chat -> Nat]
    BY <1>1, <1>2, <2>1, <2>2
  <2>4. /\ spc' \in [Setting -> {"waiting", "write", "done"}] /\ spc'[s] # "write"
        /\ \A z \in Setting : z # s => spc'[z] = spc[z] /\ read'[z] = read[z]
        /\ read' \in [Setting -> [policy : Policy, version : Nat]]
    BY <1>1, <1>3, <2>1
  <2>5. \A k \in Chat : /\ version[k] \in Nat
                        /\ \/ version'[k] = version[k] /\ policy'[k] = policy[k]
                           \/ version'[k] = version[k] + 1
    BY <1>1, <2>1
  <2>6. ReadsVersioned'
    <3> SUFFICES ASSUME NEW z \in Setting, spc'[z] = "write"
                 PROVE  /\ read'[z].version <= version'[asks[z].chat]
                        /\ read'[z].version = version'[asks[z].chat]
                             => read'[z].policy = policy'[asks[z].chat]
      BY <2>1 DEF ReadsVersioned
    <3>1. read'[z] = read[z] /\ spc[z] = "write"
      BY <2>4
    <3>2. read[z].version \in Nat /\ asks[z].chat \in Chat
      BY <1>1, <1>2
    <3>3. /\ read[z].version <= version[asks[z].chat]
          /\ read[z].version = version[asks[z].chat] => read[z].policy = policy[asks[z].chat]
      BY <3>1 DEF SettingsFit, ReadsVersioned
    <3> QED
      BY <2>5, <3>1, <3>2, <3>3
  <2> QED
    BY <1>1, <2>1, <2>3, <2>4, <2>6 DEF SettingsFit
<1> QED
  BY <1>4, <1>5

-----------------------------------------------------------------------------
(* Jobs *)

\* The window in force is one that something can be in, and there is one at most.
LEMMA WindowsFit ==
  ASSUME NEW p \in Policy, NEW n \in Notification
  PROVE  \A v, w \in WindowsOf(p, n) : Real(v) /\ v = w
<1>1. p.quiet \in Quiet
  BY DEF Policy
<1>2. CASE p.quiet.mode = "disabled"
  BY <1>2 DEF WindowsOf
<1>3. CASE p.quiet.mode = "inherit"
  <2>1. WindowsOf(p, n) = hints[n]
    BY <1>3 DEF WindowsOf
  <2>2. hints[n] \in {{}} \cup {{w} : w \in {x \in Window : x[1] # x[2]}}
    BY NotificationsAssumption
  <2> QED
    BY <2>1, <2>2 DEF Real
<1>4. CASE p.quiet.mode = "custom"
  <2>1. WindowsOf(p, n) = {p.quiet.window}
    BY <1>4 DEF WindowsOf
  <2>2. p.quiet.window \in {w \in Window : w[1] # w[2]}
    BY <1>1, <1>4 DEF Quiet
  <2> QED
    BY <2>1, <2>2 DEF Real
<1> QED
  BY <1>1, <1>2, <1>3, <1>4 DEF Quiet

\* A delivery is put off to one instant, the first that is not quiet.
LEMMA ReleaseFits ==
  ASSUME NEW p \in Policy, NEW n \in Notification, NEW o, NEW t \in Nat
  PROVE  \A u \in Releases(p, o, n, t) :
           /\ u \in Nat /\ t <= u
           /\ ~(high[n] /\ p.bypass)
           /\ \A w \in WindowsOf(p, n) :
                ~InQuiet(w, u % Day) /\ \A v \in t .. (u - 1) : InQuiet(w, v % Day)
           /\ WindowsOf(p, n) # {}
<1> SUFFICES ASSUME NEW u \in Releases(p, o, n, t)
             PROVE  /\ u \in Nat /\ t <= u
                    /\ ~(high[n] /\ p.bypass)
                    /\ \A w \in WindowsOf(p, n) :
                         ~InQuiet(w, u % Day) /\ \A v \in t .. (u - 1) : InQuiet(w, v % Day)
                    /\ WindowsOf(p, n) # {}
  OBVIOUS
<1>1. ~(high[n] /\ p.bypass)
  BY DEF Releases
<1>2. PICK w \in WindowsOf(p, n) : InQuiet(w, t % Day) /\ u = t + UntilEnd(w, t % Day)
  BY DEF Releases
<1>3. Real(w) /\ \A v \in WindowsOf(p, n) : v = w
  BY WindowsFit
<1>4. /\ UntilEnd(w, t % Day) \in Nat
      /\ ~InQuiet(w, (t + UntilEnd(w, t % Day)) % Day)
      /\ \A v \in t .. (t + UntilEnd(w, t % Day) - 1) : InQuiet(w, v % Day)
  BY <1>2, <1>3, QuietEnds
<1>5. u \in Nat /\ t <= u
  BY <1>2, <1>4
<1>6. ~InQuiet(w, u % Day) /\ \A v \in t .. (u - 1) : InQuiet(w, v % Day)
  <2>1. u - 1 = t + UntilEnd(w, t % Day) - 1
    BY <1>2, <1>4
  <2> QED
    BY <1>2, <1>4, <2>1, Zenon
<1> QED
  BY <1>1, <1>3, <1>5, <1>6

\* One transaction of the sender moves one job, and its decision with it.
JobMoves(x, s, v, k) ==
  /\ job' = [job EXCEPT ![x] = s]
  /\ decision' = [decision EXCEPT ![x] = v]
  /\ attempts' = [attempts EXCEPT ![x] = k]
  /\ UNCHANGED due

\* What a row of the two tables may look like.
RowFits(s, v, k) ==
  /\ s \in JobState /\ v \in Outcome \cup {"none"} /\ k \in 0 .. MaxAttempts
  /\ CASE s = "absent"  -> v \in {"none", "suppressed"}
       [] s = "ready"   -> v \in {"deferred", "enqueued"}
       [] s = "sending" -> v \in {"deferred", "enqueued", "retry_wait"}
       [] s = "sent"    -> v = "delivered"
       [] OTHER         -> v = s
  /\ s \in {"absent", "ready"} => k = 0
  /\ s = "retry_wait" => k < MaxAttempts

LEMMA JobsFitByRow ==
  JobsFit <=> /\ decision \in [Slot -> Outcome \cup {"none"}] /\ job \in [Slot -> JobState]
              /\ due \in [Slot -> Nat] /\ attempts \in [Slot -> 0 .. MaxAttempts]
              /\ \A x \in Slot : RowFits(job[x], decision[x], attempts[x])
BY DEF JobsFit, DecisionTracksJob, ClaimsCounted, RowFits

LEMMA MoveFits ==
  ASSUME JobsFit, NEW x \in Slot, NEW s, NEW v, NEW k, JobMoves(x, s, v, k), RowFits(s, v, k)
  PROVE  JobsFit'
<1>1. /\ decision \in [Slot -> Outcome \cup {"none"}] /\ job \in [Slot -> JobState]
      /\ due \in [Slot -> Nat] /\ attempts \in [Slot -> 0 .. MaxAttempts]
      /\ \A y \in Slot : RowFits(job[y], decision[y], attempts[y])
  BY JobsFitByRow
<1>2. s \in JobState /\ v \in Outcome \cup {"none"} /\ k \in 0 .. MaxAttempts
  BY DEF RowFits
<1>3. /\ decision' \in [Slot -> Outcome \cup {"none"}] /\ job' \in [Slot -> JobState]
      /\ due' \in [Slot -> Nat] /\ attempts' \in [Slot -> 0 .. MaxAttempts]
  BY <1>1, <1>2 DEF JobMoves
<1>4. ASSUME NEW y \in Slot PROVE RowFits(job'[y], decision'[y], attempts'[y])
  BY <1>1, <1>4 DEF JobMoves
<1> QED
  BY <1>3, <1>4 DEF JobsFit, DecisionTracksJob, ClaimsCounted, RowFits

\* The steps of the sender: every one is such a move, of a job that is there.
LEMMA SenderMoves ==
  ASSUME JobsFit, NEW x \in Slot, SenderStep(x) \/ Quarantine(x)
  PROVE  /\ JobsFit' /\ decision[x] # "none" /\ decision'[x] # "none" /\ job[x] # "absent"
         /\ \A y \in Slot : y # x => decision'[y] = decision[y] /\ job'[y] = job[y]
         /\ job[x] # "sending" => decision'[x] = decision[x]
         /\ job'[x] # job[x] /\ job'[x] \notin {"absent", "ready"}
<1>1. /\ decision \in [Slot -> Outcome \cup {"none"}] /\ job \in [Slot -> JobState]
      /\ due \in [Slot -> Nat] /\ attempts \in [Slot -> 0 .. MaxAttempts]
      /\ \A y \in Slot : RowFits(job[y], decision[y], attempts[y])
  BY JobsFitByRow
<1>2. attempts[x] \in 0 .. MaxAttempts /\ MaxAttempts \in Nat \ {0}
      /\ job[x] \in JobState /\ RowFits(job[x], decision[x], attempts[x])
  BY <1>1, NotificationsAssumption
<1>3. ASSUME NEW s, NEW v, NEW k, JobMoves(x, s, v, k), RowFits(s, v, k), v # "none",
             job[x] \in {"ready", "retry_wait", "sending"}, s # job[x], s \notin {"absent", "ready"},
             job[x] # "sending" => v = decision[x]
      PROVE  /\ JobsFit' /\ decision[x] # "none" /\ decision'[x] # "none" /\ job[x] # "absent"
             /\ \A y \in Slot : y # x => decision'[y] = decision[y] /\ job'[y] = job[y]
             /\ job[x] # "sending" => decision'[x] = decision[x]
             /\ job'[x] # job[x] /\ job'[x] \notin {"absent", "ready"}
  <2>1. JobsFit'
    BY <1>3, MoveFits
  <2>2. decision[x] # "none"
    BY <1>2, <1>3 DEF RowFits
  <2>3. decision'[x] = v /\ job'[x] = s
    BY <1>1, <1>3 DEF JobMoves
  <2> QED
    BY <1>1, <1>3, <2>1, <2>2, <2>3 DEF JobMoves
<1>4. CASE Claim(x)
  <2>1. JobMoves(x, "sending", decision[x], attempts[x] + 1) /\ job[x] \in {"ready", "retry_wait"}
    BY <1>1, <1>4 DEF Claim, JobMoves
  <2>2. RowFits("sending", decision[x], attempts[x] + 1) /\ decision[x] # "none"
    BY <1>2, <2>1 DEF RowFits, JobState, Outcome
  <2> QED
    BY <1>3, <2>1, <2>2
<1>5. CASE Acknowledge(x)
  <2>1. JobMoves(x, "sent", "delivered", attempts[x]) /\ job[x] = "sending"
    BY <1>1, <1>5 DEF Acknowledge, JobMoves
  <2>2. RowFits("sent", "delivered", attempts[x])
    BY <1>2 DEF RowFits, JobState, JobFinal, Outcome
  <2> QED
    BY <1>3, <2>1, <2>2
<1>6. CASE Settle(x)
  <2>1. PICK s \in {"retry_wait", "failed_permanent", "outcome_unknown"} :
          /\ s = "retry_wait" => Retryable(x)
          /\ JobMoves(x, s, s, attempts[x]) /\ job[x] = "sending"
    BY <1>1, <1>6 DEF Settle, JobMoves, Linked
  <2>2. RowFits(s, s, attempts[x])
    BY <1>2, <2>1 DEF RowFits, JobState, JobFinal, Outcome, Retryable
  <2> QED
    BY <1>3, <2>1, <2>2
<1>7. CASE Quarantine(x)
  <2>1. JobMoves(x, "outcome_unknown", "outcome_unknown", attempts[x]) /\ job[x] = "sending"
    BY <1>1, <1>7 DEF Quarantine, JobMoves
  <2>2. RowFits("outcome_unknown", "outcome_unknown", attempts[x])
    BY <1>2 DEF RowFits, JobState, JobFinal, Outcome
  <2> QED
    BY <1>3, <2>1, <2>2
<1> QED
  BY <1>4, <1>5, <1>6, <1>7 DEF SenderStep

-----------------------------------------------------------------------------
(* Admission *)

LEMMA Carried ==
  ASSUME ConsumersFit, NEW e \in Event, carries[e] # Unreadable
  PROVE  carries[e] \in Notification /\ \A c \in Chat : <<carries[e], c>> \in Slot
BY NotificationsAssumption DEF ConsumersFit, Slot

\* The decision rows an admission inserts.
Fresh(d) == {x \in Slot : /\ x[1] = carries[held[d]] /\ x[2] \in view[d].chats
                          /\ decision[x] = "none"}
Verdict(d, x) == Decide(policy[x[2]], view[d].overrides[x[2]], x[1], view[d].at)
Release(d, x) == Releases(policy[x[2]], view[d].overrides[x[2]], x[1], view[d].at)
DueAt(d, x)   == IF Release(d, x) = {} THEN view[d].at ELSE CHOOSE t \in Release(d, x) : TRUE

LEMMA CommitRows ==
  ASSUME ConsumersFit, NEW d \in Consumer, carries[held[d]] # Unreadable, Commit(d)
  PROVE  \A x \in Slot :
           /\ decision'[x] = IF x \in Fresh(d) THEN Verdict(d, x) ELSE decision[x]
           /\ job'[x] = IF x \in Fresh(d) /\ Verdict(d, x) # "suppressed" THEN "ready" ELSE job[x]
           /\ due'[x] = IF x \in Fresh(d) /\ Verdict(d, x) # "suppressed" THEN DueAt(d, x) ELSE due[x]
<1> DEFINE n == carries[held[d]]
           new == {<<n, c>> : c \in Undecided(d, n)}
           V(c) == Decide(policy[c], view[d].overrides[c], n, view[d].at)
           R(c) == Releases(policy[c], view[d].overrides[c], n, view[d].at)
           D(c) == IF R(c) = {} THEN view[d].at ELSE CHOOSE t \in R(c) : TRUE
           sends == {x \in new : V(x[2]) # "suppressed"}
<1>1. /\ decision' = [x \in Slot |-> IF x \in new THEN V(x[2]) ELSE decision[x]]
      /\ job' = [x \in Slot |-> IF x \in sends THEN "ready" ELSE job[x]]
      /\ due' = [x \in Slot |-> IF x \in sends THEN D(x[2]) ELSE due[x]]
  BY DEF Commit
<1>2. view[d].chats \subseteq Chat
  BY DEF ConsumersFit
<1>3. ASSUME NEW x \in Slot PROVE x \in new <=> x \in Fresh(d)
  <2>1. x = <<x[1], x[2]>> /\ x[1] \in Notification /\ x[2] \in Chat
    BY <1>3 DEF Slot
  <2>2. x \in new <=> \E c \in view[d].chats : decision[<<n, c>>] = "none" /\ x = <<n, c>>
    BY DEF Undecided
  <2>3. ASSUME x \in new PROVE x \in Fresh(d)
    <3>1. PICK c \in view[d].chats : decision[<<n, c>>] = "none" /\ x = <<n, c>>
      BY <2>2, <2>3
    <3>2. x[1] = n /\ x[2] = c /\ decision[x] = "none"
      BY <3>1
    <3> QED
      BY <1>3, <3>1, <3>2 DEF Fresh
  <2>4. x \in Fresh(d) => x \in new
    BY <2>1, <2>2 DEF Fresh
  <2> QED
    BY <2>3, <2>4
<1>4. ASSUME NEW x \in Slot, x \in Fresh(d)
      PROVE  V(x[2]) = Verdict(d, x) /\ R(x[2]) = Release(d, x) /\ D(x[2]) = DueAt(d, x)
  <2>1. x[1] = n
    BY <1>4 DEF Fresh
  <2>2. V(x[2]) = Verdict(d, x) /\ R(x[2]) = Release(d, x)
    BY <2>1 DEF Verdict, Release
  <2> HIDE DEF R
  <2>3. D(x[2]) = DueAt(d, x)
    BY <2>2 DEF DueAt
  <2> QED
    BY <2>2, <2>3
<1> HIDE DEF V, R, D, new
<1>5. ASSUME NEW x \in Slot
      PROVE  /\ decision'[x] = IF x \in new THEN V(x[2]) ELSE decision[x]
             /\ job'[x] = IF x \in new /\ V(x[2]) # "suppressed" THEN "ready" ELSE job[x]
             /\ due'[x] = IF x \in new /\ V(x[2]) # "suppressed" THEN D(x[2]) ELSE due[x]
  BY <1>1, <1>5
<1> QED
  BY <1>3, <1>4, <1>5

LEMMA VerdictFits ==
  ASSUME SettingsFit, ConsumersFit, NEW d \in Consumer, NEW x \in Slot
  PROVE  /\ Verdict(d, x) \in {"suppressed", "deferred", "enqueued"}
         /\ DueAt(d, x) \in Nat
<1>1. policy[x[2]] \in Policy /\ x[1] \in Notification /\ view[d].at \in Nat
  BY DEF SettingsFit, ConsumersFit, Slot
<1>2. \A u \in Release(d, x) : u \in Nat
  BY <1>1, ReleaseFits DEF Release
<1> QED
  BY <1>1, <1>2 DEF Verdict, Decide, DueAt

\* The transaction of an admission: rows and jobs fit, nothing decided is touched,
\* and the envelope has its trace.
LEMMA CommitFits ==
  ASSUME SettingsFit, ConsumersFit, JobsFit, NEW d \in Consumer, NEW e \in Event, held[d] = e,
         carries[e] # Unreadable, Commit(d), UNCHANGED carries
  PROVE  /\ JobsFit' /\ inbox' = inbox \cup {e} /\ evidence' \in [Event -> Nat]
         /\ \A z \in Event : evidence[z] <= evidence'[z]
         /\ \A x \in Slot : decision[x] # "none" => decision'[x] = decision[x] /\ job'[x] = job[x]
         /\ Traced(e)'
<1>1. evidence \in [Event -> Nat] /\ view[d].chats \subseteq Chat
  BY DEF ConsumersFit
<1>2. inbox' = inbox \cup {e} /\ attempts' = attempts
      /\ evidence' = IF view[d].chats = {} THEN [evidence EXCEPT ![e] = @ + 1] ELSE evidence
  BY DEF Commit, Trace
<1>3. /\ evidence' \in [Event -> Nat] /\ \A z \in Event : evidence[z] <= evidence'[z]
      /\ view[d].chats = {} => evidence'[e] > 0
  BY <1>1, <1>2
<1>4. \A x \in Slot :
        /\ decision'[x] = IF x \in Fresh(d) THEN Verdict(d, x) ELSE decision[x]
        /\ job'[x] = IF x \in Fresh(d) /\ Verdict(d, x) # "suppressed" THEN "ready" ELSE job[x]
        /\ due'[x] = IF x \in Fresh(d) /\ Verdict(d, x) # "suppressed" THEN DueAt(d, x) ELSE due[x]
  BY CommitRows
<1>5. \A x \in Slot : decision[x] # "none" => decision'[x] = decision[x] /\ job'[x] = job[x]
  BY <1>4 DEF Fresh
<1>6. Traced(e)'
  <2>1. CASE view[d].chats = {}
    BY <1>3, <2>1 DEF Traced
  <2>2. ASSUME NEW c \in view[d].chats PROVE decision'[<<carries[e], c>>] # "none"
    <3> DEFINE x == <<carries[e], c>>
    <3>1. c \in Chat /\ x \in Slot /\ x[1] = carries[e] /\ x[2] = c
      BY <1>1, <2>2, Carried
    <3> QED
      BY <1>4, <2>2, <3>1, VerdictFits DEF Fresh
  <2> QED
    BY <1>1, <2>1, <2>2 DEF Traced
<1>7. JobsFit'
  <2>1. /\ decision \in [Slot -> Outcome \cup {"none"}] /\ job \in [Slot -> JobState]
        /\ due \in [Slot -> Nat] /\ attempts \in [Slot -> 0 .. MaxAttempts]
        /\ \A y \in Slot : RowFits(job[y], decision[y], attempts[y])
    BY JobsFitByRow
  <2>2. ASSUME NEW x \in Slot
        PROVE  RowFits(job'[x], decision'[x], attempts'[x]) /\ due'[x] \in Nat
    <3>1. RowFits(job[x], decision[x], attempts[x]) /\ due[x] \in Nat /\ attempts'[x] = attempts[x]
      BY <1>2, <2>1
    <3>2. CASE x \notin Fresh(d)
      BY <1>4, <3>1, <3>2
    <3>3. CASE x \in Fresh(d)
      <4>1. job[x] = "absent" /\ attempts[x] = 0 /\ MaxAttempts \in Nat
        <5>1. decision[x] = "none" /\ job[x] \in JobState
          BY <2>1, <3>3 DEF Fresh
        <5> QED
          BY <3>1, <5>1, NotificationsAssumption DEF RowFits, JobState, JobFinal
      <4>2. Verdict(d, x) \in {"suppressed", "deferred", "enqueued"} /\ DueAt(d, x) \in Nat
        BY VerdictFits
      <4>3. /\ decision'[x] = Verdict(d, x)
            /\ job'[x] = IF Verdict(d, x) # "suppressed" THEN "ready" ELSE "absent"
            /\ due'[x] = IF Verdict(d, x) # "suppressed" THEN DueAt(d, x) ELSE due[x]
        BY <1>4, <3>3, <4>1
      <4> QED
        BY <3>1, <4>1, <4>2, <4>3 DEF RowFits, JobState, Outcome
    <3> QED
      BY <3>2, <3>3
  <2>3. \A x \in Slot : /\ decision'[x] \in Outcome \cup {"none"} /\ job'[x] \in JobState
                        /\ attempts'[x] \in 0 .. MaxAttempts
    BY <2>2 DEF RowFits
  <2>4. /\ decision' \in [Slot -> Outcome \cup {"none"}] /\ job' \in [Slot -> JobState]
        /\ due' \in [Slot -> Nat] /\ attempts' \in [Slot -> 0 .. MaxAttempts]
    <3>1. DOMAIN decision' = Slot /\ DOMAIN job' = Slot /\ DOMAIN due' = Slot
          /\ decision' = [x \in Slot |-> decision'[x]] /\ job' = [x \in Slot |-> job'[x]]
          /\ due' = [x \in Slot |-> due'[x]]
      BY DEF Commit
    <3> QED
      BY <1>2, <2>1, <2>2, <2>3, <3>1
  <2> QED
    BY <2>2, <2>4 DEF JobsFit, DecisionTracksJob, ClaimsCounted, RowFits
<1> QED
  BY <1>2, <1>3, <1>5, <1>6, <1>7

-----------------------------------------------------------------------------
(* The consumer *)

\* Nothing takes a trace back.
Kept ==
  /\ UNCHANGED carries /\ inbox \subseteq inbox'
  /\ \A e \in Event : evidence[e] > 0 => evidence'[e] > 0
  /\ \A x \in Slot : decision[x] # "none" => decision'[x] # "none"

LEMMA TraceStays ==
  ASSUME ConsumersFit, Kept, NEW e \in Event, Traced(e)
  PROVE  Traced(e)'
<1>1. CASE evidence[e] > 0
  BY <1>1 DEF Kept, Traced
<1>2. CASE carries[e] # Unreadable /\ \E c \in Chat : decision[<<carries[e], c>>] # "none"
  BY <1>2, Carried DEF Kept, Traced
<1> QED
  BY <1>1, <1>2 DEF Traced

LEMMA TracesStay ==
  ASSUME ConsumersFit, Traces, Kept, UNCHANGED <<bus, inbox, pc, held>>
  PROVE  Traces'
<1>1. ConsumersFit => inbox \subseteq Event /\ held \in [Consumer -> Event]
  BY DEF ConsumersFit
<1>2. \A e \in Event : Traced(e) => Traced(e)'
  BY TraceStays
<1>3. AnsweredLeftATrace'
  BY <1>2 DEF Traces, AnsweredLeftATrace, Traced, Kept
<1>4. TracesKept' /\ AnswersEarned'
  BY <1>1, <1>2 DEF Traces, TracesKept, AnswersEarned, Kept
<1> QED
  BY <1>3, <1>4 DEF Traces

\* A step of consumer d: it answers only for what is traced.
LEMMA ConsumerMoves ==
  ASSUME ConsumersFit, Traces, Kept, NEW d \in Consumer,
         \A o \in Consumer : o # d => pc'[o] = pc[o] /\ held'[o] = held[o],
         pc'[d] = "deciding" => carries[held'[d]] # Unreadable,
         pc'[d] = "ack" => held'[d] \in inbox',
         pc'[d] = "term" => evidence'[held'[d]] > 0,
         \A e \in inbox' : e \in inbox \/ (carries[e] # Unreadable /\ Traced(e)'),
         \A e \in Event : bus'[e] # "pending" => bus[e] # "pending" \/ Traced(e)
  PROVE  Traces'
<1>1. inbox \subseteq Event /\ held \in [Consumer -> Event]
  BY DEF ConsumersFit
<1>2. \A e \in Event : Traced(e) => Traced(e)'
  BY TraceStays
<1>3. \A e \in Event : bus[e] # "pending" => Traced(e)
  BY DEF Traces, AnsweredLeftATrace, Traced
<1>4. AnsweredLeftATrace'
  <2>1. \A e \in Event : bus'[e] # "pending" => Traced(e)'
    BY <1>2, <1>3
  <2> QED
    BY <2>1 DEF AnsweredLeftATrace, Traced
<1>5. TracesKept'
  BY <1>1, <1>2 DEF Traces, TracesKept, Kept
<1>6. AnswersEarned'
  <2> SUFFICES ASSUME NEW o \in Consumer
               PROVE  /\ pc'[o] = "deciding" => carries[held'[o]] # Unreadable
                      /\ pc'[o] = "ack"      => held'[o] \in inbox'
                      /\ pc'[o] = "term"     => evidence'[held'[o]] > 0
    BY DEF AnswersEarned, Kept
  <2>1. CASE o = d
    BY <2>1
  <2>2. CASE o # d
    BY <1>1, <2>2 DEF Traces, AnswersEarned, Kept
  <2> QED
    BY <2>1, <2>2
<1> QED
  BY <1>4, <1>5, <1>6 DEF Traces

View == [at : Nat, chats : SUBSET Chat, overrides : [Chat -> Override]]

LEMMA ViewsFit ==
  /\ NoView \in View /\ \A t \in Nat : [NoView EXCEPT !.at = t] \in View
  /\ Nobody \in Event
BY NotificationsAssumption DEF NoView, View, Override, Nobody

\* Everything the consumers do outside the transaction.
LEMMA ConsumerSteps ==
  ASSUME SettingsFit, ConsumersFit, JobsFit, Traces, ClockFits, NEW d \in Consumer,
         Fetch(d) \/ Reject(d) \/ Duplicate(d) \/ Select(d) \/ Answer(d) \/ Crash(d)
  PROVE  /\ UNCHANGED settingVars /\ UNCHANGED jobVars
         /\ ConsumersFit' /\ Traces' /\ ClockFits'
<1>1. /\ carries \in Loads /\ bus \in [Event -> {"pending", "acked", "termed"}]
      /\ inbox \subseteq Event /\ evidence \in [Event -> Nat]
      /\ pc \in [Consumer -> {"idle", "received", "deciding", "ack", "term"}]
      /\ held \in [Consumer -> Event] /\ view \in [Consumer -> View]
  BY DEF ConsumersFit, View
<1>2. now \in Nat /\ faults \in 0 .. MaxFaults /\ MaxFaults \in Nat
  BY NotificationsAssumption DEF ClockFits
<1>3. UNCHANGED settingVars /\ UNCHANGED jobVars /\ UNCHANGED <<carries, inbox, now>>
  BY DEF Fetch, Reject, Duplicate, Select, Answer, Crash
<1>4. ClockFits'
  BY <1>2, <1>3 DEF Fetch, Reject, Duplicate, Select, Answer, Crash, SpendFault, ClockFits
<1>5. UNCHANGED decision
  BY <1>3 DEF jobVars
<1>6. CASE Fetch(d)
  <2>1. PICK e \in Event : /\ held' = [held EXCEPT ![d] = e]
                           /\ view' = [view EXCEPT ![d] = [NoView EXCEPT !.at = now]]
                           /\ pc' = [pc EXCEPT ![d] = "received"]
                           /\ UNCHANGED <<bus, evidence>>
    BY <1>6 DEF Fetch, Go
  <2>2. ConsumersFit'
    BY <1>1, <1>2, <1>3, <2>1, ViewsFit DEF ConsumersFit, View
  <2>3. Traces'
    BY <1>1, <1>3, <1>5, <2>1, ConsumerMoves DEF Kept
  <2> QED
    BY <1>3, <1>4, <2>2, <2>3
<1>7. CASE Reject(d)
  <2>1. /\ evidence' = [evidence EXCEPT ![held[d]] = @ + 1]
        /\ pc' = [pc EXCEPT ![d] = "term"] /\ UNCHANGED <<bus, held, view>>
    BY <1>7 DEF Reject, Go
  <2>2. ConsumersFit'
    BY <1>1, <1>3, <2>1 DEF ConsumersFit, View
  <2>3. Kept /\ evidence'[held[d]] > 0
    BY <1>1, <1>3, <1>5, <2>1 DEF Kept
  <2>4. Traces'
    BY <1>1, <1>3, <2>1, <2>3, ConsumerMoves
  <2> QED
    BY <1>3, <1>4, <2>2, <2>4
<1>8. CASE Duplicate(d)
  <2>1. /\ held[d] \in inbox /\ pc' = [pc EXCEPT ![d] = "ack"]
        /\ UNCHANGED <<bus, evidence, held, view>>
    BY <1>8 DEF Duplicate, Go
  <2>2. ConsumersFit'
    BY <1>1, <1>3, <2>1 DEF ConsumersFit, View
  <2>3. Traces'
    BY <1>1, <1>3, <1>5, <2>1, ConsumerMoves DEF Kept
  <2> QED
    BY <1>3, <1>4, <2>2, <2>3
<1>9. CASE Select(d)
  <2> DEFINE chats == IF linked THEN bound ELSE {}
             overrides == [c \in Chat |-> policy[c].classes[classOf[carries[held[d]]]]]
  <2>1. /\ carries[held[d]] # Unreadable /\ pc' = [pc EXCEPT ![d] = "deciding"]
        /\ UNCHANGED <<bus, evidence, held>>
        /\ view' = [view EXCEPT ![d].chats = chats, ![d].overrides = overrides]
    BY <1>9 DEF Select, Go
  <2>2. chats \in SUBSET Chat /\ overrides \in [Chat -> Override]
    <3>1. carries[held[d]] \in Notification
      BY <1>1, <2>1, Carried
    <3>2. classOf[carries[held[d]]] \in Class
      BY <3>1, NotificationsAssumption
    <3>3. \A c \in Chat : policy[c].classes \in [Class -> Override]
      BY DEF SettingsFit, Policy
    <3> QED
      BY <3>2, <3>3 DEF SettingsFit
  <2> HIDE DEF chats, overrides
  <2>3. view' \in [Consumer -> View]
    BY <1>1, <2>1, <2>2 DEF View
  <2>4. ConsumersFit'
    BY <1>1, <1>3, <2>1, <2>3 DEF ConsumersFit, View
  <2>5. Traces'
    BY <1>1, <1>3, <1>5, <2>1, ConsumerMoves DEF Kept
  <2> QED
    BY <1>3, <1>4, <2>4, <2>5
<1>10. CASE Answer(d)
  <2> DEFINE answered == [ack |-> "acked", term |-> "termed"][pc[d]]
  <2>1. /\ pc[d] \in {"ack", "term"} /\ pc' = [pc EXCEPT ![d] = "idle"]
        /\ held' = [held EXCEPT ![d] = Nobody] /\ view' = [view EXCEPT ![d] = NoView]
        /\ UNCHANGED evidence
        /\ \/ bus' = [bus EXCEPT ![held[d]] = IF @ = "pending" THEN answered ELSE @]
           \/ UNCHANGED bus
    BY <1>10 DEF Answer, LetGo, Go
  <2>2. answered \in {"acked", "termed"}
    BY <2>1
  <2> HIDE DEF answered
  <2>3. ConsumersFit'
    BY <1>1, <1>3, <2>1, <2>2, ViewsFit DEF ConsumersFit, View
  <2>4. Traced(held[d])
    BY <1>1, <2>1 DEF Traces, AnswersEarned, TracesKept, Traced
  <2>5. \A e \in Event : bus'[e] # "pending" => bus[e] # "pending" \/ Traced(e)
    BY <1>1, <2>1, <2>4
  <2>6. Traces'
    BY <1>1, <1>3, <1>5, <2>1, <2>5, ConsumerMoves DEF Kept
  <2> QED
    BY <1>3, <1>4, <2>3, <2>6
<1>11. CASE Crash(d)
  <2>1. /\ pc' = [pc EXCEPT ![d] = "idle"] /\ UNCHANGED <<bus, evidence>>
        /\ held' = [held EXCEPT ![d] = Nobody] /\ view' = [view EXCEPT ![d] = NoView]
    BY <1>11 DEF Crash, LetGo, Go
  <2>2. ConsumersFit'
    BY <1>1, <1>3, <2>1, ViewsFit DEF ConsumersFit, View
  <2>3. Traces'
    BY <1>1, <1>3, <1>5, <2>1, ConsumerMoves DEF Kept
  <2> QED
    BY <1>3, <1>4, <2>2, <2>3
<1> QED
  BY <1>6, <1>7, <1>8, <1>9, <1>10, <1>11

\* The transaction, and one that fails or loses its answer.
LEMMA AdmitSteps ==
  ASSUME SettingsFit, ConsumersFit, JobsFit, Traces, ClockFits, NEW d \in Consumer,
         Admit(d) \/ AdmissionFails(d)
  PROVE  UNCHANGED settingVars /\ ConsumersFit' /\ JobsFit' /\ Traces' /\ ClockFits'
<1>1. /\ carries \in Loads /\ bus \in [Event -> {"pending", "acked", "termed"}]
      /\ inbox \subseteq Event /\ evidence \in [Event -> Nat]
      /\ pc \in [Consumer -> {"idle", "received", "deciding", "ack", "term"}]
      /\ held \in [Consumer -> Event] /\ view \in [Consumer -> View]
  BY DEF ConsumersFit, View
<1>2. now \in Nat /\ faults \in 0 .. MaxFaults /\ MaxFaults \in Nat
  BY NotificationsAssumption DEF ClockFits
<1>3. UNCHANGED settingVars /\ UNCHANGED <<carries, bus, now>> /\ ClockFits'
  BY <1>2 DEF Admit, AdmissionFails, SpendFault, ClockFits
<1>4. PICK e \in Event : held[d] = e
  BY <1>1
<1>5. ASSUME Commit(d)
      PROVE  /\ JobsFit' /\ inbox' = inbox \cup {e} /\ evidence' \in [Event -> Nat] /\ Kept
             /\ carries[e] # Unreadable /\ Traced(e)'
  <2>1. pc[d] = "deciding"
    BY <1>5 DEF Commit
  <2>2. carries[e] # Unreadable
    BY <1>4, <2>1 DEF Traces, AnswersEarned
  <2>3. /\ JobsFit' /\ inbox' = inbox \cup {e} /\ evidence' \in [Event -> Nat]
        /\ \A z \in Event : evidence[z] <= evidence'[z]
        /\ \A x \in Slot : decision[x] # "none" => decision'[x] = decision[x] /\ job'[x] = job[x]
        /\ Traced(e)'
    BY <1>3, <1>4, <1>5, <2>2, CommitFits
  <2>4. Kept
    BY <1>1, <1>3, <2>3 DEF Kept
  <2> QED
    BY <2>2, <2>3, <2>4
<1>6. CASE Admit(d)
  <2>1. Commit(d) /\ pc' = [pc EXCEPT ![d] = "ack"] /\ UNCHANGED <<held, view>>
    BY <1>6 DEF Admit, Go
  <2>2. ConsumersFit'
    BY <1>1, <1>3, <1>5, <2>1 DEF ConsumersFit, View
  <2>3. Traces'
    BY <1>1, <1>3, <1>4, <1>5, <2>1, ConsumerMoves
  <2> QED
    BY <1>3, <1>5, <2>1, <2>2, <2>3
<1>7. CASE AdmissionFails(d)
  <2>1. /\ pc' = [pc EXCEPT ![d] = "idle"] /\ held' = [held EXCEPT ![d] = Nobody]
        /\ view' = [view EXCEPT ![d] = NoView]
    BY <1>7 DEF AdmissionFails, LetGo, Go
  <2>2. CASE Commit(d)
    <3>1. ConsumersFit'
      BY <1>1, <1>3, <1>5, <2>1, <2>2, ViewsFit DEF ConsumersFit, View
    <3>2. Traces'
      BY <1>1, <1>3, <1>5, <2>1, <2>2, ConsumerMoves
    <3> QED
      BY <1>3, <1>5, <2>2, <3>1, <3>2
  <2>3. CASE UNCHANGED <<inbox, evidence, jobVars>>
    <3>1. ConsumersFit'
      BY <1>1, <1>3, <2>1, <2>3, ViewsFit DEF ConsumersFit, View
    <3>2. Kept
      BY <1>3, <2>3 DEF Kept, jobVars
    <3>3. Traces'
      BY <1>1, <1>3, <2>1, <2>3, <3>2, ConsumerMoves
    <3>4. JobsFit'
      BY <2>3 DEF JobsFit, DecisionTracksJob, ClaimsCounted, jobVars
    <3> QED
      BY <1>3, <3>1, <3>3, <3>4
  <2> QED
    BY <1>7, <2>2, <2>3 DEF AdmissionFails
<1> QED
  BY <1>6, <1>7

-----------------------------------------------------------------------------
(* The invariant *)

LEMMA Parts == IInv <=> SettingsFit /\ ConsumersFit /\ JobsFit /\ Traces /\ ClockFits
BY DEF IInv, RecordsAgree, TypeOK, SettingsFit, ConsumersFit, JobsFit, Traces, ClockFits

LEMMA InitInv == Init => SettingsFit /\ ConsumersFit /\ JobsFit /\ Traces /\ ClockFits
<1> SUFFICES ASSUME Init PROVE SettingsFit /\ ConsumersFit /\ JobsFit /\ Traces /\ ClockFits
  OBVIOUS
<1>1. SettingsFit
  <2>1. [mode |-> "inherit", window |-> NoWindow] \in Quiet
    BY DEF Quiet
  <2>2. DefaultPolicy \in Policy
    BY <2>1 DEF DefaultPolicy, Policy, Override
  <2>3. NoRead \in [policy : Policy, version : Nat]
    BY <2>2 DEF NoRead
  <2> QED
    BY <2>2, <2>3 DEF Init, SettingsFit, ReadsVersioned
<1>2. ConsumersFit
  BY ViewsFit DEF Init, ConsumersFit, View
<1>3. JobsFit
  <2>1. 0 \in 0 .. MaxAttempts
    BY NotificationsAssumption
  <2> QED
    BY <2>1 DEF Init, JobsFit, DecisionTracksJob, ClaimsCounted, JobState, Outcome
<1>4. Traces
  BY DEF Init, Traces, AnsweredLeftATrace, TracesKept, AnswersEarned
<1>5. ClockFits
  BY NotificationsAssumption DEF Init, ClockFits
<1> QED
  BY <1>1, <1>2, <1>3, <1>4, <1>5

LEMMA ConsumersStay ==
  ASSUME ConsumersFit, Traces, UNCHANGED consumerVars,
         \A x \in Slot : decision[x] # "none" => decision'[x] # "none"
  PROVE  ConsumersFit' /\ Traces'
<1>1. UNCHANGED <<carries, bus, inbox, evidence, pc, held, view>>
  BY DEF consumerVars
<1>2. ConsumersFit'
  BY <1>1 DEF ConsumersFit
<1>3. Kept
  BY <1>1 DEF Kept
<1> QED
  BY <1>1, <1>2, <1>3, TracesStay

LEMMA JobsStay == JobsFit /\ UNCHANGED jobVars => JobsFit'
BY DEF JobsFit, DecisionTracksJob, ClaimsCounted, jobVars

LEMMA StepInv ==
  ASSUME SettingsFit, ConsumersFit, JobsFit, Traces, ClockFits, [Next]_vars
  PROVE  SettingsFit' /\ ConsumersFit' /\ JobsFit' /\ Traces' /\ ClockFits'
<1>1. now \in Nat /\ faults \in 0 .. MaxFaults /\ MaxFaults \in Nat
  BY NotificationsAssumption DEF ClockFits
<1>2. ASSUME UNCHANGED settingVars, UNCHANGED consumerVars, UNCHANGED jobVars, ClockFits'
      PROVE  SettingsFit' /\ ConsumersFit' /\ JobsFit' /\ Traces' /\ ClockFits'
  <2>1. UNCHANGED decision
    BY <1>2 DEF jobVars
  <2> QED
    BY <1>2, <2>1, SettingsStay, ConsumersStay, JobsStay
<1>3. CASE UNCHANGED vars \/ Tick
  <2>1. UNCHANGED settingVars /\ UNCHANGED consumerVars /\ UNCHANGED jobVars
    BY <1>3 DEF vars, Tick
  <2>2. ClockFits'
    BY <1>1, <1>3 DEF vars, Tick, ClockFits
  <2> QED
    BY <1>2, <2>1, <2>2
<1>4. ASSUME UNCHANGED consumerVars, UNCHANGED jobVars, SettingsFit', ClockFits'
      PROVE  SettingsFit' /\ ConsumersFit' /\ JobsFit' /\ Traces' /\ ClockFits'
  <2>1. UNCHANGED decision
    BY <1>4 DEF jobVars
  <2> QED
    BY <1>4, <2>1, ConsumersStay, JobsStay
<1>5. CASE Link \/ \E c \in Chat : Bind(c)
  <2>1. UNCHANGED consumerVars /\ UNCHANGED jobVars /\ UNCHANGED <<now, faults>>
    BY <1>5 DEF Link, Bind
  <2>2. SettingsFit'
    BY <1>5 DEF Link, Bind, SettingsFit, ReadsVersioned
  <2>3. ClockFits'
    BY <2>1 DEF ClockFits
  <2> QED
    BY <1>4, <2>1, <2>2, <2>3
<1>6. ASSUME NEW s \in Setting, SettingStep(s) \/ SettingFails(s)
      PROVE  SettingsFit' /\ ConsumersFit' /\ JobsFit' /\ Traces' /\ ClockFits'
  <2>1. UNCHANGED consumerVars /\ UNCHANGED jobVars
    BY <1>6 DEF SettingStep, ReadSetting, WriteSetting, SettingFails
  <2>2. SettingsFit'
    BY <1>6, SettingSteps DEF SettingStep
  <2>3. ClockFits'
    BY <1>1, <1>6 DEF SettingStep, ReadSetting, WriteSetting, SettingFails, SpendFault, ClockFits
  <2> QED
    BY <1>4, <2>1, <2>2, <2>3
<1>7. ASSUME NEW d \in Consumer, ConsumerStep(d) \/ AdmissionFails(d) \/ Crash(d)
      PROVE  SettingsFit' /\ ConsumersFit' /\ JobsFit' /\ Traces' /\ ClockFits'
  <2>1. CASE Admit(d) \/ AdmissionFails(d)
    BY <2>1, AdmitSteps, SettingsStay
  <2>2. CASE Fetch(d) \/ Reject(d) \/ Duplicate(d) \/ Select(d) \/ Answer(d) \/ Crash(d)
    BY <2>2, ConsumerSteps, SettingsStay, JobsStay
  <2> QED
    BY <1>7, <2>1, <2>2 DEF ConsumerStep
<1>8. ASSUME NEW x \in Slot, SenderStep(x) \/ Quarantine(x)
      PROVE  SettingsFit' /\ ConsumersFit' /\ JobsFit' /\ Traces' /\ ClockFits'
  <2>1. UNCHANGED settingVars /\ UNCHANGED consumerVars
    BY <1>8 DEF SenderStep, Claim, Acknowledge, Settle, Quarantine
  <2>2. ClockFits'
    BY <1>1, <1>8 DEF SenderStep, Claim, Acknowledge, Settle, Quarantine, SpendFault, ClockFits
  <2>3. JobsFit' /\ \A y \in Slot : decision[y] # "none" => decision'[y] # "none"
    BY <1>8, SenderMoves
  <2> QED
    BY <2>1, <2>2, <2>3, SettingsStay, ConsumersStay
<1> QED
  BY <1>3, <1>5, <1>6, <1>7, <1>8 DEF Next

\* The inductive invariant: beside the agreement of the rows, every envelope in the
\* inbox has its trace, a consumer only answers for what is committed, a job that
\* waits has an attempt left, and a version that has not moved vouches for what was
\* read under it (admit_notification, update_notification_preferences).
THEOREM Invariance == Spec => []IInv
<1>1. Init => IInv
  BY InitInv, Parts
<1>2. IInv /\ [Next]_vars => IInv'
  <2> SUFFICES ASSUME IInv, [Next]_vars PROVE IInv'
    OBVIOUS
  <2>1. SettingsFit /\ ConsumersFit /\ JobsFit /\ Traces /\ ClockFits
    BY Parts
  <2>2. (SettingsFit /\ ConsumersFit /\ JobsFit /\ Traces /\ ClockFits)'
    BY <2>1, StepInv
  <2> QED
    BY <2>2, Parts, PTL
<1> QED
  BY <1>1, <1>2, PTL DEF Spec

\* What the rows say of a notification agrees, whichever transaction moved its job
\* and whatever was lost on the way to the bus (settle_notification,
\* apply_notification_ack, quarantine_expired_sends, admit_notification).
THEOREM Agree == Spec => []RecordsAgree
<1>1. IInv => RecordsAgree
  BY DEF IInv
<1> QED
  BY <1>1, Invariance, PTL

-----------------------------------------------------------------------------
(* The policy *)

\* The job tables change in an admission or in the sender.
LEMMA WhoWrites ==
  ASSUME [Next]_vars
  PROVE  \/ UNCHANGED jobVars
         \/ \E d \in Consumer : Commit(d) /\ UNCHANGED carries
         \/ \E x \in Slot : SenderStep(x) \/ Quarantine(x)
BY DEF Next, vars, Link, Bind, SettingStep, ReadSetting, WriteSetting, SettingFails, ConsumerStep,
       Fetch, Reject, Duplicate, Select, Admit, Answer, AdmissionFails, Crash, Tick

LEMMA OnceStep ==
  ASSUME ConsumersFit, SettingsFit, JobsFit, Traces, [Next]_vars, NEW x \in Slot,
         decision[x] # "none"
  PROVE  /\ decision'[x] # decision[x] => job'[x] # job[x] /\ job[x] = "sending"
         /\ job[x] = "absent" => job'[x] = "absent"
<1>1. CASE UNCHANGED jobVars
  BY <1>1 DEF jobVars
<1>2. ASSUME NEW d \in Consumer, Commit(d), UNCHANGED carries
      PROVE  decision'[x] = decision[x] /\ job'[x] = job[x]
  <2>1. PICK e \in Event : held[d] = e
    BY DEF ConsumersFit
  <2>2. carries[e] # Unreadable
    BY <1>2, <2>1 DEF Commit, Traces, AnswersEarned
  <2> QED
    BY <1>2, <2>1, <2>2, CommitFits
<1>3. ASSUME NEW y \in Slot, SenderStep(y) \/ Quarantine(y)
      PROVE  /\ decision'[x] # decision[x] => job'[x] # job[x] /\ job[x] = "sending"
             /\ job[x] = "absent" => job'[x] = "absent"
  <2>1. CASE x = y
    BY <1>3, <2>1, SenderMoves
  <2>2. CASE x # y
    BY <1>3, <2>2, SenderMoves
  <2> QED
    BY <2>1, <2>2
<1> QED
  BY <1>1, <1>2, <1>3, WhoWrites

Loud(p, n, t) == (high[n] /\ p.bypass) \/ \A w \in WindowsOf(p, n) : ~OnArc(w, t)

LEMMA GovernedStep ==
  ASSUME ConsumersFit, SettingsFit, JobsFit, Traces, [Next]_vars, NEW x \in Slot,
         job[x] = "absent", job'[x] = "ready"
  PROVE  /\ policy[x[2]].on
         /\ Loud(policy[x[2]], x[1], due'[x])
         /\ \E d \in Consumer :
              /\ pc[d] = "deciding" /\ view[d].at <= due'[x]
              /\ \A t \in view[d].at .. (due'[x] - 1) : ~Loud(policy[x[2]], x[1], t)
<1>1. ~UNCHANGED jobVars
  BY DEF jobVars
<1>2. ASSUME NEW y \in Slot, SenderStep(y) \/ Quarantine(y) PROVE FALSE
  <2>1. CASE x = y
    BY <1>2, <2>1, SenderMoves
  <2>2. CASE x # y
    BY <1>2, <2>2, SenderMoves
  <2> QED
    BY <2>1, <2>2
<1>3. PICK d \in Consumer : Commit(d) /\ UNCHANGED carries
  BY <1>1, <1>2, WhoWrites
<1> DEFINE p == policy[x[2]]  n == x[1]  at == view[d].at
<1>4. pc[d] = "deciding" /\ held[d] \in Event /\ at \in Nat
  BY <1>3 DEF Commit, ConsumersFit
<1>5. carries[held[d]] # Unreadable
  BY <1>4 DEF Traces, AnswersEarned
<1>6. p \in Policy /\ n \in Notification
  BY DEF SettingsFit, Slot
<1>7. Verdict(d, x) # "suppressed" /\ due'[x] = DueAt(d, x)
  BY <1>3, <1>5, CommitRows
<1>8. p.on /\ ~Suppresses(p, view[d].overrides[x[2]])
  BY <1>6, <1>7 DEF Verdict, Decide, Suppresses, Policy
<1>9. \A w \in WindowsOf(p, n), t \in Nat : OnArc(w, t) <=> InQuiet(w, t % Day)
  BY <1>6, WindowsFit, ArcIsQuiet
<1>10. CASE Release(d, x) = {}
  <2>1. due'[x] = at
    BY <1>7, <1>10 DEF DueAt
  <2>2. (high[n] /\ p.bypass) \/ \A w \in WindowsOf(p, n) : ~InQuiet(w, at % Day)
    BY <1>8, <1>10 DEF Release, Releases
  <2>3. Loud(p, n, at)
    BY <1>4, <1>9, <2>2 DEF Loud
  <2>4. at <= at /\ at .. (at - 1) = {}
    BY <1>4
  <2> QED
    BY <1>4, <1>8, <2>1, <2>3, <2>4
<1>11. CASE Release(d, x) # {}
  <2>1. due'[x] \in Release(d, x)
    BY <1>7, <1>11 DEF DueAt
  <2>2. /\ due'[x] \in Nat /\ at <= due'[x] /\ ~(high[n] /\ p.bypass)
        /\ \A w \in WindowsOf(p, n) :
             ~InQuiet(w, due'[x] % Day) /\ \A v \in at .. (due'[x] - 1) : InQuiet(w, v % Day)
        /\ WindowsOf(p, n) # {}
    BY <1>4, <1>6, <2>1, ReleaseFits DEF Release
  <2>3. Loud(p, n, due'[x])
    BY <1>9, <2>2 DEF Loud
  <2>4. ASSUME NEW t \in at .. (due'[x] - 1) PROVE ~Loud(p, n, t)
    <3>1. t \in Nat
      BY <1>4, <2>2
    <3> QED
      BY <1>9, <2>2, <3>1 DEF Loud
  <2> QED
    BY <1>4, <1>8, <2>2, <2>3, <2>4
<1> QED
  BY <1>10, <1>11

LEMMA SettingsStep ==
  ASSUME SettingsFit, [Next]_vars, NEW c \in Chat, policy'[c] # policy[c]
  PROVE  \E s \in Setting : asks[s].chat = c /\ policy'[c] = Named(policy[c], asks[s])
<1>1. PICK s \in Setting : WriteSetting(s)
  BY DEF Next, vars, settingVars, Link, Bind, SettingStep, ReadSetting, SettingFails, ConsumerStep,
         Fetch, Reject, Duplicate, Select, Admit, Answer, AdmissionFails, Crash, Tick, SenderStep,
         Claim, Acknowledge, Settle, Quarantine
<1>2. /\ spc[s] = "write" /\ Unmoved(s)
      /\ policy' = [policy EXCEPT ![asks[s].chat] = Edited(s)]
  BY <1>1 DEF WriteSetting
<1>3. asks[s].chat = c /\ policy'[c] = Edited(s)
  BY <1>2 DEF SettingsFit
<1> QED
  BY <1>2, <1>3, EditedIsNamed

\* A chat gets a notification once, under the policy of the moment, and the policy
\* is what its commands have made it: no redelivery decides again, a job is due at
\* the first instant its policy does not call quiet, and a command changes what it
\* names (admit_notification, release_time, update_notification_preferences).
THEOREM ByThePolicy == Spec => DecidedByThePolicy
<1>1. ASSUME IInv, [Next]_vars
      PROVE  /\ \A x \in Slot :
                  decision[x] # "none" =>
                    /\ decision'[x] # decision[x] => job'[x] # job[x] /\ job[x] = "sending"
                    /\ job[x] = "absent" => job'[x] = "absent"
  BY <1>1, Parts, OnceStep
<1>2. ASSUME IInv, [Next]_vars
      PROVE  \A x \in Slot :
               job[x] = "absent" /\ job'[x] = "ready" =>
                 LET p == policy[x[2]]
                     loud(t) == (high[x[1]] /\ p.bypass) \/ \A w \in WindowsOf(p, x[1]) : ~OnArc(w, t)
                     arrivals == {view[d].at : d \in {o \in Consumer : pc[o] = "deciding"}}
                 IN /\ p.on
                    /\ loud(due'[x])
                    /\ \E a \in arrivals : a <= due'[x] /\ \A t \in a .. due'[x] - 1 : ~loud(t)
  BY <1>2, Parts, GovernedStep DEF Loud
<1>3. ASSUME IInv, [Next]_vars
      PROVE  \A c \in Chat :
               policy'[c] # policy[c] =>
                 \E s \in Setting :
                   LET a == asks[s] IN
                   /\ a.chat = c
                   /\ policy'[c] = IF a.field \in Class
                                   THEN [policy[c] EXCEPT !.classes[a.field] = a.value]
                                   ELSE [policy[c] EXCEPT ![a.field] = a.value]
  BY <1>3, Parts, SettingsStep DEF Named
<1>4. Spec => DecidedOnce
  BY <1>1, Invariance, PTL DEF Spec, DecidedOnce
<1>5. Spec => GovernedByPolicy
  BY <1>2, Invariance, PTL DEF Spec, GovernedByPolicy
<1>6. Spec => SettingsChangeWhatTheyName
  BY <1>3, Invariance, PTL DEF Spec, SettingsChangeWhatTheyName
<1> QED
  BY <1>4, <1>5, <1>6 DEF DecidedByThePolicy

=============================================================================
