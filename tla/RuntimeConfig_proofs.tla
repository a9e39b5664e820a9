------------------------ MODULE RuntimeConfig_proofs ------------------------
(***************************************************************************)
(* That the service's cache has what is stored, that what a command set is *)
(* stored and told, that a plan is stored before it is made active, and    *)
(* the types, for any number of commands and crashes.                      *)
(***************************************************************************)
EXTENDS RuntimeConfig, SequenceTheorems, TLAPS

Ops == {"persist", "cache", "apply", "flag", "truncate", "write", "load", "edit", "save"}
Names == Stored \cup Params \cup {"params", "multi", "env", "book"}
Programs == Seq(Ops \X Names)

\* In a command's steps each row is stored, then cached, then applied, and the loop is
\* told of a parameter that was applied.
Chained(t) ==
    /\ \A i \in 1 .. Len(t) : t[i][1] = "persist" =>
          i < Len(t) /\ t[i + 1] = << "cache", t[i][2] >> /\ t[i][2] \in Stored
    /\ \A i \in 1 .. Len(t) : t[i][1] = "cache" =>
          i < Len(t) /\ t[i + 1] = << "apply", t[i][2] >> /\ t[i][2] \in Stored
    /\ \A i \in 1 .. Len(t) : i > 1 /\ t[i][1] = "cache" => t[i - 1] = << "persist", t[i][2] >>
    /\ \A i \in 1 .. Len(t) : i > 1 /\ t[i][1] = "apply" /\ t[i][2] \in Stored =>
          t[i - 1] = << "cache", t[i][2] >>
    /\ \A i \in 1 .. Len(t) : t[i][1] = "apply" /\ t[i][2] \in Params =>
          i < Len(t) /\ t[i + 1][1] = "flag"

\* It does not begin in the middle of such a row.
Whole(t) ==
    /\ t \in Programs /\ t # << >> /\ Chained(t)
    /\ t[1][1] # "cache" /\ (t[1][1] = "apply" => t[1][2] \notin Stored)

\* The row the bot's thread is in the middle of.
Midway(op, k) == Op(op) /\ Key = k

ProgramInv ==
    /\ bot.todo \in Programs /\ Chained(bot.todo)
    /\ bot \in [v : Nat, todo : Programs]
    /\ bot.todo # << >> => phase = "run"
    /\ service => \A k \in Stored : Midway("cache", k) \/ Midway("apply", k) => db[k].val = bot.v

\* The cache and what the refresh thread read differ from the store in the row that is
\* being written, and in those whose commit raised.
CacheInv ==
    phase = "run" /\ service => \A k \in Stored \ behind :
        /\ Midway("cache", k) \/ cache[k] = db[k].val
        /\ reader # << >> => Midway("cache", k) \/ reader[k] = db[k].val

HereInv ==
    service => \A k \in here \ unsaid :
        settings[k] = db[k].val \/ Midway("cache", k) \/ Midway("apply", k)

Shape ==
    /\ db \in [Stored -> [val : Nat, ver : Nat]]
    /\ DOMAIN cache = Stored /\ cache \in [Stored -> Nat]
    /\ reader = << >> \/ reader \in [Stored -> Nat]
    /\ reader # << >> => phase = "run"
    /\ settings \in [Keys -> Nat] /\ env \in [Keys -> Nat]
    /\ commands \in Nat /\ here \subseteq Stored
    /\ here # {} => phase = "run"
    /\ unsaid \subseteq Stored /\ behind \subseteq Stored

IInv == Shape /\ ProgramInv /\ CacheInv /\ HereInv

-----------------------------------------------------------------------------
(* The steps of the commands.                                              *)

LEMMA WholeConcat ==
    ASSUME NEW s, NEW t, Whole(s), Whole(t)
    PROVE  Whole(s \o t)
<1>1. /\ s \in Programs /\ t \in Programs /\ Len(s) \in Nat \ {0} /\ Len(t) \in Nat \ {0}
  BY EmptySeq DEF Whole, Programs
<1>2. /\ s \o t \in Programs /\ Len(s \o t) = Len(s) + Len(t)
      /\ \A i \in 1 .. Len(s) + Len(t) : (s \o t)[i] = IF i <= Len(s) THEN s[i] ELSE t[i - Len(s)]
  BY <1>1, ConcatProperties DEF Programs
<1> DEFINE u == s \o t
<1> HIDE DEF u
<1>3. /\ u \in Programs /\ Len(u) = Len(s) + Len(t) /\ u # << >>
      /\ \A i \in 1 .. Len(s) : u[i] = s[i]
      /\ \A i \in 1 .. Len(t) : u[Len(s) + i] = t[i]
  BY <1>1, <1>2, EmptySeq DEF u
<1>4. ASSUME NEW i \in 1 .. Len(u)
      PROVE  /\ u[i][1] = "persist" =>
                   i < Len(u) /\ u[i + 1] = << "cache", u[i][2] >> /\ u[i][2] \in Stored
             /\ u[i][1] = "cache" =>
                   i < Len(u) /\ u[i + 1] = << "apply", u[i][2] >> /\ u[i][2] \in Stored
             /\ i > 1 /\ u[i][1] = "cache" => u[i - 1] = << "persist", u[i][2] >>
             /\ i > 1 /\ u[i][1] = "apply" /\ u[i][2] \in Stored => u[i - 1] = << "cache", u[i][2] >>
             /\ u[i][1] = "apply" /\ u[i][2] \in Params => i < Len(u) /\ u[i + 1][1] = "flag"
  <2>1. CASE i \in 1 .. Len(s)
    <3>1. u[i] = s[i] /\ (i < Len(s) => u[i + 1] = s[i + 1]) /\ (i > 1 => u[i - 1] = s[i - 1])
      BY <1>1, <1>3, <2>1
    <3>2. Len(u) > Len(s)
      BY <1>1, <1>3
    <3> QED
      BY <1>1, <2>1, <3>1, <3>2 DEF Whole, Chained
  <2>2. CASE i \notin 1 .. Len(s)
    <3>1. PICK j \in 1 .. Len(t) : i = Len(s) + j
      <4>1. i - Len(s) \in 1 .. Len(t) /\ i = Len(s) + (i - Len(s))
        BY <1>1, <1>3, <2>2
      <4> QED
        BY <4>1
    <3>2. /\ u[i] = t[j]
          /\ j < Len(t) => i < Len(u) /\ u[i + 1] = t[j + 1]
      <4>1. j < Len(t) => j + 1 \in 1 .. Len(t) /\ i + 1 = Len(s) + (j + 1)
        BY <1>1, <3>1
      <4> QED
        BY <1>1, <1>3, <3>1, <4>1
    <3>3. j > 1 => u[i - 1] = t[j - 1]
      <4>1. j > 1 => j - 1 \in 1 .. Len(t) /\ i - 1 = Len(s) + (j - 1)
        BY <1>1, <3>1
      <4> QED
        BY <1>3, <4>1
    <3>4. j = 1 => u[i][1] # "cache" /\ (u[i][1] = "apply" => u[i][2] \notin Stored)
      BY <3>2 DEF Whole
    <3>5. /\ t[j][1] = "persist" =>
                j < Len(t) /\ t[j + 1] = << "cache", t[j][2] >> /\ t[j][2] \in Stored
          /\ t[j][1] = "cache" =>
                j < Len(t) /\ t[j + 1] = << "apply", t[j][2] >> /\ t[j][2] \in Stored
          /\ j > 1 /\ t[j][1] = "cache" => t[j - 1] = << "persist", t[j][2] >>
          /\ j > 1 /\ t[j][1] = "apply" /\ t[j][2] \in Stored => t[j - 1] = << "cache", t[j][2] >>
          /\ t[j][1] = "apply" /\ t[j][2] \in Params => j < Len(t) /\ t[j + 1][1] = "flag"
      BY DEF Whole, Chained
    <3>6. j = 1 \/ j > 1
      BY <1>1
    <3> QED
      BY <3>2, <3>3, <3>4, <3>5, <3>6
  <2> QED
    BY <2>1, <2>2
<1>5. Chained(u)
  BY <1>4 DEF Chained
<1>6. u[1] = s[1]
  BY <1>1, <1>3
<1>7. Whole(u)
  BY <1>3, <1>5, <1>6 DEF Whole
<1> QED
  BY <1>7 DEF u

LEMMA WholeUpdate ==
    ASSUME NEW k \in Stored
    PROVE  Whole(Update(k))
<1>1. Update(k) = << << "persist", k >>, << "cache", k >>, << "apply", k >> >>
  BY DEF Update
<1> DEFINE u == << << "persist", k >>, << "cache", k >>, << "apply", k >> >>
<1>2. k \in Names /\ k \notin Params
  BY DEF Stored, Params, Names
<1>3. u \in Programs /\ Len(u) = 3 /\ u # << >>
  BY <1>2 DEF Programs, Ops
<1>4. u[1] = << "persist", k >> /\ u[2] = << "cache", k >> /\ u[3] = << "apply", k >>
  OBVIOUS
<1> HIDE DEF u
<1>5. Chained(u)
  BY <1>2, <1>3, <1>4 DEF Chained
<1>6. Whole(u)
  BY <1>3, <1>4, <1>5 DEF Whole
<1> QED
  BY <1>1, <1>6 DEF u

\* One or two steps that store nothing.
LEMMA WholeOne ==
    ASSUME NEW o \in Ops \ {"persist", "cache", "apply"}, NEW k \in Names
    PROVE  Whole(<< << o, k >> >>)
<1> DEFINE u == << << o, k >> >>
<1>1. u \in Programs /\ Len(u) = 1 /\ u # << >> /\ u[1] = << o, k >>
  BY DEF Programs, Ops
<1> HIDE DEF u
<1>2. Whole(u)
  BY <1>1 DEF Whole, Chained
<1> QED
  BY <1>2 DEF u

LEMMA WholeTwo ==
    ASSUME NEW a \in Ops \ {"persist", "cache"}, NEW b \in Ops \ {"persist", "cache", "apply"},
           NEW k \in Names \ Stored, NEW l \in Names, a = "apply" => b = "flag"
    PROVE  Whole(<< << a, k >>, << b, l >> >>)
<1> DEFINE u == << << a, k >>, << b, l >> >>
<1>1. u \in Programs /\ Len(u) = 2 /\ u # << >> /\ u[1] = << a, k >> /\ u[2] = << b, l >>
  BY DEF Programs, Ops
<1> HIDE DEF u
<1>2. Whole(u)
  BY <1>1 DEF Whole, Chained
<1> QED
  BY <1>2 DEF u

LEMMA ScriptsAreWhole == \A c \in DOMAIN Script : Whole(Script[c])
<1>1. Whole(Update("key") \o Update("secret"))
  BY WholeUpdate, WholeConcat DEF Stored
<1>2. Whole(ApplyStrats)
  <2>1. Whole(Update("plan") \o Update("active"))
    BY WholeUpdate, WholeConcat DEF Stored
  <2>2. Whole(<< << "flag", "multi" >> >>)
    BY WholeOne DEF Ops, Names
  <2> QED
    BY <2>1, <2>2, WholeConcat DEF ApplyStrats
<1>4. Whole(<< << "truncate", "env" >>, << "write", "env" >> >>)
  BY WholeTwo DEF Ops, Names, Stored, Params
<1>5. Whole(<< << "load", "env" >> >>)
  BY WholeOne DEF Ops, Names
<1>6. Whole(<< << "edit", "book" >>, << "save", "book" >> >>)
  BY WholeTwo DEF Ops, Names, Stored, Params
<1>7. /\ DOMAIN Script = {"setalpaca", "applystrats", "saveconfig", "loadconfig", "editstrat"}
      /\ Script["setalpaca"] = Update("key") \o Update("secret")
      /\ Script["applystrats"] = ApplyStrats
      /\ Script["saveconfig"] = << << "truncate", "env" >>, << "write", "env" >> >>
      /\ Script["loadconfig"] = << << "load", "env" >> >>
      /\ Script["editstrat"] = << << "edit", "book" >>, << "save", "book" >> >>
  BY DEF Script
<1> QED
  BY <1>1, <1>2, <1>4, <1>5, <1>6, <1>7

LEMMA SetsAreWhole == \A p \in Params : Whole(Set(p))
<1> TAKE p \in Params
<1>1. p \in Names \ Stored /\ "params" \in Names
  BY DEF Names, Params, Stored
<1> QED
  BY <1>1, WholeTwo DEF Set, Ops

-----------------------------------------------------------------------------
(* The invariant.                                                          *)


\* What is left of a command's steps after the first.
LEMMA Rest ==
    ASSUME NEW t \in Programs, Chained(t), Len(t) > 1
    PROVE  /\ Tail(t) \in Programs /\ Tail(t) # << >> /\ Chained(Tail(t))
           /\ Head(Tail(t)) = t[2]
           /\ t[1][1] = "persist" => t[2] = << "cache", t[1][2] >> /\ t[1][2] \in Stored
           /\ t[1][1] = "cache" => t[2] = << "apply", t[1][2] >> /\ t[1][2] \in Stored
           /\ t[2][1] = "cache" => t[1] = << "persist", t[2][2] >>
           /\ t[2][1] = "apply" /\ t[2][2] \in Stored => t[1] = << "cache", t[2][2] >>
           /\ t[1][1] = "apply" /\ t[1][2] \in Params => t[2][1] = "flag"
<1> DEFINE u == Tail(t)
<1>1. Len(t) \in Nat /\ t # << >>
  BY EmptySeq DEF Programs
<1>2. /\ u \in Programs /\ Len(u) = Len(t) - 1
      /\ \A i \in 1 .. Len(u) : u[i] = t[i + 1]
  BY <1>1, HeadTailProperties DEF Programs
<1> HIDE DEF u
<1>3. u # << >> /\ Head(u) = t[2]
  <2>1. Len(u) >= 1 /\ u # << >>
    BY <1>1, <1>2, EmptySeq DEF Programs
  <2>2. Head(u) = u[1]
    BY <1>2, <2>1 DEF Programs
  <2> QED
    BY <1>1, <1>2, <2>1, <2>2
<1>4. Chained(u)
  <2> SUFFICES ASSUME NEW i \in 1 .. Len(u)
               PROVE  /\ u[i][1] = "persist" =>
                            i < Len(u) /\ u[i + 1] = << "cache", u[i][2] >> /\ u[i][2] \in Stored
                      /\ u[i][1] = "cache" =>
                            i < Len(u) /\ u[i + 1] = << "apply", u[i][2] >> /\ u[i][2] \in Stored
                      /\ i > 1 /\ u[i][1] = "cache" => u[i - 1] = << "persist", u[i][2] >>
                      /\ i > 1 /\ u[i][1] = "apply" /\ u[i][2] \in Stored =>
                            u[i - 1] = << "cache", u[i][2] >>
                      /\ u[i][1] = "apply" /\ u[i][2] \in Params => i < Len(u) /\ u[i + 1][1] = "flag"
    BY DEF Chained
  <2>1. i + 1 \in 1 .. Len(t) /\ i + 1 > 1 /\ u[i] = t[i + 1]
    BY <1>1, <1>2
  <2>2. i < Len(u) => u[i + 1] = t[(i + 1) + 1]
    BY <1>1, <1>2
  <2>3. i + 1 < Len(t) <=> i < Len(u)
    BY <1>1, <1>2
  <2>4. i > 1 => u[i - 1] = t[(i + 1) - 1]
    BY <1>1, <1>2
  <2> QED
    BY <1>1, <2>1, <2>2, <2>3, <2>4 DEF Chained
<1>5. /\ 1 \in 1 .. Len(t) /\ 2 \in 1 .. Len(t)
      /\ 1 + 1 = 2 /\ 2 - 1 = 1 /\ 2 > 1
  BY <1>1
<1>6. /\ t[1][1] = "persist" => t[1 + 1] = << "cache", t[1][2] >> /\ t[1][2] \in Stored
      /\ t[1][1] = "cache" => t[1 + 1] = << "apply", t[1][2] >> /\ t[1][2] \in Stored
      /\ t[1][1] = "apply" /\ t[1][2] \in Params => t[1 + 1][1] = "flag"
  BY <1>5 DEF Chained
<1>7. /\ t[2][1] = "cache" => t[2 - 1] = << "persist", t[2][2] >>
      /\ t[2][1] = "apply" /\ t[2][2] \in Stored => t[2 - 1] = << "cache", t[2][2] >>
  BY <1>5 DEF Chained
<1> QED
  BY <1>2, <1>3, <1>4, <1>5, <1>6, <1>7 DEF u

\* What a command that has taken a step has still to do.
LEMMA AfterDone ==
    ASSUME ProgramInv, NEW o, Op(o), Done
    PROVE  /\ bot'.todo \in Programs /\ Chained(bot'.todo) /\ bot' \in [v : Nat, todo : Programs]
           /\ phase = "run"
           /\ o = "persist" => Op("cache")' /\ Key' = Key /\ bot'.v = bot.v /\ Key \in Stored
           /\ o = "cache" => Op("apply")' /\ Key' = Key /\ bot'.v = bot.v /\ Key \in Stored
           /\ o # "persist" => ~ Op("cache")'
           /\ o # "cache" => ~ (Op("apply")' /\ Key' \in Stored)
           /\ o = "apply" /\ Key \in Params => Op("flag")'
<1>1. /\ bot.todo \in Programs /\ bot.todo # << >> /\ Chained(bot.todo)
      /\ Len(bot.todo) \in Nat \ {0}
      /\ Head(bot.todo) = bot.todo[1] /\ bot.todo[1][1] = o /\ Key = bot.todo[1][2]
      /\ phase = "run"
  BY EmptySeq DEF ProgramInv, Op, Key, Programs
<1>2. CASE Len(bot.todo) = 1
  <2>1. bot' = Idle
    BY <1>2 DEF Done
  <2>2. o # "persist" /\ o # "cache"
    BY <1>1, <1>2 DEF Chained
  <2>4. ~ (o = "apply" /\ Key \in Params)
    BY <1>1, <1>2 DEF Chained
  <2>3. Idle.todo \in Programs /\ Chained(Idle.todo) /\ Idle \in [v : Nat, todo : Programs]
    BY DEF Idle, Given, Programs, Chained
  <2> QED
    BY <1>1, <2>1, <2>2, <2>3, <2>4 DEF Op, Idle
<1>3. CASE Len(bot.todo) # 1
  <2>1. bot' = [v |-> bot.v, todo |-> Tail(bot.todo)]
    BY <1>3 DEF Done, ProgramInv
  <2>2. bot'.todo = Tail(bot.todo) /\ bot'.v = bot.v
    BY <2>1
  <2>3. Len(bot.todo) > 1
    <3> DEFINE n == Len(bot.todo)
    <3>1. n \in Nat /\ n # 0 /\ n # 1
      BY <1>1, <1>3
    <3> HIDE DEF n
    <3>2. n > 1
      BY <3>1
    <3> QED
      BY <3>2 DEF n
  <2> DEFINE t == bot.todo
  <2>4. /\ bot'.todo \in Programs /\ bot'.todo # << >> /\ Chained(bot'.todo)
        /\ Head(bot'.todo) = t[2]
        /\ t[1][1] = "persist" => t[2] = << "cache", t[1][2] >> /\ t[1][2] \in Stored
        /\ t[1][1] = "cache" => t[2] = << "apply", t[1][2] >> /\ t[1][2] \in Stored
        /\ t[2][1] = "cache" => t[1] = << "persist", t[2][2] >>
        /\ t[2][1] = "apply" /\ t[2][2] \in Stored => t[1] = << "cache", t[2][2] >>
        /\ t[1][1] = "apply" /\ t[1][2] \in Params => t[2][1] = "flag"
    BY <1>1, <2>2, <2>3, Rest
  <2>5. bot' \in [v : Nat, todo : Programs]
    BY <2>1, <2>2, <2>4 DEF ProgramInv
  <2>6. /\ \A q : Op(q)' <=> t[2][1] = q
        /\ Key' = t[2][2]
    BY <2>4 DEF Op, Key
  <2> HIDE DEF t
  <2>7. t[1][1] = o /\ Key = t[1][2]
    BY <1>1 DEF t
  <2> QED
    BY <1>1, <2>2, <2>4, <2>5, <2>6, <2>7
<1> QED
  BY <1>2, <1>3

-----------------------------------------------------------------------------
(* The invariant holds at the start and after every step.                  *)

LEMMA InvInit == Init => IInv
<1> SUFFICES ASSUME Init PROVE IInv
  OBVIOUS
<1>1. bot.todo = << >> /\ bot.v = 0
  BY DEF Init, Idle, Given
<1>2. ProgramInv
  <2>1. bot.todo \in Programs /\ Chained(bot.todo)
    BY <1>1 DEF Programs, Chained
  <2>2. bot \in [v : Nat, todo : Programs]
    BY <2>1 DEF Init, Idle, Given
  <2> QED
    BY <1>1, <2>1, <2>2 DEF ProgramInv, Midway, Op
<1>3. Shape
  <2>1. Preset \in Nat /\ Given \in Nat /\ 0 \in Nat
    BY ConstantsAssumption DEF Preset, Given
  <2>2. /\ env \in [Keys -> Nat] /\ settings \in [Keys -> Nat] /\ cache \in [Stored -> Nat]
        /\ DOMAIN cache = Stored
    BY <2>1 DEF Init, NoValues
  <2>3. db \in [Stored -> [val : Nat, ver : Nat]]
    BY <2>1 DEF Init, NoRow
  <2> QED
    BY <2>2, <2>3 DEF Init, Shape
<1> QED
  BY <1>2, <1>3 DEF Init, IInv, CacheInv, HereInv

\* A step that leaves the command and the stored values alone.
LEMMA Still ==
    ASSUME IInv, UNCHANGED << phase, service, env, db, settings, cache, reader, bot,
                              commands, here, unsaid, behind >>
    PROVE  IInv'
BY DEF IInv, Shape, ProgramInv, CacheInv, HereInv, Midway, Op, Key

\* A step of a command that does not write a row.
LEMMA Quiet ==
    ASSUME IInv, NEW o \in Ops \ {"persist", "cache", "apply"}, Op(o), Done,
           env' \in [Keys -> Nat],
           UNCHANGED << phase, service, db, settings, cache, reader, commands, here, unsaid, behind >>
    PROVE  IInv'
<1>1. /\ bot'.todo \in Programs /\ Chained(bot'.todo) /\ bot' \in [v : Nat, todo : Programs]
      /\ phase = "run" /\ ~ Op("cache")' /\ ~ (Op("apply")' /\ Key' \in Stored)
  BY AfterDone DEF IInv
<1>2. \A k \in Stored : ~ Midway("cache", k)' /\ ~ Midway("apply", k)'
  BY <1>1 DEF Midway
<1>3. \A k : ~ Midway("cache", k) /\ ~ Midway("apply", k)
  BY DEF Midway, Op
<1>4. Shape'
  BY DEF IInv, Shape
<1>5. ProgramInv'
  BY <1>1, <1>2 DEF ProgramInv
<1>6. CacheInv' /\ HereInv'
  BY <1>3 DEF IInv, CacheInv, HereInv
<1> QED
  BY <1>4, <1>5, <1>6 DEF IInv

\* The process ends.
LEMMA Ends ==
    ASSUME IInv, End, UNCHANGED << env, db, commands >>
    PROVE  IInv'
<1>1. Idle.todo = << >> /\ Idle.v = 0
  BY DEF Idle, Given
<1>2. Idle.todo \in Programs /\ Chained(Idle.todo)
  BY <1>1 DEF Programs, Chained
<1>3. Idle \in [v : Nat, todo : Programs]
  BY <1>2 DEF Idle, Given
<1>4. /\ bot' = Idle /\ reader' = << >> /\ phase' = "down" /\ here' = {}
      /\ unsaid' = {} /\ behind' = {}
      /\ settings' = NoValues(Keys) /\ cache' = NoValues(Stored)
  BY DEF End
<1>5. Shape'
  <2>1. settings' \in [Keys -> Nat] /\ cache' \in [Stored -> Nat]
    BY <1>4 DEF NoValues, Given
  <2> QED
    BY <1>4, <2>1 DEF IInv, Shape
<1>6. ProgramInv'
  BY <1>1, <1>2, <1>3, <1>4 DEF ProgramInv, Midway, Op
<1> QED
  BY <1>4, <1>5, <1>6 DEF IInv, CacheInv, HereInv

\* A command begins with its whole row of steps.
LEMMA BeginStep ==
    ASSUME IInv, NEW t, Whole(t), Begin(t)
    PROVE  IInv'
<1>2. /\ bot' = [v |-> commands + 1, todo |-> t] /\ commands' = commands + 1
      /\ phase' = phase /\ phase = "run"
      /\ UNCHANGED << service, env, db, settings, cache, reader, here, unsaid, behind >>
  BY DEF Begin, disk, history
<1>3. bot'.todo = t /\ bot'.todo \in Programs /\ Chained(bot'.todo)
  BY <1>2 DEF Whole
<1>4. Head(bot'.todo) = t[1]
  BY <1>3 DEF Programs, Whole
<1>5. \A k \in Stored : ~ Midway("cache", k)' /\ ~ Midway("apply", k)'
  BY <1>3, <1>4 DEF Midway, Op, Key, Whole
<1>6. \A k : ~ Midway("cache", k) /\ ~ Midway("apply", k)
  BY DEF Begin, Midway, Op, Idle
<1>7. Shape'
  BY <1>2 DEF IInv, Shape
<1>8. bot' \in [v : Nat, todo : Programs]
  BY <1>2, <1>3 DEF IInv, Shape
<1>9. ProgramInv'
  BY <1>2, <1>3, <1>5, <1>8 DEF ProgramInv
<1> QED
  BY <1>2, <1>6, <1>7, <1>9 DEF IInv, CacheInv, HereInv

LEMMA CommandStep ==
    ASSUME IInv, (\E c \in DOMAIN Script : Command(c)) \/ \E p \in Params : SetCommand(p)
    PROVE  IInv'
BY BeginStep, ScriptsAreWhole, SetsAreWhole DEF Command, SetCommand

LEMMA PersistStep ==
    ASSUME IInv, Persist
    PROVE  IInv'
<1>1. /\ Op("persist")
      /\ UNCHANGED << phase, service, env, settings, cache, reader, commands, here >>
  BY DEF Persist, bounds
<1>2. \A k : ~ Midway("cache", k) /\ ~ Midway("apply", k)
  BY <1>1 DEF Midway, Op
<1>3. bot.v \in Nat /\ db \in [Stored -> [val : Nat, ver : Nat]] /\ Key \in Stored
  <2>1. /\ bot.todo \in Programs /\ bot.todo # << >> /\ Chained(bot.todo)
        /\ bot.todo[1] = Head(bot.todo) /\ 1 \in 1 .. Len(bot.todo)
    BY <1>1, EmptySeq DEF IInv, ProgramInv, Op, Programs
  <2>2. Key \in Stored
    BY <1>1, <2>1 DEF Op, Key, Chained
  <2> QED
    BY <2>2 DEF IInv, ProgramInv, Shape
<1>4. ASSUME Row
      PROVE  /\ db' \in [Stored -> [val : Nat, ver : Nat]] /\ db'[Key].val = bot.v
             /\ \A k \in Stored \ {Key} : db'[k] = db[k]
  BY <1>3, <1>4 DEF Row
<1>5. ASSUME Done
      PROVE  /\ bot'.todo \in Programs /\ Chained(bot'.todo) /\ bot' \in [v : Nat, todo : Programs]
             /\ phase = "run" /\ bot'.v = bot.v
             /\ \A k : Midway("cache", k)' <=> k = Key
             /\ \A k : ~ Midway("apply", k)'
  <2>1. /\ bot'.todo \in Programs /\ Chained(bot'.todo) /\ bot' \in [v : Nat, todo : Programs]
        /\ phase = "run" /\ Op("cache")' /\ Key' = Key /\ bot'.v = bot.v
    BY <1>1, <1>5, AfterDone DEF IInv
  <2> QED
    BY <2>1 DEF Midway, Op
<1>6. ASSUME bot' = Idle
      PROVE  /\ bot'.todo \in Programs /\ Chained(bot'.todo) /\ bot' \in [v : Nat, todo : Programs]
             /\ bot'.todo = << >>
             /\ \A k : ~ Midway("cache", k)' /\ ~ Midway("apply", k)'
  <2>1. Idle.todo = << >> /\ Idle.v = 0
    BY DEF Idle, Given
  <2>2. Idle.todo \in Programs /\ Chained(Idle.todo)
    BY <2>1 DEF Programs, Chained
  <2>3. Idle \in [v : Nat, todo : Programs]
    BY <2>2 DEF Idle, Given
  <2> QED
    BY <1>6, <2>1, <2>2, <2>3 DEF Midway, Op
<1>7. CASE service /\ Row /\ Done /\ UNCHANGED << unsaid, behind >>
  <2>1. Shape'
    BY <1>1, <1>4, <1>7 DEF IInv, Shape
  <2>2. ProgramInv'
    BY <1>1, <1>4, <1>5, <1>7 DEF ProgramInv
  <2>3. CacheInv'
    BY <1>1, <1>2, <1>4, <1>5, <1>7 DEF IInv, CacheInv
  <2>4. HereInv'
    BY <1>1, <1>2, <1>4, <1>5, <1>7, <2>1 DEF IInv, HereInv, Shape
  <2> QED
    BY <2>1, <2>2, <2>3, <2>4 DEF IInv
<1>8. CASE service /\ bot' = Idle /\ UNCHANGED << db, unsaid, behind >>
  <2>1. Shape'
    BY <1>1, <1>8 DEF IInv, Shape
  <2>2. ProgramInv'
    BY <1>6, <1>8 DEF ProgramInv
  <2> QED
    BY <1>1, <1>2, <1>8, <2>1, <2>2 DEF IInv, CacheInv, HereInv
<1>9. CASE /\ service /\ Row /\ bot' = Idle
           /\ unsaid' = unsaid \cup {Key} /\ behind' = behind \cup {Key}
  <2>1. Shape'
    BY <1>1, <1>3, <1>4, <1>9 DEF IInv, Shape
  <2>2. ProgramInv'
    BY <1>6, <1>9 DEF ProgramInv
  <2>3. CacheInv'
    BY <1>1, <1>2, <1>4, <1>9 DEF IInv, CacheInv
  <2>4. HereInv'
    BY <1>1, <1>2, <1>4, <1>9, <2>1 DEF IInv, HereInv, Shape
  <2> QED
    BY <2>1, <2>2, <2>3, <2>4 DEF IInv
<1>10. CASE ~service /\ Done /\ UNCHANGED << db, unsaid, behind >>
  <2>1. Shape'
    BY <1>1, <1>10 DEF IInv, Shape
  <2>2. ProgramInv'
    BY <1>1, <1>5, <1>10 DEF ProgramInv
  <2>3. CacheInv' /\ HereInv'
    BY <1>1, <1>10 DEF CacheInv, HereInv
  <2> QED
    BY <2>1, <2>2, <2>3 DEF IInv
<1> QED
  BY <1>7, <1>8, <1>9, <1>10 DEF Persist

LEMMA CachePutStep ==
    ASSUME IInv, CachePut
    PROVE  IInv'
<1>1. /\ Op("cache") /\ Done /\ reader = << >> /\ behind' = behind \ {Key}
      /\ IF service THEN cache' = [cache EXCEPT ![Key] = bot.v] ELSE cache' = cache
      /\ UNCHANGED << phase, service, env, db, settings, reader, commands, here, unsaid >>
  BY DEF CachePut, disk, bounds
<1>2. /\ bot'.todo \in Programs /\ Chained(bot'.todo) /\ bot' \in [v : Nat, todo : Programs]
      /\ phase = "run" /\ Op("apply")' /\ Key' = Key /\ bot'.v = bot.v /\ Key \in Stored
  BY <1>1, AfterDone DEF IInv
<1>3. (service => db[Key].val = bot.v) /\ bot.v \in Nat
  BY <1>1, <1>2 DEF IInv, ProgramInv, Midway
<1>4. /\ \A k : Midway("cache", k) <=> k = Key
      /\ \A k : Midway("apply", k)' <=> k = Key
      /\ \A k : ~ Midway("cache", k)' /\ ~ Midway("apply", k)
  BY <1>1, <1>2 DEF Midway, Op
<1>5. cache \in [Stored -> Nat]
  BY DEF IInv, Shape
<1>6. /\ cache' \in [Stored -> Nat] /\ (service => cache'[Key] = bot.v)
      /\ \A k \in Stored \ {Key} : cache'[k] = cache[k]
  BY <1>1, <1>2, <1>3, <1>5
<1>7. Shape'
  BY <1>1, <1>6 DEF IInv, Shape
<1>8. ProgramInv'
  BY <1>1, <1>2, <1>3, <1>4 DEF ProgramInv
<1>9. CacheInv'
  BY <1>1, <1>2, <1>3, <1>4, <1>6 DEF IInv, CacheInv
<1>10. HereInv'
  BY <1>1, <1>3, <1>4 DEF IInv, HereInv
<1> QED
  BY <1>7, <1>8, <1>9, <1>10 DEF IInv

LEMMA ApplyStep ==
    ASSUME IInv, Apply
    PROVE  IInv'
<1>1. /\ Op("apply") /\ Done /\ settings' = [settings EXCEPT ![Key] = bot.v]
      /\ here' = here \cup ({Key} \cap Stored) /\ unsaid' = unsaid \ {Key}
      /\ UNCHANGED << phase, service, env, db, cache, reader, commands, behind >>
  BY DEF Apply, disk, bounds
<1>2. /\ bot'.todo \in Programs /\ Chained(bot'.todo) /\ bot' \in [v : Nat, todo : Programs]
      /\ phase = "run" /\ ~ Op("cache")' /\ ~ (Op("apply")' /\ Key' \in Stored)
  BY <1>1, AfterDone DEF IInv
<1>3. bot.v \in Nat /\ (service /\ Key \in Stored => db[Key].val = bot.v)
  BY <1>1 DEF IInv, ProgramInv, Midway
<1>4. \A k \in Stored : ~ Midway("cache", k)' /\ ~ Midway("apply", k)'
  BY <1>2 DEF Midway
<1>5. \A k : ~ Midway("cache", k) /\ (Midway("apply", k) => k = Key)
  BY <1>1 DEF Midway, Op
<1>6. settings \in [Keys -> Nat] /\ here \subseteq Stored /\ Stored \subseteq Keys
  BY DEF IInv, Shape, Keys
<1>7. /\ settings' \in [Keys -> Nat]
      /\ \A k \in Stored \ {Key} : settings'[k] = settings[k]
      /\ Key \in Stored => settings'[Key] = bot.v
  BY <1>1, <1>3, <1>6
<1>8. Shape'
  BY <1>1, <1>2, <1>6, <1>7 DEF IInv, Shape
<1>9. ProgramInv'
  BY <1>1, <1>2, <1>4 DEF ProgramInv
<1>10. CacheInv'
  BY <1>1, <1>4, <1>5 DEF IInv, CacheInv
<1>11. HereInv'
  <2> SUFFICES ASSUME service, NEW k \in here' \ unsaid' PROVE settings'[k] = db[k].val
    BY <1>1 DEF HereInv
  <2>1. CASE k = Key
    BY <1>1, <1>3, <1>6, <1>7, <2>1
  <2>2. CASE k # Key
    BY <1>1, <1>5, <1>6, <1>7, <2>2 DEF IInv, HereInv
  <2> QED
    BY <2>1, <2>2
<1> QED
  BY <1>8, <1>9, <1>10, <1>11 DEF IInv

LEMMA LoadStep ==
    ASSUME IInv, Load
    PROVE  IInv'
<1>1. /\ Op("load") /\ Done /\ settings' = env /\ here' = {}
      /\ UNCHANGED << phase, service, env, db, cache, reader, commands, unsaid, behind >>
  BY DEF Load, disk, bounds
<1>2. /\ bot'.todo \in Programs /\ Chained(bot'.todo) /\ bot' \in [v : Nat, todo : Programs]
      /\ phase = "run" /\ ~ Op("cache")' /\ ~ (Op("apply")' /\ Key' \in Stored)
  BY <1>1, AfterDone DEF IInv
<1>3. \A k \in Stored : ~ Midway("cache", k)' /\ ~ Midway("apply", k)'
  BY <1>2 DEF Midway
<1>4. \A k : ~ Midway("cache", k)
  BY <1>1 DEF Midway, Op
<1>5. Shape'
  BY <1>1 DEF IInv, Shape
<1>6. ProgramInv'
  BY <1>1, <1>2, <1>3 DEF ProgramInv
<1> QED
  BY <1>1, <1>4, <1>5, <1>6 DEF IInv, CacheInv, HereInv

LEMMA QuietSteps ==
    ASSUME IInv, Flag \/ Truncate \/ Write \/ Edit \/ Save
    PROVE  IInv'
<1>1. env \in [Keys -> Nat] /\ settings \in [Keys -> Nat]
  BY DEF IInv, Shape
<1>2. CASE Flag
  BY <1>1, <1>2, Quiet DEF Flag, disk, bounds, history, Ops
<1>3. CASE Truncate
  <2>1. env' \in [Keys -> Nat]
    BY <1>3, ConstantsAssumption DEF Truncate, Default
  <2> QED
    BY <1>3, <2>1, Quiet DEF Truncate, bounds, history, Ops
<1>4. CASE Write
  <2>1. env' \in [Keys -> Nat]
    BY <1>1, <1>4, ConstantsAssumption DEF Write, Redacted
  <2> QED
    BY <1>4, <2>1, Quiet DEF Write, bounds, history, Ops
<1>5. CASE Edit
  BY <1>1, <1>5, Quiet DEF Edit, bounds, history, Ops
<1>6. CASE Save
  BY <1>1, <1>6, Quiet DEF Save, bounds, history, Ops
<1> QED
  BY <1>2, <1>3, <1>4, <1>5, <1>6

LEMMA RefreshSteps ==
    ASSUME IInv, RefreshRead \/ RefreshAssign
    PROVE  IInv'
<1>1. UNCHANGED << phase, service, env, db, settings, bot, commands, here, unsaid >>
  BY DEF RefreshRead, RefreshAssign, disk, bounds, history
<1>2. \A k : Midway("cache", k)' <=> Midway("cache", k)
  BY <1>1 DEF Midway, Op, Key
<1>3. db \in [Stored -> [val : Nat, ver : Nat]]
  BY DEF IInv, Shape
<1>4. ProgramInv' /\ HereInv'
  BY <1>1 DEF IInv, ProgramInv, HereInv, Midway, Op, Key
<1>5. CASE RefreshRead
  <2>1. /\ reader' = Rows /\ cache' = cache /\ behind' = behind /\ phase = "run"
    BY <1>5 DEF RefreshRead, history
  <2>2. Rows \in [Stored -> Nat] /\ \A k \in Stored : Rows[k] = db[k].val
    BY <1>3 DEF Rows
  <2>3. Shape'
    BY <1>1, <2>1, <2>2 DEF IInv, Shape
  <2>4. CacheInv'
    BY <1>1, <1>2, <2>1, <2>2 DEF IInv, CacheInv
  <2> QED
    BY <1>4, <2>3, <2>4 DEF IInv
<1>6. CASE RefreshAssign
  <2>1. /\ reader # << >> /\ cache' = reader /\ reader' = << >>
        /\ behind' = {k \in behind : reader[k] # db[k].val}
    BY <1>6 DEF RefreshAssign
  <2>2. Shape'
    BY <1>1, <2>1 DEF IInv, Shape
  <2>3. CacheInv'
    BY <1>1, <1>2, <2>1 DEF IInv, CacheInv
  <2> QED
    BY <1>4, <2>2, <2>3 DEF IInv
<1> QED
  BY <1>5, <1>6

LEMMA BootSteps ==
    ASSUME IInv, Boot \/ WithoutService
    PROVE  IInv'
<1>1. /\ phase # "run" /\ bot.todo = << >> /\ reader = << >> /\ here = {}
      /\ UNCHANGED << bot, reader, here, env, commands, unsaid, behind >>
  BY DEF IInv, Shape, ProgramInv, Boot, Start, Seed, Serve, WithoutService, disk, bounds, history
<1>2. ProgramInv'
  BY <1>1 DEF IInv, ProgramInv, Midway, Op
<1>3. HereInv'
  BY <1>1 DEF HereInv
<1>4. db \in [Stored -> [val : Nat, ver : Nat]]
  BY DEF IInv, Shape
<1>5. CASE Start
  <2>1. phase' # "run" /\ UNCHANGED << db, cache >> /\ settings' = env
    BY <1>5 DEF Start, disk
  <2>2. Shape'
    BY <1>1, <2>1 DEF IInv, Shape
  <2> QED
    BY <1>2, <1>3, <2>1, <2>2 DEF IInv, CacheInv
<1>6. ASSUME NEW k \in Seeded, Seed(k) PROVE IInv'
  <2>1. /\ phase' # "run" /\ UNCHANGED << settings, cache >>
        /\ db' = [db EXCEPT ![k] = [val |-> Default, ver |-> 1]]
    BY <1>6 DEF Seed
  <2>2. db' \in [Stored -> [val : Nat, ver : Nat]]
    <3>1. Default \in Nat /\ k \in Stored
      BY ConstantsAssumption DEF Default, Seeded, Stored
    <3>2. [val |-> Default, ver |-> 1] \in [val : Nat, ver : Nat]
      BY <3>1
    <3> QED
      BY <1>4, <2>1, <3>1, <3>2
  <2>3. Shape'
    BY <1>1, <2>1, <2>2 DEF IInv, Shape
  <2> QED
    BY <1>2, <1>3, <2>1, <2>3 DEF IInv, CacheInv
<1>7. CASE Serve
  <2>1. (IF service THEN cache' = Rows ELSE cache' = cache) /\ UNCHANGED << service, db, settings >>
    BY <1>7 DEF Serve, disk, bounds
  <2>2. Rows \in [Stored -> Nat] /\ \A k \in Stored : Rows[k] = db[k].val
    BY <1>4 DEF Rows
  <2>3. Shape'
    BY <1>1, <2>1, <2>2 DEF IInv, Shape
  <2>4. CacheInv'
    BY <1>1, <2>1, <2>2 DEF CacheInv
  <2> QED
    BY <1>2, <1>3, <2>3, <2>4 DEF IInv
<1>8. CASE WithoutService
  <2>1. phase' = "serve" /\ UNCHANGED << db, cache, settings >>
    BY <1>8 DEF WithoutService, disk
  <2>2. Shape'
    BY <1>1, <2>1 DEF IInv, Shape
  <2> QED
    BY <1>2, <1>3, <2>1, <2>2 DEF IInv, CacheInv
<1> QED
  BY <1>5, <1>6, <1>7, <1>8 DEF Boot

LEMMA InvNext == IInv /\ [Next]_vars => IInv'
<1> SUFFICES ASSUME IInv, [Next]_vars PROVE IInv'
  OBVIOUS
<1>1. CASE (\E c \in DOMAIN Script : Command(c)) \/ (\E p \in Params : SetCommand(p))
  BY <1>1, CommandStep
<1>2. CASE Bot
  BY <1>2, PersistStep, CachePutStep, ApplyStep, LoadStep, QuietSteps DEF Bot
<1>3. CASE RefreshRead \/ RefreshAssign
  BY <1>3, RefreshSteps
<1>4. CASE Take \/ Rebuild \/ Trade \/ Pause
  BY <1>4, Still DEF Take, Rebuild, Trade, Pause, disk, bounds, history
<1>5. CASE Raise
  BY <1>5, Ends DEF Raise, disk
<1>6. CASE Crash
  BY <1>6, Ends DEF Crash, disk
<1>7. CASE Boot \/ WithoutService
  BY <1>7, BootSteps
<1>8. CASE UNCHANGED vars
  BY <1>8, Still DEF vars
<1> QED
  BY <1>1, <1>2, <1>3, <1>4, <1>5, <1>6, <1>7, <1>8 DEF Next, Loop

LEMMA Invariant == Spec => []IInv
BY InvInit, InvNext, PTL DEF Spec

\* Whatever the refresh thread read and whenever the process crashed, the cache of the
\* running service has the stored values, but for the row a command is writing and for one
\* whose commit raised, until a refresh (repository.py:114-115, service.py:88-92).
THEOREM CacheHasTheStore == Spec => []CacheFollowsStore
<1>1. IInv => CacheFollowsStore
  BY DEF IInv, CacheInv, CacheFollowsStore, Midway
<1> QED
  BY <1>1, Invariant, PTL

\* Where there is a configuration service, a setting a command of this process changed has
\* the stored value, whichever step of the command fails, but while the command is between
\* the row and the setting and for a row whose commit raised.
THEOREM WhatIsSetIsStored == Spec => []SettingsArePersisted
<1>1. IInv => SettingsArePersisted
  BY DEF IInv, HereInv, SettingsArePersisted, Midway
<1> QED
  BY <1>1, Invariant, PTL

\* The loop has built what is set, or it is going to be told.
TellInv ==
    /\ at # "apply" => taken = {}
    /\ StrategyFollowsSettings

LEMMA TellInit == Init => TellInv
BY DEF Init, TellInv, StrategyFollowsSettings

\* What create_strategy makes has the settings it reads.
LEMMA CreatedReads ==
    ASSUME NEW S
    PROVE  Reads(S) \subseteq Params /\ \A p \in Reads(S) : Created(S)[p] = settings[p]
BY DEF Reads, Created, Params

\* A step that changes none of what the property speaks of.
LEMMA TellStill ==
    ASSUME TellInv, Op("flag") => Op("flag")',
           UNCHANGED << phase, symbols, settings, flags, at, taken, built, reloaded >>
    PROVE  TellInv'
BY DEF TellInv, StrategyFollowsSettings, Follows

LEMMA TellNext == IInv /\ TellInv /\ [Next]_vars => TellInv'
<1> SUFFICES ASSUME IInv, TellInv, [Next]_vars PROVE TellInv'
  OBVIOUS
<1> USE DEF TellInv, StrategyFollowsSettings, Follows
<1>1. ASSUME NEW t, Begin(t) PROVE TellInv'
  <2>1. ~ Op("flag")
    BY <1>1 DEF Begin, Op, Idle
  <2> QED
    BY <1>1, <2>1, TellStill DEF Begin, loopVars, history
<1>2. CASE Persist \/ CachePut \/ Truncate \/ Write \/ Edit \/ Save
  <2>1. ~ Op("flag")
    BY <1>2 DEF Persist, CachePut, Truncate, Write, Edit, Save, Op
  <2> QED
    BY <1>2, <2>1, TellStill DEF Persist, CachePut, Truncate, Write, Edit, Save, loopVars,
                                 bounds, history
<1>3. CASE Apply
  <2>1. /\ ~ Op("flag") /\ Op("apply") /\ Done
        /\ UNCHANGED << phase, symbols, flags, at, taken, built, reloaded >>
    BY <1>3 DEF Apply, Op, loopVars, bounds
  <2>2. CASE Key \in Params
    <3>1. Op("flag")'
      BY <2>1, <2>2, AfterDone DEF IInv
    <3> QED
      BY <2>1, <3>1
  <2>3. CASE Key \notin Params
    <3>1. \A p \in Params : settings'[p] = settings[p]
      BY <1>3, <2>3 DEF Apply, IInv, Shape, Keys
    <3> QED
      BY <2>1, <3>1, CreatedReads
  <2> QED
    BY <2>2, <2>3
<1>4. CASE Flag
  <2>1. "params" \in flags'
    BY <1>4 DEF Flag
  <2> QED
    BY <1>4, <2>1 DEF Flag, loopVars
<1>5. CASE Load
  BY <1>5 DEF Load, loopVars
<1>6. CASE RefreshRead \/ RefreshAssign \/ Trade \/ Pause
  <2>1. Op("flag")' <=> Op("flag")
    BY <1>6 DEF RefreshRead, RefreshAssign, Trade, Pause, Op
  <2> QED
    BY <1>6, <2>1 DEF RefreshRead, RefreshAssign, Trade, Pause, loopVars, bounds, history
<1>7. CASE Take
  <2>1. Op("flag")' <=> Op("flag")
    BY <1>7 DEF Take, Op
  <2> QED
    BY <1>7, <2>1 DEF Take, bounds, history
<1>8. CASE Rebuild
  <2>1. /\ Op("flag")' <=> Op("flag")
        /\ UNCHANGED << phase, symbols, settings, flags >> /\ at' # "apply" /\ taken' = {}
        /\ IF "params" \in taken THEN built' = Created(symbols)
           ELSE UNCHANGED << built, reloaded >>
    BY <1>8 DEF Rebuild, bounds, Op
  <2>2. "params" \in taken => \A p \in Reads(symbols) : built'[p] = settings[p]
    BY <2>1, CreatedReads
  <2> QED
    BY <2>1, <2>2
<1>9. CASE Raise \/ Crash
  BY <1>9 DEF Raise, Crash, End
<1>10. CASE Start \/ (\E k \in Seeded : Seed(k)) \/ WithoutService
  BY <1>10 DEF Start, Seed, WithoutService, loopVars
<1>11. CASE Serve
  <2> DEFINE S == IF "stocks" \in symbols THEN {"stocks"} ELSE symbols
  <2>1. /\ built' = Created(S) /\ UNCHANGED << symbols, settings, at, taken >>
    BY <1>11 DEF Serve, bounds
  <2>2. Reads(symbols) \subseteq Reads(S)
    BY DEF Reads
  <2>3. \A p \in Reads(S) : built'[p] = settings[p]
    BY <2>1, CreatedReads
  <2> QED
    BY <2>1, <2>2, <2>3
<1>12. CASE UNCHANGED vars
  BY <1>12, TellStill DEF vars, Op
<1> QED
  BY <1>1, <1>2, <1>3, <1>4, <1>5, <1>6, <1>7, <1>8, <1>9, <1>10, <1>11, <1>12
     DEF Next, Command, SetCommand, Bot, Loop, Boot

\* The loop's strategy has each parameter it reads as it is set, or a change is on its way
\* to the loop, whenever the settings were not replaced by /loadconfig
\* (telegram_bot.py:115-148, main.py:125-141).
THEOREM ChangesAreAnnounced == Spec => []StrategyFollowsSettings
<1>1. TellInv => StrategyFollowsSettings
  BY DEF TellInv
<1> QED
  BY <1>1, Invariant, TellInit, TellNext, PTL DEF Spec

-----------------------------------------------------------------------------
(* What is stored, and the types.                                          *)

\* A command stores no row twice, and what it sets or tells exists.
Proper(t) ==
    /\ Len(t) <= 7
    /\ \A i \in 1 .. Len(t) : t[i][1] = "apply" => t[i][2] \in Keys
    /\ \A i \in 1 .. Len(t) : t[i][1] = "flag" => t[i][2] \in {"multi", "params"}
    /\ \A i, j \in 1 .. Len(t) : t[i] = t[j] /\ t[i][1] = "persist" => i = j

\* It stores the plan before it makes it active.
PlanFirst(t) ==
    \A i \in 1 .. Len(t) : t[i] = << "persist", "active" >> =>
        \E j \in 1 .. Len(t) : j < i /\ t[j] = << "persist", "plan" >>

LEMMA UpdatesAre ==
    ASSUME NEW k, NEW l
    PROVE  /\ Len(Update(k) \o Update(l)) = 6
           /\ \A i \in 1 .. 6 : (Update(k) \o Update(l))[i] =
                 IF i = 1 THEN << "persist", k >> ELSE IF i = 2 THEN << "cache", k >>
                 ELSE IF i = 3 THEN << "apply", k >> ELSE IF i = 4 THEN << "persist", l >>
                 ELSE IF i = 5 THEN << "cache", l >> ELSE << "apply", l >>
BY DEF Update

LEMMA ApplyStratsIs ==
    /\ Len(ApplyStrats) = 7
    /\ \A i \in 1 .. 7 : ApplyStrats[i] =
          IF i = 1 THEN << "persist", "plan" >> ELSE IF i = 2 THEN << "cache", "plan" >>
          ELSE IF i = 3 THEN << "apply", "plan" >> ELSE IF i = 4 THEN << "persist", "active" >>
          ELSE IF i = 5 THEN << "cache", "active" >> ELSE IF i = 6 THEN << "apply", "active" >>
          ELSE << "flag", "multi" >>
BY DEF ApplyStrats, Update

LEMMA ScriptsAreProper == \A c \in DOMAIN Script : Proper(Script[c]) /\ PlanFirst(Script[c])
<1>1. Proper(Update("key") \o Update("secret")) /\ PlanFirst(Update("key") \o Update("secret"))
  <2> DEFINE u == Update("key") \o Update("secret")
  <2>1. /\ Len(u) = 6
        /\ u[1] = << "persist", "key" >> /\ u[2] = << "cache", "key" >> /\ u[3] = << "apply", "key" >>
        /\ u[4] = << "persist", "secret" >> /\ u[5] = << "cache", "secret" >>
        /\ u[6] = << "apply", "secret" >>
    BY UpdatesAre
  <2> HIDE DEF u
  <2>2. \A i \in 1 .. Len(u) : i \in {1, 2, 3, 4, 5, 6}
    BY <2>1
  <2>3. Proper(u) /\ PlanFirst(u)
    BY <2>1, <2>2 DEF Proper, PlanFirst, Keys, Stored
  <2> QED
    BY <2>3 DEF u
<1>2. Proper(ApplyStrats) /\ PlanFirst(ApplyStrats)
  <2> DEFINE u == ApplyStrats
  <2>1. /\ Len(u) = 7
        /\ u[1] = << "persist", "plan" >> /\ u[2] = << "cache", "plan" >> /\ u[3] = << "apply", "plan" >>
        /\ u[4] = << "persist", "active" >> /\ u[5] = << "cache", "active" >>
        /\ u[6] = << "apply", "active" >> /\ u[7] = << "flag", "multi" >>
    BY ApplyStratsIs
  <2> HIDE DEF u
  <2>2. \A i \in 1 .. Len(u) : i \in {1, 2, 3, 4, 5, 6, 7}
    BY <2>1
  <2>3. Proper(u)
    BY <2>1, <2>2 DEF Proper, Keys, Stored
  <2>4. PlanFirst(u)
    BY <2>1, <2>2 DEF PlanFirst
  <2> QED
    BY <2>3, <2>4 DEF u
<1>3. ASSUME NEW a, NEW b, NEW k, NEW l,
             a \notin {"persist", "apply", "flag"}, b \notin {"persist", "apply", "flag"}
      PROVE  /\ Proper(<< << a, k >>, << b, l >> >>) /\ PlanFirst(<< << a, k >>, << b, l >> >>)
             /\ Proper(<< << a, k >> >>) /\ PlanFirst(<< << a, k >> >>)
  BY <1>3 DEF Proper, PlanFirst
<1>5. /\ DOMAIN Script = {"setalpaca", "applystrats", "saveconfig", "loadconfig", "editstrat"}
      /\ Script["setalpaca"] = Update("key") \o Update("secret")
      /\ Script["applystrats"] = ApplyStrats
      /\ Script["saveconfig"] = << << "truncate", "env" >>, << "write", "env" >> >>
      /\ Script["loadconfig"] = << << "load", "env" >> >>
      /\ Script["editstrat"] = << << "edit", "book" >>, << "save", "book" >> >>
  BY DEF Script
<1>6. /\ Proper(Script["saveconfig"]) /\ PlanFirst(Script["saveconfig"])
      /\ Proper(Script["loadconfig"]) /\ PlanFirst(Script["loadconfig"])
      /\ Proper(Script["editstrat"]) /\ PlanFirst(Script["editstrat"])
  BY <1>3, <1>5
<1> QED
  BY <1>1, <1>2, <1>5, <1>6

LEMMA SetsAreProper == \A p \in Params : Proper(Set(p)) /\ PlanFirst(Set(p))
<1> TAKE p \in Params
<1> DEFINE u == Set(p)
<1>1. /\ Len(u) = 2 /\ u[1] = << "apply", p >> /\ u[2] = << "flag", "params" >> /\ p \in Keys
  BY DEF Set, Keys
<1> HIDE DEF u
<1>2. Proper(u) /\ PlanFirst(u)
  BY <1>1 DEF Proper, PlanFirst
<1> QED
  BY <1>2 DEF u

LEMMA ProperTail ==
    ASSUME NEW t \in Programs, t # << >>, Proper(t)
    PROVE  /\ Proper(Tail(t))
           /\ \A i \in 1 .. Len(Tail(t)) : Tail(t)[i][1] = "persist" => Tail(t)[i] # t[1]
           /\ PlanFirst(t) /\ t[1] # << "persist", "plan" >> => PlanFirst(Tail(t))
<1> DEFINE u == Tail(t)
<1>1. /\ Len(t) \in Nat \ {0} /\ Len(u) = Len(t) - 1
      /\ \A i \in 1 .. Len(u) : u[i] = t[i + 1] /\ i + 1 \in 1 .. Len(t)
  BY EmptySeq DEF Programs
<1> HIDE DEF u
<1>2. Proper(u)
  <2>1. \A i, j \in 1 .. Len(u) : u[i] = u[j] /\ u[i][1] = "persist" => i = j
    BY <1>1 DEF Proper
  <2> QED
    BY <1>1, <2>1 DEF Proper
<1>3. ASSUME NEW i \in 1 .. Len(u), u[i][1] = "persist" PROVE u[i] # t[1]
  <2>1. 1 \in 1 .. Len(t) /\ i + 1 # 1
    BY <1>1
  <2> QED
    BY <1>1, <1>3, <2>1 DEF Proper
<1>4. ASSUME PlanFirst(t), t[1] # << "persist", "plan" >>, NEW i \in 1 .. Len(u),
             u[i] = << "persist", "active" >>
      PROVE  \E j \in 1 .. Len(u) : j < i /\ u[j] = << "persist", "plan" >>
  <2>1. PICK j \in 1 .. Len(t) : j < i + 1 /\ t[j] = << "persist", "plan" >>
    BY <1>1, <1>4 DEF PlanFirst
  <2>2. j # 1
    BY <1>4, <2>1
  <2>3. j - 1 \in 1 .. Len(u) /\ u[j - 1] = t[j] /\ j - 1 < i
    BY <1>1, <2>1, <2>2
  <2> QED
    BY <2>1, <2>3
<1>5. PlanFirst(t) /\ t[1] # << "persist", "plan" >> => PlanFirst(u)
  BY <1>4 DEF PlanFirst
<1> QED
  BY <1>2, <1>3, <1>5 DEF u

\* Each command stores a row once, with its own number: what it is still to store is older,
\* and the plan it is about to make active is stored.
StoredInv ==
    /\ Proper(bot.todo)
    /\ bot = Idle \/ (bot.todo # << >> /\ bot.v = commands /\ commands > 0)
    /\ commands \in 0 .. MaxCommands
    /\ \A k \in Stored : db[k].ver <= commands + 1 /\ db[k].val \in Values
    /\ \A i \in 1 .. Len(bot.todo) : bot.todo[i][1] = "persist" => db[bot.todo[i][2]].ver <= commands
    /\ service => PlanFirst(bot.todo) \/ db["plan"].val = bot.v
    /\ Multi(db["active"].val) => db["plan"].val \in db["active"].val .. commands

LEMMA BoundsAreNat ==
    /\ MaxCommands \in Nat /\ MaxCrashes \in Nat /\ Default = MaxCommands + 2
    /\ Redacted = MaxCommands + 1 /\ Given = 0 /\ Preset = MaxCommands + 3
    /\ Values = 0 .. MaxCommands + 3
    /\ \A v : Multi(v) <=> v \in 1 .. MaxCommands \/ v = Preset
BY ConstantsAssumption DEF Default, Redacted, Given, Preset, Values, Multi, Commands

LEMMA IdleIs ==
    /\ Idle.todo = << >> /\ Idle.v = 0 /\ Len(Idle.todo) = 0
    /\ Proper(Idle.todo) /\ PlanFirst(Idle.todo)
<1>1. Idle.todo = << >> /\ Idle.v = 0 /\ Len(Idle.todo) = 0
  BY DEF Idle, Given
<1> QED
  BY <1>1 DEF Proper, PlanFirst

LEMMA StoredInit == Init => StoredInv
<1> SUFFICES ASSUME Init PROVE StoredInv
  OBVIOUS
<1>1. \A k \in Stored : db[k].ver = 0 /\ db[k].val = 0
  BY DEF Init, NoRow, Given
<1>2. "active" \in Stored /\ bot = Idle /\ commands = 0
  BY DEF Init, Stored
<1> QED
  BY <1>1, <1>2, IdleIs, BoundsAreNat DEF StoredInv

LEMMA StoredStill ==
    ASSUME StoredInv, UNCHANGED << service, db, bot, commands >>
    PROVE  StoredInv'
BY DEF StoredInv

LEMMA StoredEnds ==
    ASSUME StoredInv, bot' = Idle, UNCHANGED << db, commands >>
    PROVE  StoredInv'
BY IdleIs DEF StoredInv

LEMMA TailIs ==
    ASSUME NEW t \in Programs, t # << >>, Len(t) # 1
    PROVE  /\ Tail(t) # << >>
           /\ \A i \in 1 .. Len(Tail(t)) : i + 1 \in 1 .. Len(t) /\ Tail(t)[i] = t[i + 1]
<1>1. /\ Len(t) \in Nat \ {0} /\ Len(Tail(t)) = Len(t) - 1 /\ Tail(t) \in Programs
      /\ \A i \in 1 .. Len(Tail(t)) : Tail(t)[i] = t[i + 1] /\ i + 1 \in 1 .. Len(t)
  BY EmptySeq DEF Programs
<1>2. Len(Tail(t)) # 0
  BY <1>1
<1> QED
  BY <1>1, <1>2, EmptySeq DEF Programs

\* The step a command is at.
LEMMA Current ==
    ASSUME IInv, NEW o, Op(o)
    PROVE  /\ bot.todo \in Programs /\ bot.todo # << >> /\ Len(bot.todo) \in Nat \ {0}
           /\ bot.todo[1] = << o, Key >>
           /\ o = "persist" => Key \in Stored
<1>1. /\ bot.todo \in Programs /\ bot.todo # << >> /\ Len(bot.todo) \in Nat \ {0}
      /\ Head(bot.todo) = bot.todo[1] /\ bot.todo[1][1] = o /\ Key = bot.todo[1][2]
      /\ Chained(bot.todo)
  BY EmptySeq DEF IInv, ProgramInv, Op, Key, Programs
<1>2. 1 \in 1 .. Len(bot.todo)
  BY <1>1
<1>3. bot.todo[1] \in Ops \X Names
  BY <1>1, <1>2 DEF Programs
<1>4. PICK x \in Ops, y \in Names : bot.todo[1] = << x, y >>
  BY <1>3
<1>5. o = "persist" => Key \in Stored
  BY <1>1, <1>2 DEF Chained
<1> QED
  BY <1>1, <1>4, <1>5

\* What is left of a command after a step.
LEMMA LeftAfterDone ==
    ASSUME IInv, StoredInv, NEW o, Op(o), Done
    PROVE  /\ bot.todo \in Programs /\ bot.todo # << >> /\ Len(bot.todo) \in Nat \ {0}
           /\ bot.todo[1] = << o, Key >>
           /\ Proper(bot'.todo)
           /\ bot' = Idle \/ (bot'.todo # << >> /\ bot'.v = bot.v)
           /\ \A i \in 1 .. Len(bot'.todo) : \E j \in 1 .. Len(bot.todo) : bot'.todo[i] = bot.todo[j]
           /\ \A i \in 1 .. Len(bot'.todo) :
                 bot'.todo[i][1] = "persist" => bot'.todo[i] # bot.todo[1]
           /\ PlanFirst(bot.todo) /\ bot.todo[1] # << "persist", "plan" >> => PlanFirst(bot'.todo)
<1>1. /\ bot.todo \in Programs /\ bot.todo # << >> /\ Len(bot.todo) \in Nat \ {0}
      /\ bot.todo[1] = << o, Key >>
  BY Current
<1>2. bot \in [v : Nat, todo : Programs]
  BY DEF IInv, ProgramInv
<1>3. CASE Len(bot.todo) = 1
  <2>1. bot' = Idle
    BY <1>3 DEF Done
  <2> QED
    BY <1>1, <2>1, IdleIs
<1>4. CASE Len(bot.todo) # 1
  <2>1. bot' = [bot EXCEPT !.todo = Tail(bot.todo)]
    BY <1>4 DEF Done
  <2>2. bot'.todo = Tail(bot.todo) /\ bot'.v = bot.v
    BY <1>2, <2>1
  <2>3. /\ Tail(bot.todo) # << >>
        /\ \A i \in 1 .. Len(Tail(bot.todo)) :
              i + 1 \in 1 .. Len(bot.todo) /\ Tail(bot.todo)[i] = bot.todo[i + 1]
    BY <1>1, <1>4, TailIs
  <2> QED
    BY <1>1, <2>2, <2>3, ProperTail DEF StoredInv
<1> QED
  BY <1>3, <1>4

\* A step of a command that stores nothing.
LEMMA StoredDone ==
    ASSUME IInv, StoredInv, NEW o, o # "persist", Op(o), Done,
           UNCHANGED << service, db, commands >>
    PROVE  StoredInv'
<1>1. /\ bot.todo # << >> /\ bot.todo[1] # << "persist", "plan" >>
      /\ Proper(bot'.todo)
      /\ bot' = Idle \/ (bot'.todo # << >> /\ bot'.v = bot.v)
      /\ \A i \in 1 .. Len(bot'.todo) : \E j \in 1 .. Len(bot.todo) : bot'.todo[i] = bot.todo[j]
      /\ PlanFirst(bot.todo) => PlanFirst(bot'.todo)
  BY LeftAfterDone
<1>2. bot # Idle
  BY <1>1, IdleIs
<1>3. bot' = Idle \/ (bot'.todo # << >> /\ bot'.v = commands /\ commands > 0)
  BY <1>1, <1>2 DEF StoredInv
<1>4. service => PlanFirst(bot'.todo) \/ db["plan"].val = bot'.v
  BY <1>1, IdleIs DEF StoredInv
<1> QED
  BY <1>1, <1>3, <1>4 DEF StoredInv

\* A row that is written.
LEMMA StoredRow ==
    ASSUME IInv, StoredInv, Op("persist"), service, Row, UNCHANGED commands
    PROVE  /\ bot.v = commands /\ commands \in 1 .. MaxCommands /\ Key \in Stored
           /\ db'[Key].val = commands /\ \A k \in Stored \ {Key} : db'[k] = db[k]
           /\ \A k \in Stored : db'[k].ver <= commands + 1 /\ db'[k].val \in Values
           /\ Multi(db'["active"].val) => db'["plan"].val \in db'["active"].val .. commands
<1>1. /\ bot.todo \in Programs /\ bot.todo # << >> /\ Len(bot.todo) \in Nat \ {0}
      /\ bot.todo[1] = << "persist", Key >> /\ Key \in Stored
  BY Current
<1>2. bot.v = commands /\ commands \in 1 .. MaxCommands
  BY <1>1, IdleIs, BoundsAreNat DEF StoredInv
<1>3. db[Key].ver <= commands
  <2>1. 1 \in 1 .. Len(bot.todo) /\ bot.todo[1][1] = "persist" /\ bot.todo[1][2] = Key
    BY <1>1
  <2> QED
    BY <2>1 DEF StoredInv
<1>4. /\ db'[Key].val = commands /\ db'[Key].ver = db[Key].ver + 1
      /\ \A k \in Stored \ {Key} : db'[k] = db[k]
      /\ \A k \in Stored : db[k].ver \in Nat /\ db[k].val \in Nat
  BY <1>1, <1>2 DEF IInv, Shape, Row
<1>5. \A k \in Stored : db'[k].ver <= commands + 1 /\ db'[k].val \in Values
  BY <1>2, <1>3, <1>4, BoundsAreNat DEF StoredInv
<1>6. Multi(db'["active"].val) => db'["plan"].val \in db'["active"].val .. commands
  <2>1. CASE Key = "active"
    <3>1. ~ PlanFirst(bot.todo)
      <4>1. 1 \in 1 .. Len(bot.todo) /\ ~ \E j \in 1 .. Len(bot.todo) : j < 1
        BY <1>1
      <4> QED
        BY <1>1, <2>1, <4>1 DEF PlanFirst
    <3>2. db["plan"].val = commands
      BY <1>2, <3>1 DEF StoredInv
    <3> QED
      BY <1>2, <1>4, <2>1, <3>2 DEF Stored
  <2>2. CASE Key = "plan"
    <3>1. "active" \in Stored /\ "active" # Key
      BY <2>2 DEF Stored
    <3>2. db'["active"] = db["active"] /\ db["active"].val \in Nat
      BY <1>4, <3>1
    <3>3. db'["plan"].val = commands /\ commands \in Nat
      BY <1>2, <1>4, <2>2, BoundsAreNat
    <3>4. Multi(db["active"].val) => db["plan"].val \in db["active"].val .. commands
      BY DEF StoredInv
    <3>5. Multi(db["active"].val) => db["active"].val <= commands
      BY <3>2, <3>3, <3>4
    <3> QED
      BY <3>2, <3>3, <3>5
  <2>3. CASE Key \notin {"plan", "active"}
    <3>1. db'["plan"] = db["plan"] /\ db'["active"] = db["active"]
      BY <1>4, <2>3 DEF Stored
    <3> QED
      BY <3>1 DEF StoredInv
  <2> QED
    BY <2>1, <2>2, <2>3
<1> QED
  BY <1>1, <1>2, <1>4, <1>5, <1>6

LEMMA StoredPersist == ASSUME IInv, StoredInv, Persist PROVE StoredInv'
<1>1. Op("persist") /\ commands' = commands /\ service' = service
  BY DEF Persist, bounds
<1>2. CASE bot' = Idle /\ UNCHANGED db
  BY <1>1, <1>2, StoredEnds
<1>3. CASE service /\ Row /\ bot' = Idle
  BY <1>1, <1>3, StoredRow, IdleIs, BoundsAreNat DEF StoredInv
<1>4. ASSUME Done
      PROVE  /\ bot.todo # << >> /\ bot.todo[1] = << "persist", Key >>
             /\ Proper(bot'.todo) /\ bot'.todo \in Programs /\ Chained(bot'.todo)
             /\ bot' = Idle \/ (bot'.todo # << >> /\ bot'.v = commands /\ commands > 0)
             /\ \A i \in 1 .. Len(bot'.todo) : \E j \in 1 .. Len(bot.todo) : bot'.todo[i] = bot.todo[j]
             /\ \A i \in 1 .. Len(bot'.todo) :
                   bot'.todo[i][1] = "persist" => bot'.todo[i] # bot.todo[1]
             /\ PlanFirst(bot.todo) /\ bot.todo[1] # << "persist", "plan" >> => PlanFirst(bot'.todo)
  <2>1. /\ bot.todo # << >> /\ bot.todo[1] = << "persist", Key >>
        /\ Proper(bot'.todo)
        /\ bot' = Idle \/ (bot'.todo # << >> /\ bot'.v = bot.v)
        /\ \A i \in 1 .. Len(bot'.todo) : \E j \in 1 .. Len(bot.todo) : bot'.todo[i] = bot.todo[j]
        /\ \A i \in 1 .. Len(bot'.todo) :
              bot'.todo[i][1] = "persist" => bot'.todo[i] # bot.todo[1]
        /\ PlanFirst(bot.todo) /\ bot.todo[1] # << "persist", "plan" >> => PlanFirst(bot'.todo)
    BY <1>1, <1>4, LeftAfterDone
  <2>2. bot'.todo \in Programs /\ Chained(bot'.todo)
    BY <1>1, <1>4, AfterDone DEF IInv
  <2>3. bot.v = commands /\ commands > 0
    BY <2>1, IdleIs DEF StoredInv
  <2> QED
    BY <2>1, <2>2, <2>3
<1>5. CASE ~service /\ Done /\ UNCHANGED db
  <2>1. \A i \in 1 .. Len(bot'.todo) :
            bot'.todo[i][1] = "persist" => db[bot'.todo[i][2]].ver <= commands
    BY <1>4, <1>5 DEF StoredInv
  <2> QED
    BY <1>1, <1>4, <1>5, <2>1 DEF StoredInv
<1>6. CASE service /\ Row /\ Done
  <2>1. /\ bot.v = commands /\ commands \in 1 .. MaxCommands /\ Key \in Stored
        /\ db'[Key].val = commands /\ \A k \in Stored \ {Key} : db'[k] = db[k]
        /\ \A k \in Stored : db'[k].ver <= commands + 1 /\ db'[k].val \in Values
        /\ Multi(db'["active"].val) => db'["plan"].val \in db'["active"].val .. commands
    BY <1>1, <1>6, StoredRow
  <2>2. ASSUME NEW i \in 1 .. Len(bot'.todo), bot'.todo[i][1] = "persist"
        PROVE  db'[bot'.todo[i][2]].ver <= commands
    <3>1. bot'.todo[i] \in Ops \X Names /\ bot'.todo[i][2] \in Stored
      BY <1>4, <1>6, <2>2 DEF Programs, Chained
    <3>2. bot'.todo[i] = << "persist", bot'.todo[i][2] >>
      BY <2>2, <3>1
    <3>3. bot'.todo[i][2] # Key
      BY <1>4, <1>6, <2>2, <3>2
    <3>4. PICK j \in 1 .. Len(bot.todo) : bot'.todo[i] = bot.todo[j]
      BY <1>4, <1>6
    <3>5. db[bot'.todo[i][2]].ver <= commands
      BY <2>2, <3>4 DEF StoredInv
    <3> QED
      BY <2>1, <3>1, <3>3, <3>5
  <2>3. PlanFirst(bot'.todo) \/ db'["plan"].val = bot'.v
    <3>1. CASE Key = "plan"
      BY <1>4, <1>6, <2>1, <3>1, IdleIs
    <3>2. CASE Key # "plan"
      <4>1. db'["plan"] = db["plan"]
        BY <2>1, <3>2 DEF Stored
      <4>2. bot.todo[1] # << "persist", "plan" >>
        BY <1>4, <1>6, <3>2
      <4> QED
        BY <1>4, <1>6, <2>1, <4>1, <4>2, IdleIs DEF StoredInv
    <3> QED
      BY <3>1, <3>2
  <2> QED
    BY <1>1, <1>4, <1>6, <2>1, <2>2, <2>3, BoundsAreNat DEF StoredInv
<1> QED
  BY <1>2, <1>3, <1>5, <1>6 DEF Persist

LEMMA StoredBegin ==
    ASSUME IInv, StoredInv, NEW t, Proper(t), PlanFirst(t), Whole(t), Begin(t)
    PROVE  StoredInv'
<1>1. /\ bot' = [v |-> commands + 1, todo |-> t] /\ commands' = commands + 1
      /\ commands < MaxCommands /\ db' = db
  BY DEF Begin, disk
<1>2. bot'.v = commands' /\ bot'.todo = t
  BY <1>1
<1>3. commands \in Nat /\ commands' \in 0 .. MaxCommands /\ commands' > 0
  BY <1>1, BoundsAreNat DEF StoredInv
<1>4. \A k \in Stored : db[k].ver \in Nat /\ db[k].val \in Nat /\ db[k].ver <= commands'
  BY <1>1, <1>3 DEF StoredInv, IInv, Shape
<1>5. \A i \in 1 .. Len(bot'.todo) : bot'.todo[i][1] = "persist" => db[bot'.todo[i][2]].ver <= commands'
  BY <1>2, <1>4 DEF Whole, Chained
<1>6. Multi(db["active"].val) => db["plan"].val \in db["active"].val .. commands'
  BY <1>1, <1>3, <1>4, BoundsAreNat DEF StoredInv, Stored
<1>7. bot'.todo # << >>
  BY <1>2 DEF Whole
<1>8. \A k \in Stored : db[k].ver <= commands' + 1
  BY <1>3, <1>4
<1> QED
  BY <1>1, <1>2, <1>3, <1>5, <1>6, <1>7, <1>8 DEF StoredInv

LEMMA StoredSeed == ASSUME IInv, StoredInv, NEW k \in Seeded, Seed(k) PROVE StoredInv'
<1>1. /\ phase = "seed" /\ db[k] = NoRow /\ k \in Stored
      /\ db' = [db EXCEPT ![k] = [val |-> Default, ver |-> 1]]
      /\ UNCHANGED << bot, commands >>
  BY DEF Seed, bounds, Seeded, Stored
<1>2. bot.todo = << >>
  BY <1>1 DEF IInv, ProgramInv
<1>3. bot = Idle
  BY <1>2 DEF StoredInv
<1>4. /\ db'[k].val = Default /\ db'[k].ver = 1 /\ \A j \in Stored \ {k} : db'[j] = db[j]
      /\ db[k].val = 0
  BY <1>1 DEF IInv, Shape, NoRow, Given
<1>5. \A j \in Stored : db'[j].ver <= commands + 1 /\ db'[j].val \in Values
  BY <1>4, BoundsAreNat DEF StoredInv
<1>6. Multi(db'["active"].val) => db'["plan"].val \in db'["active"].val .. commands
  <2>1. CASE k = "active"
    BY <1>4, <2>1, BoundsAreNat
  <2>2. CASE k = "plan"
    <3>1. ~ Multi(db["active"].val)
      BY <1>4, <2>2, BoundsAreNat DEF StoredInv
    <3> QED
      BY <1>4, <2>2, <3>1 DEF Stored
  <2> QED
    BY <2>1, <2>2 DEF Seeded
<1> QED
  BY <1>1, <1>2, <1>3, <1>5, <1>6, IdleIs DEF StoredInv

LEMMA StoredNext == IInv /\ StoredInv /\ [Next]_vars => StoredInv'
<1> SUFFICES ASSUME IInv, StoredInv, [Next]_vars PROVE StoredInv'
  OBVIOUS
<1>1. CASE (\E c \in DOMAIN Script : Command(c)) \/ (\E p \in Params : SetCommand(p))
  BY <1>1, StoredBegin, ScriptsAreProper, ScriptsAreWhole, SetsAreProper, SetsAreWhole
     DEF Command, SetCommand
<1>2. CASE Persist
  BY <1>2, StoredPersist
<1>3. CASE CachePut \/ Apply \/ Flag \/ Truncate \/ Write \/ Load \/ Edit \/ Save
  <2>1. \E o : o # "persist" /\ Op(o) /\ Done
    BY <1>3 DEF CachePut, Apply, Flag, Truncate, Write, Load, Edit, Save
  <2>2. UNCHANGED << service, db, commands >>
    BY <1>3 DEF CachePut, Apply, Flag, Truncate, Write, Load, Edit, Save, disk, bounds
  <2> QED
    BY <2>1, <2>2, StoredDone
<1>4. CASE RefreshRead \/ RefreshAssign \/ Take \/ Rebuild \/ Trade \/ Pause \/ Serve
  BY <1>4, StoredStill DEF RefreshRead, RefreshAssign, Take, Rebuild, Trade, Pause, Serve,
                           disk, bounds
<1>5. CASE Raise \/ Crash
  BY <1>5, StoredEnds DEF Raise, Crash, End, disk, bounds
<1>6. ASSUME NEW k \in Seeded, Seed(k) PROVE StoredInv'
  BY <1>6, StoredSeed
<1>7. CASE Start \/ WithoutService
  <2>1. bot' = bot /\ phase # "run" /\ UNCHANGED << db, commands >>
    BY <1>7 DEF Start, WithoutService, disk
  <2>2. bot = Idle
    BY <2>1 DEF IInv, ProgramInv, StoredInv
  <2> QED
    BY <2>1, <2>2, StoredEnds
<1>8. CASE UNCHANGED vars
  BY <1>8, StoredStill DEF vars
<1> QED
  BY <1>1, <1>2, <1>3, <1>4, <1>5, <1>6, <1>7, <1>8 DEF Next, Bot, Loop, Boot

\* /applystrats stores the plan before the strategy that trades by it (telegram_config_commands.py:1079),
\* a commit for each: wherever it fails or the process ends, the database never says "multi"
\* without a plan stored by that command or a later one.
THEOREM PlanIsStoredFirst == Spec => []PlanBeforeActive
<1>1. StoredInv => PlanBeforeActive
  BY BoundsAreNat DEF StoredInv, PlanBeforeActive
<1> QED
  BY <1>1, Invariant, StoredInit, StoredNext, PTL DEF Spec

SettingsInv ==
    /\ phase \in {"down", "seed", "serve", "run"} /\ at \in {"top", "apply", "trade"}
    /\ {service, multi, paused, reloaded} \subseteq BOOLEAN
    /\ symbols \in SUBSET {"stocks", "crypto"}
    /\ env \in [Keys -> Values] /\ settings \in [Keys -> Values]
    /\ cache \in [Stored -> Values] /\ (reader = << >> \/ reader \in [Stored -> Values])
    /\ book \in SUBSET Strategies /\ (bookFile = Torn \/ bookFile \in SUBSET Strategies)
    /\ flags \subseteq {"multi", "params"} /\ taken \subseteq {"multi", "params"}
    /\ {built, slots} \subseteq [Params -> Values]
    /\ crashes \in 0 .. MaxCrashes

LEMMA SettingsInit == Init => SettingsInv
<1> SUFFICES ASSUME Init PROVE SettingsInv
  OBVIOUS
<1>1. Given \in Values /\ Preset \in Values /\ 0 \in 0 .. MaxCrashes
  BY BoundsAreNat
<1>2. /\ env \in [Keys -> Values] /\ settings \in [Keys -> Values] /\ cache \in [Stored -> Values]
      /\ {built, slots} \subseteq [Params -> Values]
  BY <1>1 DEF Init, NoValues
<1> QED
  BY <1>1, <1>2 DEF Init, SettingsInv

\* What a command is about to write, and where.
LEMMA SettingsWritten ==
    ASSUME IInv, StoredInv, bot.todo # << >>
    PROVE  /\ bot.v \in Values
           /\ Op("cache") => Key \in Stored
           /\ Op("apply") => Key \in Keys
           /\ Op("flag") => Key \in {"multi", "params"}
<1>1. /\ bot.todo \in Programs /\ Chained(bot.todo) /\ Head(bot.todo) = bot.todo[1]
      /\ 1 \in 1 .. Len(bot.todo)
  BY EmptySeq DEF IInv, ProgramInv, Programs
<1>2. bot.v \in Values
  BY IdleIs, BoundsAreNat DEF StoredInv
<1> QED
  BY <1>1, <1>2 DEF Op, Key, Chained, StoredInv, Proper

LEMMA SettingsOfBot == ASSUME IInv, StoredInv, SettingsInv, Bot PROVE SettingsInv'
<1> USE DEF SettingsInv
<1>1. /\ bot.todo # << >>
      /\ UNCHANGED << phase, service, symbols, multi, at, paused, reader, taken, built, slots,
                      crashes >>
  BY DEF Bot, Persist, CachePut, Apply, Flag, Truncate, Write, Load, Edit, Save, Op, disk,
         loopVars, bounds
<1>2. CASE Persist
  BY <1>1, <1>2 DEF Persist
<1>3. CASE CachePut
  <2>1. cache' \in [Stored -> Values]
    BY <1>1, <1>3, SettingsWritten DEF CachePut
  <2> QED
    BY <1>1, <1>3, <2>1 DEF CachePut, disk
<1>4. CASE Apply
  <2>1. settings' \in [Keys -> Values]
    BY <1>1, <1>4, SettingsWritten DEF Apply
  <2> QED
    BY <1>1, <1>4, <2>1 DEF Apply, disk
<1>5. CASE Flag
  <2>1. flags' \subseteq {"multi", "params"}
    BY <1>1, <1>5, SettingsWritten DEF Flag
  <2> QED
    BY <1>1, <1>5, <2>1 DEF Flag, disk, history
<1>6. CASE Truncate \/ Write
  <2>1. Default \in Values /\ Redacted \in Values
    BY BoundsAreNat
  <2>2. env' \in [Keys -> Values]
    BY <1>6, <2>1 DEF Truncate, Write
  <2> QED
    BY <1>1, <1>6, <2>2 DEF Truncate, Write, history
<1>7. CASE Load
  <2>1. {service, multi, paused, TRUE} \subseteq BOOLEAN
    OBVIOUS
  <2> QED
    BY <1>1, <1>7, <2>1 DEF Load, disk
<1>8. CASE Edit \/ Save
  BY <1>1, <1>8 DEF Edit, Save, history
<1> QED
  BY <1>2, <1>3, <1>4, <1>5, <1>6, <1>7, <1>8 DEF Bot

\* The parameters a strategy is made with.
LEMMA CreatedIs ==
    ASSUME SettingsInv, NEW S
    PROVE  Created(S) \in [Params -> Values]
BY BoundsAreNat DEF SettingsInv, Created, Keys

LEMMA SettingsOfLoop ==
    ASSUME IInv, StoredInv, SettingsInv, RefreshRead \/ RefreshAssign \/ Take \/ Rebuild \/ Trade \/ Pause
    PROVE  SettingsInv'
<1> USE DEF SettingsInv
<1>1. /\ {service, multi, paused, FALSE} \subseteq BOOLEAN
      /\ {service, multi, ~paused, reloaded} \subseteq BOOLEAN
  OBVIOUS
<1>2. CASE RefreshRead
  <2>1. reader' \in [Stored -> Values]
    BY <1>2 DEF RefreshRead, Rows, StoredInv
  <2> QED
    BY <1>2, <2>1 DEF RefreshRead, disk, loopVars, bounds, history
<1>3. CASE RefreshAssign
  BY <1>3 DEF RefreshAssign, disk, loopVars, bounds
<1>4. CASE Take
  BY <1>4 DEF Take, disk, bounds, history
<1>5. CASE Rebuild
  <2>1. {built', slots} \subseteq [Params -> Values]
    BY <1>5, CreatedIs DEF Rebuild
  <2> QED
    BY <1>1, <1>5, <2>1 DEF Rebuild, disk, bounds
<1>6. CASE Trade \/ Pause
  BY <1>1, <1>6 DEF Trade, Pause, disk, bounds, history
<1> QED
  BY <1>2, <1>3, <1>4, <1>5, <1>6

LEMMA SettingsOfBoot ==
    ASSUME StoredInv, SettingsInv, Boot \/ WithoutService \/ Raise \/ Crash
    PROVE  SettingsInv'
<1> USE DEF SettingsInv
<1>1. CASE Raise \/ Crash
  <2>1. {TRUE, FALSE} \subseteq BOOLEAN /\ {} \in SUBSET Strategies
    OBVIOUS
  <2>2. crashes' \in 0 .. MaxCrashes
    BY <1>1, BoundsAreNat DEF Raise, Crash
  <2>3. /\ NoValues(Keys) \in [Keys -> Values] /\ NoValues(Stored) \in [Stored -> Values]
        /\ NoValues(Params) \in [Params -> Values]
    BY BoundsAreNat DEF NoValues
  <2> QED
    BY <1>1, <2>1, <2>2, <2>3 DEF Raise, Crash, End, disk
<1>2. CASE Start
  BY <1>2 DEF Start, disk, loopVars, history
<1>3. ASSUME NEW k \in Seeded, Seed(k) PROVE SettingsInv'
  BY <1>3 DEF Seed, loopVars, bounds, history
<1>4. CASE Serve
  <2>1. cache' \in [Stored -> Values]
    BY <1>4 DEF Serve, Rows, StoredInv
  <2>2. {built', slots'} \subseteq [Params -> Values]
    BY <1>4, CreatedIs DEF Serve
  <2>3. multi' \in BOOLEAN
    BY <1>4 DEF Serve, Multi
  <2> QED
    BY <1>4, <2>1, <2>2, <2>3 DEF Serve, disk, bounds, history
<1>5. CASE WithoutService
  BY <1>5 DEF WithoutService, disk, loopVars, history
<1> QED
  BY <1>1, <1>2, <1>3, <1>4, <1>5 DEF Boot

LEMMA SettingsNext == IInv /\ StoredInv /\ SettingsInv /\ [Next]_vars => SettingsInv'
<1> SUFFICES ASSUME IInv, StoredInv, SettingsInv, [Next]_vars PROVE SettingsInv'
  OBVIOUS
<1>1. ASSUME NEW t, Begin(t) PROVE SettingsInv'
  BY <1>1 DEF Begin, SettingsInv, disk, loopVars, history
<1>2. CASE UNCHANGED vars
  BY <1>2 DEF vars, SettingsInv
<1> QED
  BY <1>1, <1>2, SettingsOfBot, SettingsOfLoop, SettingsOfBoot DEF Next, Loop, Command, SetCommand

\* Every variable keeps its type: only values some command set, the redacted one and the
\* default are ever stored or set, each row at most once by each command, and the loop is
\* told of nothing but parameters and strategies.
THEOREM TypeCorrect == Spec => []TypeOK
<1>1. IInv /\ StoredInv /\ SettingsInv => TypeOK
  <2> SUFFICES ASSUME IInv, StoredInv, SettingsInv PROVE TypeOK
    OBVIOUS
  <2>1. db \in [Stored -> [val : Values, ver : 0 .. MaxCommands + 1]]
    <3>1. \A k \in Stored : db[k] \in [val : Nat, ver : Nat]
      BY DEF IInv, Shape
    <3>2. \A k \in Stored : db[k] \in [val : Values, ver : 0 .. MaxCommands + 1]
      BY <3>1, BoundsAreNat DEF StoredInv
    <3> QED
      BY <3>2 DEF IInv, Shape
  <2>2. bot.v \in 0 .. MaxCommands /\ Len(bot.todo) <= 7
    BY IdleIs, BoundsAreNat DEF StoredInv, Proper
  <2>3. {here, unsaid, behind} \subseteq SUBSET Stored /\ commands \in 0 .. MaxCommands
    BY DEF IInv, Shape, StoredInv
  <2> QED
    BY <2>1, <2>2, <2>3 DEF SettingsInv, TypeOK
<1> QED
  BY <1>1, Invariant, StoredInit, StoredNext, SettingsInit, SettingsNext, PTL DEF Spec
=============================================================================
