--------------------------- MODULE ServicesProofs ---------------------------
(***************************************************************************)
(* The other parts of Services, for any number of requests, servers and    *)
(* files: templates, todos, schedules, broadcasts, the response cache,     *)
(* notices, the tools that write files, the test runs, the stored          *)
(* conversation and the budget alerts.  What TLC checks of several parts   *)
(* under one name is proved here of each.                                  *)
(***************************************************************************)
EXTENDS IdentityProofs, Sequences, SequenceTheorems, FiniteSetTheorems

-----------------------------------------------------------------------------
(* Templates *)

\* Unless two have overlapped, whoever seeds is alone and adds what is missing.
SeedsAlone ==
    ~overlapped =>
        /\ \A v, w \in Calls : visit[v].at = "seeding" /\ visit[w].at = "seeding" => v = w
        /\ \A v \in Calls : \A n \in visit[v].adds : visit[v].at = "seeding" => template[n] = {}
        /\ \A n \in Names : ~T!Many(template[n])

\* What a visit has seen is there, or it will add it.
Accounted(v) ==
    /\ visit[v].at = "start" => visit[v].seen = {} /\ visit[v].adds = {}
    /\ visit[v].at = "seeding" => \A n \in visit[v].seen : n \in visit[v].adds \/ template[n] # {}
    /\ visit[v].at = "seeded" => \A n \in Names : template[n] # {}
    /\ visit[v].at = "over" /\ visit[v].seen = Names =>
           \A n \in Names : \E w \in Calls : <<n, w>> \in visit[v].shows

TemplatesInv == T!TypeOK /\ SeedsAlone /\ \A v \in Calls : Accounted(v)

\* The gallery is empty.
LEMMA TemplatesInit == T!Init => TemplatesInv
<1> SUFFICES ASSUME T!Init PROVE TemplatesInv
  OBVIOUS
<1>1. \A v \in Calls : visit[v].at = "start" /\ visit[v].seen = {} /\ visit[v].adds = {}
  BY DEF T!Init
<1>2. \A n \in Names : template[n] = {}
  BY DEF T!Init
<1>3. T!TypeOK
  BY DEF T!Init, T!TypeOK, T!Visit, T!At
<1> QED
  BY <1>1, <1>2, <1>3 DEF TemplatesInv, SeedsAlone, Accounted, T!Many

\* A visit that does not move is accounted for as before.
LEMMA OthersAccounted ==
    ASSUME NEW v \in Calls, Accounted(v), visit'[v] = visit[v],
           \A n \in Names : template[n] # {} => template'[n] # {},
           visit[v].seen \subseteq Names
    PROVE  Accounted(v)'
BY DEF Accounted

\* A visit's record after it went on.
LEMMA Went ==
    ASSUME T!TypeOK, NEW v \in Calls, NEW at \in T!At, T!Go(v, at)
    PROVE  /\ visit' \in [Calls -> T!Visit]
           /\ visit'[v].at = at /\ visit'[v].seen = visit[v].seen
           /\ visit'[v].adds = visit[v].adds /\ visit'[v].shows = visit[v].shows
           /\ \A w \in Calls \ {v} : visit'[w] = visit[w]
BY DEF T!TypeOK, T!Go, T!Visit

\* Every step of Templates keeps TemplatesInv.
LEMMA TemplatesNext == TemplatesInv /\ [T!Next]_(T!vars) => TemplatesInv'
<1> SUFFICES ASSUME TemplatesInv, [T!Next]_(T!vars) PROVE TemplatesInv'
  OBVIOUS
<1>0. /\ T!TypeOK
      /\ template \in [Names -> SUBSET Calls] /\ visit \in [Calls -> T!Visit]
      /\ clone \subseteq Calls \X Names /\ overlapped \in BOOLEAN
      /\ \A v \in Calls : /\ visit[v].at \in T!At /\ visit[v].seen \subseteq Names
                          /\ visit[v].adds \subseteq Names
                          /\ visit[v].shows \subseteq Names \X Calls
      /\ {"start", "seeding", "seeded", "over", "failed"} = T!At
  BY DEF TemplatesInv, T!TypeOK, T!Visit, T!At
<1>1. ASSUME NEW v \in Calls, T!Begin(v) PROVE TemplatesInv'
  <2>1. /\ visit[v].at = "start" /\ T!Go(v, "seeding") /\ UNCHANGED <<template, clone>>
        /\ overlapped' = (overlapped \/ \E w \in Calls : T!Seeding(w))
    BY <1>1 DEF T!Begin
  <2>2. /\ visit' \in [Calls -> T!Visit]
        /\ visit'[v].at = "seeding" /\ visit'[v].seen = {} /\ visit'[v].adds = {}
        /\ \A w \in Calls \ {v} : visit'[w] = visit[w]
    BY <1>0, <2>1, Went DEF TemplatesInv, Accounted
  <2>3. T!TypeOK'
    BY <1>0, <2>1, <2>2 DEF T!TypeOK
  <2>4. ASSUME ~overlapped' PROVE ~overlapped /\ \A w \in Calls : ~T!Seeding(w)
    BY <2>1, <2>4
  <2>5. SeedsAlone'
    BY <2>1, <2>2, <2>4 DEF TemplatesInv, SeedsAlone, T!Seeding
  <2>6. ASSUME NEW w \in Calls PROVE Accounted(w)'
    <3>1. CASE w = v
      BY <2>2, <3>1 DEF Accounted
    <3>2. CASE w # v
      BY <1>0, <2>1, <2>2, <3>2, OthersAccounted DEF TemplatesInv
    <3> QED
      BY <3>1, <3>2
  <2> QED
    BY <2>3, <2>5, <2>6 DEF TemplatesInv
<1>2. ASSUME NEW v \in Calls, T!Seed(v) PROVE TemplatesInv'
  <2>1. /\ visit[v].at = "seeding" /\ visit[v].seen = Names
        /\ T!Go(v, "seeded") /\ UNCHANGED <<clone, overlapped>>
    BY <1>2 DEF T!Seed, T!Seeding
  <2>2. /\ visit' \in [Calls -> T!Visit]
        /\ visit'[v].at = "seeded" /\ \A w \in Calls \ {v} : visit'[w] = visit[w]
    BY <1>0, <2>1, Went
  <2>3. /\ template' \in [Names -> SUBSET Calls]
        /\ \A n \in Names : template'[n] = template[n] \cup (IF n \in visit[v].adds THEN {v} ELSE {})
    BY <1>0, <1>2 DEF T!Seed
  <2>4. T!TypeOK'
    BY <1>0, <2>1, <2>2, <2>3 DEF T!TypeOK
  <2>5. \A n \in Names : template'[n] # {}
    BY <2>1, <2>3 DEF TemplatesInv, Accounted
  <2>6. ASSUME ~overlapped'
        PROVE  /\ \A w \in Calls : visit'[w].at # "seeding"
               /\ \A n \in Names : ~T!Many(template'[n])
    <3>1. \A w \in Calls \ {v} : visit[w].at # "seeding"
      BY <2>1, <2>6 DEF TemplatesInv, SeedsAlone
    <3>2. ASSUME NEW n \in Names PROVE ~T!Many(template'[n])
      <4>1. CASE n \in visit[v].adds
        <5>1. template[n] = {}
          BY <2>1, <2>6, <4>1 DEF TemplatesInv, SeedsAlone
        <5> QED
          BY <2>3, <4>1, <5>1 DEF T!Many
      <4>2. CASE n \notin visit[v].adds
        BY <2>1, <2>3, <2>6, <4>2 DEF TemplatesInv, SeedsAlone, T!Many
      <4> QED
        BY <4>1, <4>2
    <3> QED
      BY <2>2, <3>1, <3>2
  <2>7. ASSUME NEW w \in Calls PROVE Accounted(w)'
    <3>1. CASE w = v
      BY <2>2, <2>5, <3>1 DEF Accounted
    <3>2. CASE w # v
      BY <1>0, <2>2, <2>5, <3>2, OthersAccounted DEF TemplatesInv
    <3> QED
      BY <3>1, <3>2
  <2>8. SeedsAlone'
    BY <2>6 DEF SeedsAlone
  <2> QED
    BY <2>4, <2>7, <2>8 DEF TemplatesInv
<1>3. ASSUME NEW v \in Calls, T!List(v) PROVE TemplatesInv'
  <2> DEFINE listed == {p \in Names \X Calls : p[2] \in template[p[1]]}
  <2>1. /\ visit[v].at = "seeded" /\ UNCHANGED <<template, clone, overlapped>>
        /\ visit' = [visit EXCEPT ![v].at = "over", ![v].shows = listed]
    BY <1>3 DEF T!List
  <2>2. /\ visit' \in [Calls -> T!Visit]
        /\ visit'[v].at = "over" /\ visit'[v].shows = listed
        /\ \A w \in Calls \ {v} : visit'[w] = visit[w]
    <3>1. listed \in SUBSET (Names \X Calls)
      OBVIOUS
    <3>2. visit[v] \in T!Visit
      BY <1>0
    <3> HIDE DEF listed
    <3> QED
      BY <1>0, <2>1, <3>1, <3>2 DEF T!Visit
  <2>3. \A n \in Names : \E w \in Calls : <<n, w>> \in listed
    <3> TAKE n \in Names
    <3>1. PICK w \in Calls : w \in template[n]
      BY <1>0, <2>1 DEF TemplatesInv, Accounted
    <3>2. <<n, w>> \in listed
      BY <3>1
    <3> QED
      BY <3>2
  <2> HIDE DEF listed
  <2>4. T!TypeOK'
    BY <1>0, <2>1, <2>2 DEF T!TypeOK
  <2>5. SeedsAlone'
    BY <2>1, <2>2 DEF TemplatesInv, SeedsAlone
  <2>6. ASSUME NEW w \in Calls PROVE Accounted(w)'
    <3>1. CASE w = v
      BY <2>2, <2>3, <3>1 DEF Accounted
    <3>2. CASE w # v
      BY <1>0, <2>1, <2>2, <3>2, OthersAccounted DEF TemplatesInv
    <3> QED
      BY <3>1, <3>2
  <2> QED
    BY <2>4, <2>5, <2>6 DEF TemplatesInv
\* A visit that is given up, or one that only clones.
<1>a. ASSUME NEW v \in Calls, NEW at \in {"over", "failed"}, T!Go(v, at),
             at = "over" => visit[v].at = "start",
             UNCHANGED <<template, overlapped>>, clone' \subseteq Calls \X Names
      PROVE  TemplatesInv'
  <2>1. /\ visit' \in [Calls -> T!Visit]
        /\ visit'[v].at = at /\ visit'[v].seen = visit[v].seen
        /\ \A w \in Calls \ {v} : visit'[w] = visit[w]
    BY <1>0, <1>a, Went
  <2>2. T!TypeOK'
    BY <1>0, <1>a, <2>1 DEF T!TypeOK
  <2>3. at = "over" /\ visit[v].seen = Names => Names = {}
    BY <1>a DEF TemplatesInv, Accounted
  <2>4. SeedsAlone'
    BY <1>a, <2>1 DEF TemplatesInv, SeedsAlone
  <2>5. ASSUME NEW w \in Calls PROVE Accounted(w)'
    <3>1. CASE w = v
      BY <1>a, <2>1, <2>3, <3>1 DEF Accounted
    <3>2. CASE w # v
      BY <1>0, <1>a, <2>1, <3>2, OthersAccounted DEF TemplatesInv
    <3> QED
      BY <3>1, <3>2
  <2> QED
    BY <2>2, <2>4, <2>5 DEF TemplatesInv
<1>4. ASSUME NEW v \in Calls, T!Dies(v) PROVE TemplatesInv'
  BY <1>0, <1>4, <1>a DEF T!Dies
<1>5. ASSUME NEW v \in Calls, NEW n \in Names, T!Clone(v, n) PROVE TemplatesInv'
  BY <1>0, <1>5, <1>a DEF T!Clone
<1>6. ASSUME NEW v \in Calls, NEW n \in Names, T!Look(v, n) PROVE TemplatesInv'
  <2>1. T!Seeding(v) /\ UNCHANGED <<template, clone, overlapped>>
    BY <1>6 DEF T!Look
  <2>2. CASE T!Many(template[n])
    BY <1>0, <1>6, <1>a, <2>1, <2>2 DEF T!Look
  <2>3. CASE ~T!Many(template[n])
    <3>1. visit' = [visit EXCEPT ![v].seen = @ \cup {n},
                                 ![v].adds = IF template[n] = {} THEN @ \cup {n} ELSE @]
      BY <1>6, <2>3 DEF T!Look, T!Missing
    <3>2. /\ visit' \in [Calls -> T!Visit]
          /\ visit'[v].at = "seeding" /\ visit'[v].seen = visit[v].seen \cup {n}
          /\ visit'[v].adds = IF template[n] = {} THEN visit[v].adds \cup {n} ELSE visit[v].adds
          /\ \A w \in Calls \ {v} : visit'[w] = visit[w]
      <4>1. visit[v] \in T!Visit /\ visit[v].at = "seeding"
        BY <1>0, <2>1 DEF T!Seeding
      <4>2. /\ visit[v].seen \cup {n} \in SUBSET Names
            /\ (IF template[n] = {} THEN visit[v].adds \cup {n} ELSE visit[v].adds) \in SUBSET Names
        BY <1>0
      <4> QED
        BY <1>0, <3>1, <4>1, <4>2 DEF T!Visit
    <3>3. T!TypeOK'
      BY <1>0, <2>1, <3>2 DEF T!TypeOK
    <3>4. SeedsAlone'
      BY <2>1, <3>2 DEF TemplatesInv, SeedsAlone, T!Seeding
    <3>5. ASSUME NEW w \in Calls PROVE Accounted(w)'
      <4>1. CASE w = v
        BY <2>1, <3>2, <4>1 DEF TemplatesInv, Accounted, T!Seeding
      <4>2. CASE w # v
        BY <1>0, <2>1, <3>2, <4>2, OthersAccounted DEF TemplatesInv
      <4> QED
        BY <4>1, <4>2
    <3> QED
      BY <3>3, <3>4, <3>5 DEF TemplatesInv
  <2> QED
    BY <2>2, <2>3
<1>7. CASE UNCHANGED T!vars
  BY <1>0, <1>7 DEF T!vars, TemplatesInv, T!TypeOK, SeedsAlone, Accounted
<1> QED
  BY <1>1, <1>2, <1>3, <1>4, <1>5, <1>6, <1>7 DEF T!Next

\* What is kept is more than what is promised.
LEMMA TemplatesPromise == TemplatesInv => T!TemplatesOnce
BY DEF TemplatesInv, SeedsAlone, Accounted, T!TemplatesOnce

-----------------------------------------------------------------------------
(* Todos *)

\* The numbers of a list, and the one after the highest.
Numbers(list) == {list[i].sequence : i \in DOMAIN list}

Highest(list, n) == \A i \in DOMAIN list : list[i].sequence <= n

After(list) ==
    IF list = <<>> THEN 0 ELSE (CHOOSE n \in Numbers(list) : Highest(list, n)) + 1

Todo == [sequence : Nat, status : L!Statuses]

TodoCall == [at : {"start", "read", "ok", "refused", "died"}, of : Nat, number : Nat,
             saw : L!Statuses, wish : L!Statuses]

Unsure == L!Statuses \cup {"unsure"}

\* The list has no gap, and who is to add to it has not read more than its end.
Counted ==
    /\ After(todo) \in Nat /\ Numbers(todo) = 0..(After(todo) - 1)
    /\ \A c \in L!Under(0) : todoCall[c].number <= After(todo)

\* Unless two have crossed, whoever adds is alone and has read the end.
Single ==
    ~crossed =>
        /\ \A c, d \in L!Under(0) : c = d /\ todoCall[c].number = After(todo)
        /\ \A i, j \in DOMAIN todo : todo[i].sequence = todo[j].sequence => i = j

\* A row has the status last told, and who updates it has seen that.
Row(i) ==
    told[i] # "unsure" =>
        /\ todo[i].status = told[i]
        /\ \A c, d \in L!Under(i) : c = d /\ todoCall[c].saw = todo[i].status

TodosInv ==
    /\ L!TypeOK /\ Counted /\ Single
    /\ \A c \in Calls : /\ todoCall[c].of <= Len(todo)
                        /\ todoCall[c].at = "start" => todoCall[c].of = 0
    /\ \A i \in DOMAIN todo : Row(i)

\* A list without a gap ends where its numbers do.
LEMMA AfterIsEnd ==
    ASSUME NEW list \in Seq(Todo), NEW m \in Nat,
           Numbers(list) = 0..(m - 1)
    PROVE  After(list) = m
<1>1. list = <<>> <=> DOMAIN list = {}
  OBVIOUS
<1>2. DOMAIN list = {} <=> Numbers(list) = {}
  BY DEF Numbers
<1>a. \A i \in DOMAIN list : list[i].sequence \in Nat
  <2>1. \A i \in DOMAIN list : list[i] \in Todo
    OBVIOUS
  <2> QED
    BY <2>1 DEF Todo
<1>3. 0..(m - 1) = {} <=> m = 0
  OBVIOUS
<1>4. CASE m = 0
  BY <1>1, <1>2, <1>3, <1>4 DEF After
<1>5. CASE m # 0
  <2>1. m - 1 \in Numbers(list)
    BY <1>5
  <2>2. \A i \in DOMAIN list : list[i].sequence \in Numbers(list)
    BY DEF Numbers
  <2>3. Highest(list, m - 1)
    BY <2>2 DEF Highest
  <2>4. \A n \in Numbers(list) : Highest(list, n) => n = m - 1
    <3> SUFFICES ASSUME NEW n \in Numbers(list), Highest(list, n) PROVE n = m - 1
      OBVIOUS
    <3>1. PICK i \in DOMAIN list : list[i].sequence = m - 1
      BY <2>1 DEF Numbers
    <3>2. m - 1 <= n
      BY <3>1 DEF Highest
    <3> QED
      BY <1>5, <3>2
  <2>5. (CHOOSE n \in Numbers(list) : Highest(list, n)) = m - 1
    BY <2>1, <2>3, <2>4
  <2>6. list # <<>>
    BY <1>1, <1>2, <1>3, <1>5
  <2>7. After(list) = (m - 1) + 1
    BY <2>5, <2>6 DEF After
  <2> QED
    BY <2>7
<1> QED
  BY <1>4, <1>5

\* A row more is a number more.
LEMMA NumbersGrow ==
    ASSUME NEW list \in Seq(Todo), NEW row \in Todo
    PROVE  Numbers(Append(list, row)) = Numbers(list) \cup {row.sequence}
<1> DEFINE longer == Append(list, row)
<1>1. /\ Len(list) \in Nat /\ DOMAIN list = 1..Len(list) /\ DOMAIN longer = 1..(Len(list) + 1)
      /\ \A i \in 1..Len(list) : longer[i] = list[i]
      /\ longer[Len(list) + 1] = row
  OBVIOUS
<1> HIDE DEF longer
<1>2. 1..(Len(list) + 1) = 1..Len(list) \cup {Len(list) + 1}
  BY <1>1
<1>3. Numbers(longer) = Numbers(list) \cup {row.sequence}
  BY <1>1, <1>2 DEF Numbers
<1> QED
  BY <1>3 DEF longer

\* The list is empty.
LEMMA TodosInit == L!Init => TodosInv
<1> SUFFICES ASSUME L!Init PROVE TodosInv
  OBVIOUS
<1>1. todo = <<>> /\ told = <<>> /\ \A c \in Calls : todoCall[c].at = "start" /\ todoCall[c].of = 0
  BY DEF L!Init
<1>2. L!Under(0) = {}
  BY <1>1 DEF L!Under
<1>3. After(todo) = 0 /\ Numbers(todo) = {}
  BY <1>1 DEF After, Numbers
<1>4. L!TypeOK
  <2>1. todoCall \in [Calls -> TodoCall]
    BY DEF L!Init, TodoCall, L!Statuses
  <2>2. todo \in Seq(Todo) /\ told \in Seq(Unsure)
    BY <1>1
  <2> QED
    BY <1>1, <2>1, <2>2 DEF L!Init, L!TypeOK, Todo, TodoCall, Unsure
<1>5. Len(todo) = 0 /\ DOMAIN todo = {}
  BY <1>1
<1>6. Counted /\ Single
  BY <1>2, <1>3, <1>5 DEF Counted, Single
<1> QED
  BY <1>1, <1>4, <1>5, <1>6 DEF TodosInv

\* Every step of Todos keeps TodosInv.
LEMMA TodosNext == TodosInv /\ [L!Next]_(L!vars) => TodosInv'
<1> SUFFICES ASSUME TodosInv, [L!Next]_(L!vars) PROVE TodosInv'
  OBVIOUS
<1>0. /\ L!TypeOK /\ Counted /\ Single
      /\ todo \in Seq(Todo) /\ todoCall \in [Calls -> TodoCall]
      /\ crossed \in BOOLEAN /\ told \in Seq(Unsure) /\ Len(told) = Len(todo)
      /\ \A c \in Calls : /\ todoCall[c].number \in Nat /\ todoCall[c].of \in Nat
                          /\ todoCall[c].saw \in L!Statuses /\ todoCall[c].wish \in L!Statuses
      /\ DOMAIN todo = 1..Len(todo) /\ DOMAIN told = 1..Len(todo) /\ Len(todo) \in Nat
      /\ "unsure" \notin L!Statuses
  BY DEF TodosInv, L!TypeOK, L!Statuses, Todo, TodoCall, Unsure
<1>00. Wished \subseteq L!Statuses
  BY PartAssumptions DEF L!WishedAssumption
\* A call that rests after its step, with the list as it was.
<1>a. ASSUME NEW c \in Calls, NEW at \in {"refused", "died"},
             todoCall' = [todoCall EXCEPT ![c].at = at], UNCHANGED <<todo, crossed, told>>
      PROVE  TodosInv'
  <2>1. /\ todoCall' \in [Calls -> TodoCall] /\ todoCall'[c].at = at /\ todoCall'[c].of = todoCall[c].of
        /\ \A d \in Calls \ {c} : todoCall'[d] = todoCall[d]
    BY <1>0, <1>a DEF TodoCall
  <2>2. \A i : L!Under(i)' \subseteq L!Under(i) /\ c \notin L!Under(i)'
    BY <2>1 DEF L!Under
  <2>3. L!TypeOK'
    BY <1>0, <1>a, <2>1 DEF L!TypeOK, Todo, TodoCall, Unsure
  <2>4. \A i : \A d \in L!Under(i)' : todoCall'[d] = todoCall[d]
    BY <2>1, <2>2 DEF L!Under
  <2>5. Counted' /\ Single'
    BY <1>0, <1>a, <2>2, <2>4 DEF Counted, Single
  <2>6. ASSUME NEW i \in DOMAIN todo' PROVE Row(i)'
    <3>1. Row(i)
      BY <1>a, <2>6 DEF TodosInv
    <3> QED
      BY <1>a, <2>2, <2>4, <3>1 DEF Row
  <2>7. \A d \in Calls : /\ todoCall'[d].of <= Len(todo')
                         /\ todoCall'[d].at = "start" => todoCall'[d].of = 0
    BY <1>a, <2>1 DEF TodosInv
  <2> QED
    BY <2>3, <2>5, <2>6, <2>7 DEF TodosInv
<1>1. ASSUME NEW c \in Calls, NEW wish \in Wished, L!ReadNumber(c, wish) PROVE TodosInv'
  <2>1. /\ todoCall[c].at = "start" /\ todoCall[c].of = 0 /\ UNCHANGED <<todo, told>>
        /\ todoCall' = [todoCall EXCEPT ![c] =
               [@ EXCEPT !.at = "read", !.number = L!NextSequence, !.wish = wish]]
        /\ crossed' = (crossed \/ L!Under(0) # {})
    BY <1>1 DEF L!ReadNumber, TodosInv
  <2>2. L!NextSequence = After(todo)
    BY DEF L!NextSequence, After, Numbers, Highest
  <2>3. /\ todoCall' \in [Calls -> TodoCall] /\ todoCall'[c].at = "read" /\ todoCall'[c].of = 0
        /\ todoCall'[c].number = After(todo)
        /\ \A d \in Calls \ {c} : todoCall'[d] = todoCall[d]
    <3>1. wish \in L!Statuses /\ After(todo) \in Nat
      BY <1>0, <1>00 DEF Counted
    <3>2. todoCall[c] \in TodoCall
      BY <1>0
    <3> QED
      BY <1>0, <2>1, <2>2, <3>1, <3>2 DEF TodoCall
  <2>4. L!TypeOK'
    BY <1>0, <2>1, <2>3 DEF L!TypeOK, Todo, TodoCall, Unsure
  <2>5. L!Under(0)' = L!Under(0) \cup {c} /\ c \notin L!Under(0)
    BY <2>1, <2>3 DEF L!Under
  <2>6. Counted'
    BY <1>0, <2>1, <2>3, <2>5 DEF Counted
  <2>7. Single'
    BY <1>0, <2>1, <2>3, <2>5 DEF Single
  <2>8. ASSUME NEW i \in DOMAIN todo' PROVE Row(i)'
    <3>1. i \in DOMAIN todo /\ i # 0
      BY <1>0, <2>1, <2>8
    <3>2. Row(i)
      BY <3>1 DEF TodosInv
    <3>3. L!Under(i)' = L!Under(i) /\ c \notin L!Under(i)
      BY <2>1, <2>3, <3>1 DEF L!Under
    <3> QED
      BY <2>1, <2>3, <3>2, <3>3 DEF Row, L!Under
  <2>9. \A d \in Calls : /\ todoCall'[d].of <= Len(todo')
                         /\ todoCall'[d].at = "start" => todoCall'[d].of = 0
    BY <1>0, <2>1, <2>3 DEF TodosInv
  <2> QED
    BY <2>4, <2>6, <2>7, <2>8, <2>9 DEF TodosInv
<1>2. ASSUME NEW c \in Calls, L!Create(c) PROVE TodosInv'
  <2> DEFINE k == todoCall[c].number
             row == [sequence |-> k, status |-> todoCall[c].wish]
             m == After(todo)
  <2>1. /\ todoCall[c].at = "read" /\ todoCall[c].of = 0 /\ c \in L!Under(0)
        /\ todo' = Append(todo, row) /\ crossed' = crossed
        /\ todoCall' = [todoCall EXCEPT ![c].at = "ok", ![c].of = Len(todo')]
        /\ told' = Append(told, todoCall[c].wish)
    BY <1>2 DEF L!Create, L!Under
  <2>2. /\ row \in Todo /\ k \in Nat /\ k <= m /\ m \in Nat
        /\ todo' \in Seq(Todo) /\ Len(todo') = Len(todo) + 1 /\ DOMAIN todo' = 1..(Len(todo) + 1)
        /\ \A i \in DOMAIN todo : todo'[i] = todo[i] /\ told'[i] = told[i]
        /\ todo'[Len(todo) + 1] = row /\ told'[Len(todo) + 1] = todoCall[c].wish
        /\ told' \in Seq(Unsure) /\ Len(told') = Len(todo')
    <3>1. row \in Todo /\ todoCall[c].wish \in Unsure
      BY <1>0 DEF Todo, Unsure
    <3>2. k \in Nat /\ k <= m /\ m \in Nat
      BY <1>0, <2>1 DEF Counted
    <3> HIDE DEF row
    <3>3. /\ todo' \in Seq(Todo) /\ Len(todo') = Len(todo) + 1 /\ DOMAIN todo' = 1..(Len(todo) + 1)
          /\ \A i \in 1..Len(todo) : todo'[i] = todo[i]
          /\ todo'[Len(todo) + 1] = row
      BY <1>0, <2>1, <3>1
    <3>4. /\ told' \in Seq(Unsure) /\ Len(told') = Len(told) + 1
          /\ \A i \in 1..Len(told) : told'[i] = told[i]
          /\ told'[Len(told) + 1] = todoCall[c].wish
      BY <1>0, <2>1, <3>1
    <3> QED
      BY <1>0, <3>1, <3>2, <3>3, <3>4
  <2>3. /\ todoCall' \in [Calls -> TodoCall] /\ todoCall'[c].at = "ok" /\ todoCall'[c].of = Len(todo) + 1
        /\ \A d \in Calls \ {c} : todoCall'[d] = todoCall[d]
    <3>1. todoCall[c] \in TodoCall /\ Len(todo') \in Nat
      BY <1>0, <2>2
    <3> QED
      BY <1>0, <2>1, <2>2, <3>1 DEF TodoCall
  <2>4. L!TypeOK'
    BY <1>0, <2>1, <2>2, <2>3 DEF L!TypeOK, Todo, TodoCall, Unsure
  <2>5. Numbers(todo') = Numbers(todo) \cup {k}
    BY <1>0, <2>1, <2>2, NumbersGrow
  <2>6. Numbers(todo) = 0..(m - 1)
    BY <1>0 DEF Counted
  <2> HIDE DEF row, m
  <2>7. /\ k < m => Numbers(todo') = 0..(m - 1)
        /\ k = m => Numbers(todo') = 0..((m + 1) - 1)
    BY <2>2, <2>5, <2>6
  <2>8. /\ k < m => After(todo') = m
        /\ k = m => After(todo') = m + 1
    BY <2>2, <2>7, AfterIsEnd
  <2>9. L!Under(0)' = L!Under(0) \ {c}
    BY <1>0, <2>1, <2>3 DEF L!Under
  <2>10. Counted'
    <3>1. After(todo') \in Nat /\ Numbers(todo') = 0..(After(todo') - 1) /\ m <= After(todo')
      BY <2>2, <2>7, <2>8
    <3>2. \A d \in L!Under(0)' : todoCall'[d].number <= After(todo')
      <4> SUFFICES ASSUME NEW d \in L!Under(0)' PROVE todoCall'[d].number <= After(todo')
        OBVIOUS
      <4>1. d \in L!Under(0) /\ d \in Calls /\ d # c
        BY <2>9 DEF L!Under
      <4>2. todoCall'[d].number = todoCall[d].number /\ todoCall[d].number <= m
        BY <1>0, <2>3, <4>1 DEF Counted, m
      <4> QED
        BY <1>0, <2>2, <3>1, <4>1, <4>2
    <3> QED
      BY <3>1, <3>2 DEF Counted
  <2>11. ASSUME ~crossed'
         PROVE  /\ L!Under(0)' = {}
                /\ \A i, j \in DOMAIN todo' : todo'[i].sequence = todo'[j].sequence => i = j
    <3>1. /\ k = m /\ L!Under(0) = {c}
          /\ \A i, j \in DOMAIN todo : todo[i].sequence = todo[j].sequence => i = j
      BY <1>0, <2>1, <2>11 DEF Single, m
    <3>2. \A i \in DOMAIN todo : todo[i].sequence \in 0..(m - 1)
      BY <2>6 DEF Numbers
    <3>3. \A i \in DOMAIN todo : todo'[i].sequence = todo[i].sequence /\ todo'[i].sequence # m
      BY <2>2, <3>2
    <3>4. todo'[Len(todo) + 1].sequence = m
      BY <2>2, <3>1 DEF row
    <3>5. \A i \in DOMAIN todo' : i \in DOMAIN todo \/ i = Len(todo) + 1
      BY <1>0, <2>2
    <3> QED
      BY <2>9, <3>1, <3>3, <3>4, <3>5
  <2>12. Single'
    BY <2>11 DEF Single
  <2>13. ASSUME NEW i \in DOMAIN todo' PROVE Row(i)'
    <3>1. CASE i = Len(todo) + 1
      <4>1. L!Under(i)' = {}
        BY <1>0, <2>3, <3>1 DEF L!Under, TodosInv
      <4> QED
        BY <2>2, <3>1, <4>1 DEF Row, row
    <3>2. CASE i \in DOMAIN todo
      <4>1. i # 0 /\ Row(i)
        BY <1>0, <3>2 DEF TodosInv
      <4>2. L!Under(i)' = L!Under(i) /\ c \notin L!Under(i)
        BY <1>0, <2>1, <2>3, <3>2, <4>1 DEF L!Under
      <4> QED
        BY <2>2, <2>3, <3>2, <4>1, <4>2 DEF Row, L!Under
    <3> QED
      BY <1>0, <2>2, <3>1, <3>2
  <2>14. \A d \in Calls : /\ todoCall'[d].of <= Len(todo')
                          /\ todoCall'[d].at = "start" => todoCall'[d].of = 0
    BY <1>0, <2>2, <2>3 DEF TodosInv
  <2> QED
    BY <2>4, <2>10, <2>12, <2>13, <2>14 DEF TodosInv
<1>3. ASSUME NEW c \in Calls, L!Refuse(c) \/ L!Dies(c) PROVE TodosInv'
  BY <1>3, <1>a DEF L!Refuse, L!Dies
<1>4. ASSUME NEW c \in Calls, NEW i \in DOMAIN todo, NEW wish \in Wished, L!ReadRow(c, i, wish)
      PROVE  TodosInv'
  <2>1. /\ todoCall[c].at = "start" /\ UNCHANGED <<todo, crossed>>
        /\ todoCall' = [todoCall EXCEPT ![c] = [@ EXCEPT !.at = "read", !.of = i,
                                                         !.saw = todo[i].status, !.wish = wish]]
        /\ told' = IF L!Under(i) = {} THEN told ELSE [told EXCEPT ![i] = "unsure"]
    BY <1>4 DEF L!ReadRow
  <2>2. i \in Nat /\ i # 0 /\ i <= Len(todo) /\ todo[i].status \in L!Statuses
    <3>1. todo[i] \in Todo
      BY <1>0
    <3> QED
      BY <1>0, <3>1 DEF Todo
  <2>3. /\ todoCall' \in [Calls -> TodoCall] /\ todoCall'[c].at = "read" /\ todoCall'[c].of = i
        /\ todoCall'[c].saw = todo[i].status
        /\ \A d \in Calls \ {c} : todoCall'[d] = todoCall[d]
    <3>1. wish \in L!Statuses
      BY <1>00
    <3>2. todoCall[c] \in TodoCall
      BY <1>0
    <3> QED
      BY <1>0, <2>1, <2>2, <3>1, <3>2 DEF TodoCall
  <2>4. /\ told' \in Seq(Unsure) /\ Len(told') = Len(told)
        /\ \A j \in DOMAIN told \ {i} : told'[j] = told[j]
        /\ L!Under(i) = {} => told'[i] = told[i]
        /\ L!Under(i) # {} => told'[i] = "unsure"
    <3>1. "unsure" \in Unsure /\ i \in DOMAIN told
      BY <1>0 DEF Unsure
    <3> QED
      BY <1>0, <2>1, <3>1
  <2>5. L!TypeOK'
    BY <1>0, <2>1, <2>3, <2>4 DEF L!TypeOK, Todo, TodoCall, Unsure
  <2>6. L!Under(0)' = L!Under(0) /\ c \notin L!Under(0)
    BY <2>1, <2>2, <2>3 DEF L!Under
  <2>7. \A d \in L!Under(0)' : todoCall'[d] = todoCall[d]
    BY <2>3, <2>6 DEF L!Under
  <2>8. Counted' /\ Single'
    BY <1>0, <2>1, <2>6, <2>7 DEF Counted, Single
  <2>9. ASSUME NEW j \in DOMAIN todo' PROVE Row(j)'
    <3>0. j \in DOMAIN todo /\ j \in DOMAIN told /\ Row(j)
      BY <1>0, <2>1, <2>9 DEF TodosInv
    <3>1. CASE j # i
      <4>1. L!Under(j)' = L!Under(j) /\ c \notin L!Under(j)
        BY <2>1, <2>3, <3>1 DEF L!Under
      <4> QED
        BY <2>1, <2>3, <2>4, <3>0, <3>1, <4>1 DEF Row, L!Under
    <3>2. CASE j = i /\ L!Under(i) = {}
      <4>1. L!Under(i)' = {c}
        BY <2>1, <2>3, <3>2 DEF L!Under
      <4> QED
        BY <2>1, <2>3, <2>4, <3>0, <3>2, <4>1 DEF Row
    <3>3. CASE j = i /\ L!Under(i) # {}
      BY <2>4, <3>3 DEF Row
    <3> QED
      BY <3>1, <3>2, <3>3
  <2>10. \A d \in Calls : /\ todoCall'[d].of <= Len(todo')
                          /\ todoCall'[d].at = "start" => todoCall'[d].of = 0
    BY <2>1, <2>2, <2>3 DEF TodosInv
  <2> QED
    BY <2>5, <2>8, <2>9, <2>10 DEF TodosInv
\* An update of a row that is not unsure leaves it with its wish.
<1>5. ASSUME NEW c \in Calls, NEW i \in DOMAIN todo, L!Update(c, i) PROVE TodosInv'
  <2>1. /\ c \in L!Under(i) /\ todoCall[c].at = "read" /\ todoCall[c].of = i /\ crossed' = crossed
        /\ todo' = IF todoCall[c].wish = todoCall[c].saw THEN todo
                   ELSE [todo EXCEPT ![i].status = todoCall[c].wish]
        /\ todoCall' = [todoCall EXCEPT ![c].at = "ok"]
        /\ told' = IF told[i] = "unsure" THEN told ELSE [told EXCEPT ![i] = todoCall[c].wish]
    BY <1>5 DEF L!Update, L!Under
  <2>2. i \in Nat /\ i # 0 /\ i <= Len(todo) /\ todo[i] \in Todo /\ i \in DOMAIN told
    BY <1>0
  <2>3. /\ todo' \in Seq(Todo) /\ Len(todo') = Len(todo) /\ DOMAIN todo' = DOMAIN todo
        /\ \A j \in DOMAIN todo : todo'[j].sequence = todo[j].sequence
        /\ \A j \in DOMAIN todo \ {i} : todo'[j] = todo[j]
        /\ todoCall[c].wish # todoCall[c].saw => todo'[i].status = todoCall[c].wish
        /\ todoCall[c].wish = todoCall[c].saw => todo'[i].status = todo[i].status
    <3>1. CASE todoCall[c].wish = todoCall[c].saw
      BY <1>0, <2>1, <3>1
    <3>2. CASE todoCall[c].wish # todoCall[c].saw
      <4>1. todo' = [todo EXCEPT ![i] = [@ EXCEPT !.status = todoCall[c].wish]]
        BY <2>1, <3>2
      <4>2. /\ [todo[i] EXCEPT !.status = todoCall[c].wish] \in Todo
            /\ [todo[i] EXCEPT !.status = todoCall[c].wish].sequence = todo[i].sequence
            /\ [todo[i] EXCEPT !.status = todoCall[c].wish].status = todoCall[c].wish
        BY <1>0, <2>2 DEF Todo
      <4> QED
        BY <1>0, <2>2, <3>2, <4>1, <4>2
    <3> QED
      BY <3>1, <3>2
  <2>4. /\ told' \in Seq(Unsure) /\ Len(told') = Len(told)
        /\ \A j \in DOMAIN told \ {i} : told'[j] = told[j]
        /\ told[i] = "unsure" => told'[i] = "unsure"
        /\ told[i] # "unsure" => told'[i] = todoCall[c].wish
    <3>1. todoCall[c].wish \in Unsure
      BY <1>0 DEF Unsure
    <3> QED
      BY <1>0, <2>1, <2>2, <3>1
  <2>5. /\ todoCall' \in [Calls -> TodoCall] /\ todoCall'[c].at = "ok" /\ todoCall'[c].of = i
        /\ \A d \in Calls \ {c} : todoCall'[d] = todoCall[d]
    BY <1>0, <2>1 DEF TodoCall
  <2>6. L!TypeOK'
    BY <1>0, <2>1, <2>3, <2>4, <2>5 DEF L!TypeOK, Todo, TodoCall, Unsure
  <2>7. \A j : L!Under(j)' = L!Under(j) \ {c} /\ \A d \in L!Under(j)' : todoCall'[d] = todoCall[d]
    BY <2>5 DEF L!Under
  <2>8. Numbers(todo') = Numbers(todo)
    BY <2>3 DEF Numbers
  <2>9. After(todo') = After(todo)
    BY <1>0, <2>3, <2>8, AfterIsEnd DEF Counted
  <2>10. Counted' /\ Single'
    <3>1. \A d \in L!Under(0)' : d \in L!Under(0) /\ todoCall'[d] = todoCall[d]
      BY <2>7
    <3>2. Counted'
      BY <1>0, <2>8, <2>9, <3>1 DEF Counted
    <3>3. Single'
      BY <1>0, <2>1, <2>3, <2>9, <3>1 DEF Single
    <3> QED
      BY <3>2, <3>3
  <2>11. ASSUME NEW j \in DOMAIN todo' PROVE Row(j)'
    <3>0. j \in DOMAIN todo /\ j \in DOMAIN told /\ Row(j)
      BY <1>0, <2>3, <2>11 DEF TodosInv
    <3>1. CASE j # i
      BY <2>3, <2>4, <2>7, <3>0, <3>1 DEF Row
    <3>2. CASE j = i /\ told[i] = "unsure"
      BY <2>4, <3>2 DEF Row
    <3>3. CASE j = i /\ told[i] # "unsure"
      <4>1. todoCall[c].saw = todo[i].status /\ L!Under(i) = {c}
        BY <2>1, <3>0, <3>3 DEF Row
      <4>2. todo'[i].status = todoCall[c].wish /\ L!Under(i)' = {}
        BY <2>3, <2>7, <4>1
      <4> QED
        BY <2>4, <3>3, <4>2 DEF Row
    <3> QED
      BY <3>1, <3>2, <3>3
  <2>12. \A d \in Calls : /\ todoCall'[d].of <= Len(todo')
                          /\ todoCall'[d].at = "start" => todoCall'[d].of = 0
    BY <2>2, <2>3, <2>5 DEF TodosInv
  <2> QED
    BY <2>6, <2>10, <2>11, <2>12 DEF TodosInv
<1>6. CASE UNCHANGED L!vars
  BY <1>0, <1>6 DEF L!vars, TodosInv, L!TypeOK, Counted, Single, Row, L!Under
<1> QED
  BY <1>1, <1>2, <1>3, <1>4, <1>5, <1>6 DEF L!Next

\* What is kept is more than what is promised.
LEMMA TodosPromise == TodosInv => L!TodosNumbered
<1>1. L!NextSequence = After(todo)
  BY DEF L!NextSequence, After, Numbers, Highest
<1> QED
  BY <1>1 DEF TodosInv, Counted, Single, Row, Numbers, L!TodosNumbered

-----------------------------------------------------------------------------
(* Schedules *)

About(r, k) == cronRequest[r].of = {k}

\* What a request has read or written is what the row says.
Keeps(r, k) ==
    /\ cronRequest[r].at = "same" =>
           /\ cronRequest[r].op \in {"enabled", "disabled"}
           /\ schedule[k] = J!Status(cronRequest[r].op)
    /\ cronRequest[r].at = "loaded" =>
           cronRequest[r].op \in {"enabled", "disabled"} /\ schedule[k] \in {"on", "off"}
    /\ cronRequest[r].at = "committed" =>
           \/ /\ cronRequest[r].op \in {"enabled", "disabled"}
              /\ schedule[k] = J!Status(cronRequest[r].op)
           \/ cronRequest[r].op = "delete" /\ schedule[k] = "deleted"

\* The jobs of a schedule are as its row says.
Follow(k) ==
    /\ \A s \in Servers : <<s, k>> \in job => schedule[k] = "on"
    /\ schedule[k] = "on" /\ k \in Valid \ forgotten => \E s \in Servers : <<s, k>> \in job

\* Its requests come one after the other, to one server.
InTurn(k) ==
    /\ \A r, q \in Calls : About(r, k) /\ About(q, k) =>
           /\ cronRequest[r].server = cronRequest[q].server
           /\ J!Running(r) /\ J!Running(q) => r = q
    /\ \A r \in Calls : About(r, k) => Keeps(r, k)
    /\ \A s \in Servers : <<s, k>> \in job =>
           \E q \in Calls : About(q, k) /\ cronRequest[q].server = {s}

JobsOf(k) ==
    /\ InTurn(k)
    /\ (\A r \in Calls : About(r, k) => cronRequest[r].at # "committed") => Follow(k)

SchedulesInv ==
    /\ J!TypeOK
    /\ \A r \in Calls : (cronRequest[r].at = "start") = (cronRequest[r].of = {})
    /\ \A r \in Calls : (cronRequest[r].at = "start") = (cronRequest[r].server = {})
    /\ \A k \in Crons \ mixed : JobsOf(k)

\* There is no row.
LEMMA SchedulesInit == J!Init => SchedulesInv
<1> SUFFICES ASSUME J!Init PROVE SchedulesInv
  OBVIOUS
<1>1. \A r \in Calls : cronRequest[r] = [op |-> "none", of |-> {}, server |-> {}, at |-> "start"]
  BY DEF J!Init
<1>2. \A k \in Crons : schedule[k] = "none"
  BY DEF J!Init
<1>3. J!TypeOK
  BY DEF J!Init, J!TypeOK, J!Op, J!At
<1>4. \A r \in Calls : \A k : ~About(r, k)
  BY <1>1 DEF About
<1>5. job = {}
  BY DEF J!Init
<1>6. \A k \in Crons : JobsOf(k)
  BY <1>2, <1>4, <1>5 DEF JobsOf, InTurn, Follow
<1> QED
  BY <1>1, <1>3, <1>6 DEF SchedulesInv

\* A schedule nobody touches keeps its jobs.
LEMMA Untouched ==
    ASSUME NEW k \in Crons, JobsOf(k), schedule'[k] = schedule[k],
           k \in forgotten' <=> k \in forgotten,
           \A s \in Servers : <<s, k>> \in job' <=> <<s, k>> \in job,
           \A r \in Calls : /\ About(r, k)' <=> About(r, k)
                            /\ About(r, k) => cronRequest'[r] = cronRequest[r]
    PROVE  JobsOf(k)'
<1>1. \A r \in Calls : About(r, k) =>
          (J!Running(r)' <=> J!Running(r)) /\ (Keeps(r, k)' <=> Keeps(r, k))
  BY DEF J!Running, Keeps
<1>2. InTurn(k)'
  BY <1>1 DEF JobsOf, InTurn
<1>3. Follow(k) => Follow(k)'
  BY DEF Follow
<1> QED
  BY <1>2, <1>3 DEF JobsOf

\* Every step of Schedules keeps SchedulesInv.
LEMMA SchedulesNext == SchedulesInv /\ [J!Next]_(J!vars) => SchedulesInv'
<1> SUFFICES ASSUME SchedulesInv, [J!Next]_(J!vars) PROVE SchedulesInv'
  OBVIOUS
<1> DEFINE Of == {{}} \cup {{k} : k \in Crons}
           On == {{}} \cup {{s} : s \in Servers}
           Request == [op : J!Op, of : Of, server : On, at : J!At]
<1>0. /\ J!TypeOK
      /\ schedule \in [Crons -> {"none", "on", "off", "deleted"}]
      /\ job \subseteq Servers \X Crons /\ mixed \subseteq Crons /\ forgotten \subseteq Crons
      /\ cronRequest \in [Calls -> Request]
      /\ {"start", "same", "loaded", "committed", "over"} = J!At
      /\ {"none", "enabled", "disabled", "delete"} = J!Op
  BY DEF SchedulesInv, J!TypeOK, J!At, J!Op
<1> HIDE DEF Request
\* A request begins.
<1>a. ASSUME NEW r \in Calls, NEW op \in J!Op, NEW k \in Crons, NEW s \in Servers,
             NEW at \in {"same", "loaded", "committed"},
             J!Begin(r, op, k, s, at), UNCHANGED <<job, forgotten>>,
             schedule' \in [Crons -> {"none", "on", "off", "deleted"}],
             \A l \in Crons \ {k} : schedule'[l] = schedule[l],
             at \in {"same", "loaded"} => schedule'[k] = schedule[k],
             k \notin mixed' => Keeps(r, k)'
      PROVE  SchedulesInv'
  <2>1. /\ cronRequest[r].at = "start"
        /\ cronRequest' = [cronRequest EXCEPT ![r] =
               [op |-> op, of |-> {k}, server |-> {s}, at |-> at]]
        /\ mixed' = IF \E q \in Calls : About(q, k) /\ (J!Running(q) \/ cronRequest[q].server # {s})
                      THEN mixed \cup {k} ELSE mixed
    BY <1>a DEF J!Begin, J!Fresh, About
  <2>2. /\ cronRequest' \in [Calls -> Request]
        /\ cronRequest'[r] = [op |-> op, of |-> {k}, server |-> {s}, at |-> at]
        /\ \A q \in Calls \ {r} : cronRequest'[q] = cronRequest[q]
    <3>1. [op |-> op, of |-> {k}, server |-> {s}, at |-> at] \in Request
      BY <1>0 DEF Request
    <3> QED
      BY <1>0, <2>1, <3>1
  <2>3. J!TypeOK'
    BY <1>0, <1>a, <2>1, <2>2 DEF J!TypeOK, Request
  <2>4. /\ \A q \in Calls : (cronRequest'[q].at = "start") = (cronRequest'[q].of = {})
        /\ \A q \in Calls : (cronRequest'[q].at = "start") = (cronRequest'[q].server = {})
    <3>1. \A q \in Calls : /\ (cronRequest[q].at = "start") = (cronRequest[q].of = {})
                            /\ (cronRequest[q].at = "start") = (cronRequest[q].server = {})
      BY DEF SchedulesInv
    <3>2. at # "start" /\ {k} # {} /\ {s} # {}
      BY <1>a
    <3> QED
      BY <2>2, <3>1, <3>2
  <2>5. \A l : ~About(r, l)
    BY <2>1 DEF About, SchedulesInv
  <2>6. /\ About(r, k)' /\ \A l : l # k => ~About(r, l)'
        /\ \A q \in Calls \ {r} : \A l : About(q, l)' <=> About(q, l)
    BY <2>2 DEF About
  <2>7. ASSUME NEW l \in Crons \ mixed' PROVE JobsOf(l)'
    <3>0. JobsOf(l)
      BY <2>1, <2>7 DEF SchedulesInv
    <3>1. CASE l # k
      BY <1>a, <2>2, <2>5, <2>6, <3>0, <3>1, Untouched
    <3>2. CASE l = k
      <4>1. \A q \in Calls : About(q, k) => ~J!Running(q) /\ cronRequest[q].server = {s}
        BY <2>1, <2>7, <3>2
      <4>2. \A q \in Calls \ {r} : About(q, k)' =>
                /\ ~J!Running(q)' /\ cronRequest'[q].server = {s} /\ Keeps(q, k)'
        BY <2>2, <2>6, <4>1 DEF J!Running, Keeps
      <4>3. Keeps(r, k)' /\ cronRequest'[r].server = {s}
        BY <1>a, <2>2, <2>7, <3>2
      <4>4. \A q \in Servers : <<q, k>> \in job' =>
                \E p \in Calls : About(p, k)' /\ cronRequest'[p].server = {q}
        BY <1>a, <2>2, <2>5, <2>6, <3>0, <3>2 DEF JobsOf, InTurn
      <4>5. InTurn(k)'
        BY <2>6, <4>2, <4>3, <4>4 DEF InTurn
      <4>6. CASE at = "committed"
        BY <2>2, <2>6, <3>2, <4>5, <4>6 DEF JobsOf
      <4>7. CASE at # "committed"
        <5>1. \A q \in Calls : About(q, k) => cronRequest[q].at # "committed"
          BY <4>1 DEF J!Running
        <5>2. Follow(k)
          BY <3>0, <3>2, <5>1 DEF JobsOf
        <5>3. Follow(k)'
          BY <1>a, <4>7, <5>2 DEF Follow
        <5> QED
          BY <3>2, <4>5, <5>3 DEF JobsOf
      <4> QED
        BY <4>6, <4>7
    <3> QED
      BY <3>1, <3>2
  <2> QED
    BY <2>3, <2>4, <2>7 DEF SchedulesInv
<1>1. ASSUME NEW r \in Calls, NEW op \in {"enabled", "disabled"}, NEW k \in Crons,
             NEW s \in Servers, J!Create(r, op, k, s)
      PROVE  SchedulesInv'
  <2>1. /\ J!Begin(r, op, k, s, "committed") /\ UNCHANGED <<job, forgotten>>
        /\ schedule' = [schedule EXCEPT ![k] = J!Status(op)]
    BY <1>1 DEF J!Create
  <2>2. /\ J!Status(op) \in {"on", "off"} /\ schedule'[k] = J!Status(op)
        /\ schedule' \in [Crons -> {"none", "on", "off", "deleted"}]
        /\ \A l \in Crons \ {k} : schedule'[l] = schedule[l]
    BY <1>0, <2>1 DEF J!Status
  <2>3. cronRequest'[r] = [op |-> op, of |-> {k}, server |-> {s}, at |-> "committed"]
    BY <1>0, <2>1 DEF J!Begin
  <2>4. Keeps(r, k)'
    BY <2>2, <2>3 DEF Keeps, J!Status
  <2> QED
    BY <1>0, <1>a, <2>1, <2>2, <2>4
<1>2. ASSUME NEW r \in Calls, NEW op \in {"enabled", "disabled"}, NEW k \in Crons,
             NEW s \in Servers, J!Load(r, op, k, s)
      PROVE  SchedulesInv'
  <2>1. PICK at \in {"same", "loaded"} :
            /\ J!Begin(r, op, k, s, at) /\ UNCHANGED <<schedule, job, forgotten>>
            /\ schedule[k] \in {"on", "off"}
            /\ at = "same" => schedule[k] = J!Status(op)
    BY <1>2 DEF J!Load
  <2>2. cronRequest'[r] = [op |-> op, of |-> {k}, server |-> {s}, at |-> at]
    BY <1>0, <2>1 DEF J!Begin
  <2>3. Keeps(r, k)'
    BY <2>1, <2>2 DEF Keeps, J!Status
  <2> QED
    BY <1>0, <1>a, <2>1, <2>3
<1>3. ASSUME NEW r \in Calls, NEW k \in Crons, NEW s \in Servers, J!Delete(r, k, s)
      PROVE  SchedulesInv'
  <2>1. /\ J!Begin(r, "delete", k, s, "committed") /\ UNCHANGED <<job, forgotten>>
        /\ schedule' = [schedule EXCEPT ![k] = "deleted"]
    BY <1>3 DEF J!Delete
  <2>2. cronRequest'[r] = [op |-> "delete", of |-> {k}, server |-> {s}, at |-> "committed"]
    BY <1>0, <2>1 DEF J!Begin
  <2>3. /\ schedule' \in [Crons -> {"none", "on", "off", "deleted"}] /\ schedule'[k] = "deleted"
        /\ \A l \in Crons \ {k} : schedule'[l] = schedule[l]
    BY <1>0, <2>1
  <2>4. Keeps(r, k)'
    BY <2>2, <2>3 DEF Keeps
  <2> QED
    BY <1>0, <1>a, <2>1, <2>3, <2>4
\* A request goes on.
<1>b. ASSUME NEW r \in Calls, NEW k \in Crons, NEW at \in {"committed", "over"},
             About(r, k), J!Running(r), J!Go(r, at), UNCHANGED <<mixed, forgotten>>,
             schedule' \in [Crons -> {"none", "on", "off", "deleted"}],
             \A l \in Crons \ {k} : schedule'[l] = schedule[l],
             job' \subseteq Servers \X Crons,
             \A l \in Crons \ {k} : \A s \in Servers : <<s, l>> \in job' <=> <<s, l>> \in job,
             \A s \in Servers : <<s, k>> \in job' => <<s, k>> \in job \/ cronRequest[r].server = {s},
             k \notin mixed => Keeps(r, k)' /\ (at = "over" => Follow(k)')
      PROVE  SchedulesInv'
  <2>1. /\ cronRequest' \in [Calls -> Request]
        /\ cronRequest'[r].at = at /\ cronRequest'[r].of = {k}
        /\ cronRequest'[r].server = cronRequest[r].server
        /\ \A q \in Calls \ {r} : cronRequest'[q] = cronRequest[q]
    BY <1>0, <1>b DEF J!Go, Request, About
  <2>2. J!TypeOK'
    BY <1>0, <1>b, <2>1 DEF J!TypeOK, Request
  <2>3. cronRequest[r].at # "start"
    BY <1>b DEF J!Running
  <2>4. /\ \A q \in Calls : (cronRequest'[q].at = "start") = (cronRequest'[q].of = {})
        /\ \A q \in Calls : (cronRequest'[q].at = "start") = (cronRequest'[q].server = {})
    BY <1>b, <2>1, <2>3 DEF SchedulesInv
  <2>5. /\ \A q \in Calls : \A l : About(q, l)' <=> About(q, l)
        /\ \A l : l # k => ~About(r, l)
    BY <1>b, <2>1 DEF About
  <2>6. ASSUME NEW l \in Crons \ mixed' PROVE JobsOf(l)'
    <3>0. JobsOf(l) /\ l \notin mixed
      BY <1>b, <2>6 DEF SchedulesInv
    <3>1. CASE l # k
      BY <1>b, <2>1, <2>5, <3>0, <3>1, Untouched
    <3>2. CASE l = k
      <4>1. \A q \in Calls \ {r} : About(q, k) => ~J!Running(q) /\ Keeps(q, k)
        BY <1>b, <3>0, <3>2 DEF JobsOf, InTurn
      <4>2. \A q \in Calls \ {r} : About(q, k)' =>
                /\ ~J!Running(q)' /\ Keeps(q, k)'
        BY <2>1, <2>5, <4>1 DEF J!Running, Keeps
      <4>3. Keeps(r, k)'
        BY <1>b, <3>0, <3>2
      <4>4. \A q \in Calls : cronRequest'[q].server = cronRequest[q].server
        BY <2>1
      <4>5. \A s \in Servers : <<s, k>> \in job' =>
                \E p \in Calls : About(p, k)' /\ cronRequest'[p].server = {s}
        BY <1>b, <2>5, <3>0, <3>2, <4>4 DEF JobsOf, InTurn
      <4>6. \A p, q \in Calls : About(p, k)' /\ About(q, k)' =>
                cronRequest'[p].server = cronRequest'[q].server
        BY <2>5, <3>0, <3>2, <4>4 DEF JobsOf, InTurn
      <4>7. InTurn(k)'
        BY <4>2, <4>3, <4>5, <4>6 DEF InTurn
      <4>8. (\A q \in Calls : About(q, k)' => cronRequest'[q].at # "committed") => at = "over"
        BY <1>b, <2>1, <2>5
      <4> QED
        BY <1>b, <3>0, <3>2, <4>7, <4>8 DEF JobsOf
    <3> QED
      BY <3>1, <3>2
  <2> QED
    BY <2>2, <2>4, <2>6 DEF SchedulesInv
<1>4. ASSUME NEW r \in Calls, NEW k \in Crons, J!Commit(r, k) PROVE SchedulesInv'
  <2>1. /\ About(r, k) /\ cronRequest[r].at \in {"same", "loaded"} /\ J!Running(r)
        /\ UNCHANGED <<job, mixed, forgotten>>
    BY <1>4 DEF J!Commit, About, J!Running
  <2>2. /\ cronRequest[r].at = "loaded" /\ schedule[k] = "deleted" =>
               J!Go(r, "over") /\ schedule' = schedule
        /\ ~(cronRequest[r].at = "loaded" /\ schedule[k] = "deleted") => J!Go(r, "committed")
        /\ cronRequest[r].at = "same" => schedule' = schedule
        /\ cronRequest[r].at = "loaded" /\ schedule[k] # "deleted" =>
               schedule' = [schedule EXCEPT ![k] = J!Status(cronRequest[r].op)]
    BY <1>4, <2>1 DEF J!Commit
  <2>3. /\ schedule' \in [Crons -> {"none", "on", "off", "deleted"}]
        /\ \A l \in Crons \ {k} : schedule'[l] = schedule[l]
    BY <1>0, <2>1, <2>2 DEF J!Status
  <2>4. k \notin mixed => Keeps(r, k)
    BY <2>1 DEF SchedulesInv, JobsOf, InTurn
  <2>5. CASE cronRequest[r].at = "loaded" /\ schedule[k] = "deleted"
    <3>1. k \in mixed
      BY <2>4, <2>5 DEF Keeps
    <3> QED
      BY <1>0, <1>b, <2>1, <2>2, <2>3, <2>5, <3>1
  <2>6. CASE ~(cronRequest[r].at = "loaded" /\ schedule[k] = "deleted")
    <3>1. cronRequest'[r].at = "committed" /\ cronRequest'[r].op = cronRequest[r].op
      BY <1>0, <2>2, <2>6 DEF J!Go, Request
    <3>2. k \notin mixed => Keeps(r, k)'
      BY <1>0, <2>1, <2>2, <2>4, <2>6, <3>1 DEF Keeps
    <3> QED
      BY <1>0, <1>b, <2>1, <2>2, <2>3, <2>6, <3>2
  <2> QED
    BY <2>5, <2>6
\* The jobs of a schedule are all on the server of its requests.
<1>5. ASSUME NEW r \in Calls, NEW k \in Crons, NEW s \in Servers, J!Apply(r, k, s)
      PROVE  SchedulesInv'
  <2>1. /\ About(r, k) /\ cronRequest[r].server = {s} /\ cronRequest[r].at = "committed"
        /\ J!Running(r) /\ job' = J!Jobs(r, k, s) /\ J!Go(r, "over")
        /\ UNCHANGED <<schedule, mixed, forgotten>>
    BY <1>5 DEF J!Apply, About, J!Running
  <2>2. job' \in {job, job \cup {<<s, k>>}, job \ {<<s, k>>}}
    BY <2>1 DEF J!Jobs
  <2>3. /\ job' \subseteq Servers \X Crons
        /\ \A l \in Crons \ {k} : \A t \in Servers : <<t, l>> \in job' <=> <<t, l>> \in job
        /\ \A t \in Servers : <<t, k>> \in job' => <<t, k>> \in job \/ cronRequest[r].server = {t}
    BY <1>0, <2>1, <2>2
  <2>4. ASSUME k \notin mixed PROVE Keeps(r, k)' /\ Follow(k)'
    <3>1. /\ Keeps(r, k)
          /\ \A t \in Servers : <<t, k>> \in job => t = s
      <4>1. InTurn(k)
        BY <2>4 DEF SchedulesInv, JobsOf
      <4>2. \A q \in Calls : About(q, k) => cronRequest[q].server = {s}
        BY <2>1, <4>1 DEF InTurn
      <4> QED
        BY <2>1, <4>1, <4>2 DEF InTurn
    <3>2. cronRequest'[r].at = "over"
      BY <1>0, <2>1 DEF J!Go, Request
    <3>3. CASE cronRequest[r].op = "enabled"
      <4>1. schedule[k] = "on"
        BY <2>1, <3>1, <3>3 DEF Keeps, J!Status
      <4>2. k \in Valid => job' = job \cup {<<s, k>>}
        BY <2>1, <3>3 DEF J!Jobs
      <4> QED
        BY <2>1, <3>2, <4>1, <4>2 DEF Keeps, Follow
    <3>4. CASE cronRequest[r].op # "enabled"
      <4>1. schedule[k] # "on" /\ cronRequest[r].op \in {"disabled", "delete"}
        BY <2>1, <3>1, <3>4 DEF Keeps, J!Status
      <4>2. job' = job \ {<<s, k>>}
        BY <2>1, <4>1 DEF J!Jobs
      <4> QED
        BY <2>1, <3>1, <3>2, <4>1, <4>2 DEF Keeps, Follow
    <3> QED
      BY <3>3, <3>4
  <2> QED
    BY <1>0, <1>b, <2>1, <2>3, <2>4
\* A restart takes all the jobs and requests of a schedule or none of them.
<1>6. ASSUME NEW s \in Servers, J!Restart(s) PROVE SchedulesInv'
  <2>1. /\ job' = {j \in job : j[1] # s} /\ UNCHANGED <<schedule, mixed>>
        /\ cronRequest' = [r \in Calls |-> IF cronRequest[r].server = {s}
                                             THEN [cronRequest[r] EXCEPT !.at = "over"]
                                             ELSE cronRequest[r]]
        /\ forgotten' = forgotten \cup {k \in Crons :
               \E r \in Calls : cronRequest[r].server = {s} /\ cronRequest[r].of = {k}}
    BY <1>6 DEF J!Restart
  <2>2. /\ cronRequest' \in [Calls -> Request]
        /\ \A r \in Calls : /\ cronRequest'[r].of = cronRequest[r].of
                            /\ cronRequest'[r].server = cronRequest[r].server
                            /\ cronRequest[r].server = {s} => cronRequest'[r].at = "over"
                            /\ cronRequest[r].server # {s} => cronRequest'[r] = cronRequest[r]
    BY <1>0, <2>1 DEF Request
  <2>3. J!TypeOK'
    BY <1>0, <2>1, <2>2 DEF J!TypeOK, Request
  <2>4. /\ \A q \in Calls : (cronRequest'[q].at = "start") = (cronRequest'[q].of = {})
        /\ \A q \in Calls : (cronRequest'[q].at = "start") = (cronRequest'[q].server = {})
    BY <2>2 DEF SchedulesInv
  <2>5. \A q \in Calls : \A l : About(q, l)' <=> About(q, l)
    BY <2>2 DEF About
  <2>6. ASSUME NEW k \in Crons \ mixed' PROVE JobsOf(k)'
    <3>0. JobsOf(k)
      BY <2>1, <2>6 DEF SchedulesInv
    <3>1. CASE \E r \in Calls : About(r, k) /\ cronRequest[r].server = {s}
      <4>1. \A q \in Calls : About(q, k) => cronRequest[q].server = {s}
        BY <3>0, <3>1 DEF JobsOf, InTurn
      <4>2. \A t \in Servers : <<t, k>> \notin job'
        <5>1. \A t \in Servers : <<t, k>> \in job => t = s
          BY <3>0, <4>1 DEF JobsOf, InTurn
        <5> QED
          BY <2>1, <5>1
      <4>3. \A q \in Calls : About(q, k)' => cronRequest'[q].at = "over" /\ cronRequest'[q].server = {s}
        BY <2>2, <2>5, <4>1
      <4>4. InTurn(k)'
        BY <4>2, <4>3 DEF InTurn, Keeps, J!Running
      <4>5. k \in forgotten'
        BY <2>1, <3>1 DEF About
      <4> QED
        BY <4>2, <4>4, <4>5 DEF JobsOf, Follow
    <3>2. CASE \A r \in Calls : About(r, k) => cronRequest[r].server # {s}
      <4>1. \A t \in Servers : <<t, k>> \in job' <=> <<t, k>> \in job
        <5>1. <<s, k>> \notin job
          BY <3>0, <3>2 DEF JobsOf, InTurn
        <5> QED
          BY <2>1, <5>1
      <4>2. k \in forgotten' <=> k \in forgotten
        BY <2>1, <3>2 DEF About
      <4> QED
        BY <2>1, <2>2, <2>5, <3>0, <3>2, <4>1, <4>2, Untouched
    <3> QED
      BY <3>1, <3>2
  <2> QED
    BY <2>3, <2>4, <2>6 DEF SchedulesInv
<1>7. CASE UNCHANGED J!vars
  <2>1. \A k \in Crons : JobsOf(k) => JobsOf(k)'
    BY <1>7, Untouched DEF J!vars, About
  <2> QED
    BY <1>7, <2>1 DEF J!vars, SchedulesInv, J!TypeOK
<1> QED
  BY <1>1, <1>2, <1>3, <1>4, <1>5, <1>6, <1>7 DEF J!Next

\* A request that is not running has not just committed.
LEMMA SchedulesPromise == SchedulesInv => J!JobsFollowRows
BY DEF SchedulesInv, JobsOf, Follow, About, J!Running, J!JobsFollowRows

-----------------------------------------------------------------------------
(* Broadcasts *)

\* The events there may be; a task whose client may still be there has lost nothing and listens.
Numbered == 1..MaxEvents

Whole(t) == (shown[t] \o sending[t]) \o queue[t] = due[t]

BroadcastInv ==
    /\ B!TypeOK
    /\ \A s \in Sockets, c \in Channels :
           socket[s] \in {"new", "open", "left"} =>
               Whole(<<s, c>>) /\ (due[<<s, c>>] # <<>> => B!Subscribed(s, c))

\* Nothing was broadcast.
LEMMA BroadcastInit == B!Init => BroadcastInv
<1> SUFFICES ASSUME B!Init PROVE BroadcastInv
  OBVIOUS
<1>1. MaxEvents \in Nat /\ MaxQueue \in Nat
  BY PartAssumptions DEF B!LimitsAssumption
<1>2. /\ {queue, sending, shown, due} \subseteq [B!Task -> B!Log]
      /\ \A t \in B!Task : /\ queue[t] = <<>> /\ sending[t] = <<>> /\ shown[t] = <<>> /\ due[t] = <<>>
  BY DEF B!Init, B!Log
<1>3. \A s \in Sockets, c \in Channels : <<s, c>> \in B!Task
  BY DEF B!Task
<1>4. B!TypeOK
  BY <1>1, <1>2 DEF B!Init, B!TypeOK
<1>5. (<<>> \o <<>>) \o <<>> = <<>>
  BY ConcatEmptySeq
<1>6. \A s \in Sockets, c \in Channels : Whole(<<s, c>>) /\ due[<<s, c>>] = <<>>
  BY <1>2, <1>3, <1>5 DEF Whole
<1> QED
  BY <1>4, <1>6 DEF B!Init, BroadcastInv

\* What is taken from the queue goes to the end of what was taken before.
LEMMA TakeKeeps ==
    ASSUME NEW Element, NEW s \in Seq(Element), NEW q \in Seq(Element), q # <<>>
    PROVE  (s \o <<Head(q)>>) \o Tail(q) = s \o q
<1>1. Head(q) \in Element /\ Tail(q) \in Seq(Element) /\ Len(Tail(q)) = Len(q) - 1
      /\ \A i \in 1..Len(Tail(q)) : Tail(q)[i] = q[i + 1]
  BY HeadTailProperties
<1>2. <<Head(q)>> \in Seq(Element) /\ Len(<<Head(q)>>) = 1 /\ <<Head(q)>>[1] = q[1]
  BY <1>1
<1>3. Len(q) \in Nat \ {0}
  OBVIOUS
<1>4. <<Head(q)>> \o Tail(q) = q
  <2> DEFINE h == <<Head(q)>>
             r == Tail(q)
             j == h \o r
  <2>1. /\ j \in Seq(Element) /\ Len(j) = Len(h) + Len(r)
        /\ \A i \in 1..(Len(h) + Len(r)) : j[i] = IF i <= Len(h) THEN h[i] ELSE r[i - Len(h)]
    BY <1>1, <1>2, ConcatProperties
  <2>2. Len(h) = 1 /\ h[1] = q[1] /\ Len(r) = Len(q) - 1 /\ \A i \in 1..Len(r) : r[i] = q[i + 1]
    BY <1>1, <1>2
  <2> HIDE DEF h, r, j
  <2>3. Len(j) = Len(q)
    BY <1>3, <2>1, <2>2
  <2>4. \A i \in 1..Len(q) : j[i] = q[i]
    BY <1>3, <2>1, <2>2
  <2>5. j = q
    BY <2>1, <2>3, <2>4
  <2> QED
    BY <2>5 DEF h, r, j
<1> QED
  BY <1>1, <1>2, <1>4, ConcatAssociative

\* What is put in the queue goes to the end of it all.
LEMMA PutKeeps ==
    ASSUME NEW Element, NEW s \in Seq(Element), NEW q \in Seq(Element), NEW e \in Element
    PROVE  s \o Append(q, e) = Append(s \o q, e)
<1>1. s \o q \in Seq(Element) /\ <<e>> \in Seq(Element)
  BY ConcatProperties
<1>2. Append(q, e) = q \o <<e>> /\ Append(s \o q, e) = (s \o q) \o <<e>>
  BY <1>1, AppendIsConcat
<1> QED
  BY <1>1, <1>2, ConcatAssociative

\* Every step of Broadcast keeps BroadcastInv.
LEMMA BroadcastNext == BroadcastInv /\ [B!Next]_(B!vars) => BroadcastInv'
<1> SUFFICES ASSUME BroadcastInv, [B!Next]_(B!vars) PROVE BroadcastInv'
  OBVIOUS
<1> DEFINE Stage == {"new", "open", "left", "closing", "closed"}
<1>0. /\ B!TypeOK
      /\ channel \in [Channels -> SUBSET Sockets] /\ socket \in [Sockets -> Stage]
      /\ queue \in [B!Task -> B!Log] /\ sending \in [B!Task -> B!Log]
      /\ shown \in [B!Task -> B!Log] /\ due \in [B!Task -> B!Log]
      /\ \A t \in B!Task : Len(queue[t]) <= MaxQueue /\ Len(sending[t]) <= 1
      /\ event \in 0..MaxEvents /\ MaxEvents \in Nat /\ MaxQueue \in Nat
  BY PartAssumptions DEF BroadcastInv, B!TypeOK, B!LimitsAssumption
<1>00. /\ \A t \in B!Task : shown[t] \in B!Log /\ sending[t] \in B!Log /\ queue[t] \in B!Log
                            /\ due[t] \in B!Log
       /\ \A t \in B!Task : shown[t] \o sending[t] \in B!Log
       /\ \A s \in Sockets, c \in Channels : <<s, c>> \in B!Task
  BY <1>0, ConcatProperties DEF B!Log, B!Task
\* A socket moves between stages.
<1>a. ASSUME NEW s \in Sockets, NEW at \in Stage, socket' = [socket EXCEPT ![s] = at],
             UNCHANGED <<channel, queue, sending, shown, due, event>>,
             at \in {"new", "open", "left"} => socket[s] \in {"new", "open", "left"}
      PROVE  BroadcastInv'
  <2>1. /\ socket' \in [Sockets -> Stage] /\ socket'[s] = at
        /\ \A r \in Sockets \ {s} : socket'[r] = socket[r]
    BY <1>0, <1>a
  <2>2. B!TypeOK'
    BY <1>0, <1>a, <2>1 DEF B!TypeOK
  <2>3. \A r \in Sockets, c \in Channels :
            /\ Whole(<<r, c>>)' <=> Whole(<<r, c>>)
            /\ due'[<<r, c>>] = due[<<r, c>>]
            /\ B!Subscribed(r, c)' <=> B!Subscribed(r, c)
    BY <1>a DEF Whole, B!Subscribed
  <2> HIDE DEF Stage
  <2>4. ASSUME NEW r \in Sockets, NEW c \in Channels
        PROVE  socket'[r] \in {"new", "open", "left"} =>
                   Whole(<<r, c>>)' /\ (due'[<<r, c>>] # <<>> => B!Subscribed(r, c)')
    <3>1. CASE r = s
      BY <1>a, <2>1, <2>3, <3>1 DEF BroadcastInv
    <3>2. CASE r # s
      BY <2>1, <2>3, <3>2 DEF BroadcastInv
    <3> QED
      BY <3>1, <3>2
  <2> QED
    BY <2>2, <2>4 DEF BroadcastInv
\* A task moves what it has between its logs.
<1>b. ASSUME NEW s \in Sockets, NEW c \in Channels, UNCHANGED <<channel, socket, due, event>>,
             queue' \in [B!Task -> B!Log], sending' \in [B!Task -> B!Log],
             shown' \in [B!Task -> B!Log],
             \A t \in B!Task \ {<<s, c>>} : /\ queue'[t] = queue[t] /\ sending'[t] = sending[t]
                                            /\ shown'[t] = shown[t],
             Len(queue'[<<s, c>>]) <= MaxQueue, Len(sending'[<<s, c>>]) <= 1,
             Whole(<<s, c>>) => Whole(<<s, c>>)'
      PROVE  BroadcastInv'
  <2>1. \A t \in B!Task : Len(queue'[t]) <= MaxQueue /\ Len(sending'[t]) <= 1
    BY <1>0, <1>b
  <2>2. B!TypeOK'
    BY <1>0, <1>b, <2>1 DEF B!TypeOK
  <2>3. \A t \in B!Task : Whole(t) => Whole(t)'
    BY <1>b DEF Whole
  <2> QED
    BY <1>00, <1>b, <2>2, <2>3 DEF BroadcastInv, B!Subscribed
\* A channel gains or loses a socket.
<1>c. ASSUME NEW s \in Sockets, NEW c \in Channels, UNCHANGED <<queue, socket, sending, shown, due, event>>,
             \/ channel' = [channel EXCEPT ![c] = @ \cup {s}]
             \/ socket[s] \in {"closing", "closed"} /\ channel' = [channel EXCEPT ![c] = @ \ {s}]
      PROVE  BroadcastInv'
  <2>1. channel' \in [Channels -> SUBSET Sockets]
    BY <1>0, <1>c
  <2>2. B!TypeOK'
    BY <1>0, <1>c, <2>1 DEF B!TypeOK
  <2>3. \A r \in Sockets, d \in Channels :
            r # s => (r \in channel'[d] <=> r \in channel[d])
    BY <1>0, <1>c
  <2>4. socket[s] \in {"new", "open", "left"} =>
            \A d \in Channels : s \in channel[d] => s \in channel'[d]
    BY <1>0, <1>c
  <2> QED
    BY <1>c, <2>2, <2>3, <2>4 DEF BroadcastInv, Whole, B!Subscribed
<1>1. ASSUME NEW c \in Channels, B!Send(c) PROVE BroadcastInv'
  <2> DEFINE put == {t \in B!Task : t[2] = c /\ B!Subscribed(t[1], c) /\ Len(queue[t]) < MaxQueue}
  <2>0. event' = event + 1 /\ event' \in Numbered
    <3>1. event < MaxEvents /\ event' = event + 1
      BY <1>1 DEF B!Send
    <3> QED
      BY <1>0, <3>1 DEF Numbered
  <2>1. /\ queue' = [t \in B!Task |-> IF t \in put THEN Append(queue[t], event') ELSE queue[t]]
        /\ due' = [t \in B!Task |-> IF t \in put THEN Append(due[t], event') ELSE due[t]]
        /\ UNCHANGED <<channel, socket, sending, shown>>
    BY <1>1 DEF B!Send
  <2>2. \A t \in put : Len(queue[t]) < MaxQueue /\ t \in B!Task
    OBVIOUS
  <2>3. \A s \in Sockets, d \in Channels : <<s, d>> \in put => B!Subscribed(s, d)
    OBVIOUS
  <2> HIDE DEF put
  <2>4. ASSUME NEW t \in B!Task
        PROVE  /\ queue'[t] \in B!Log /\ due'[t] \in B!Log /\ Len(queue'[t]) <= MaxQueue
               /\ Whole(t) => Whole(t)'
               /\ due'[t] # <<>> => due[t] # <<>> \/ t \in put
    <3>1. CASE t \notin put
      <4>1. queue'[t] = queue[t] /\ due'[t] = due[t]
        BY <2>1, <3>1
      <4> QED
        BY <1>0, <1>00, <2>1, <4>1 DEF Whole
    <3>2. CASE t \in put
      <4>1. queue'[t] = Append(queue[t], event') /\ due'[t] = Append(due[t], event')
        BY <2>1, <3>2
      <4>0. /\ queue[t] \in Seq(Numbered) /\ due[t] \in Seq(Numbered)
            /\ shown[t] \o sending[t] \in Seq(Numbered)
        BY <1>00 DEF B!Log, Numbered
      <4>2. /\ queue'[t] \in B!Log /\ due'[t] \in B!Log /\ Len(queue'[t]) = Len(queue[t]) + 1
        BY <2>0, <4>0, <4>1, AppendProperties DEF B!Log, Numbered
      <4> DEFINE before == shown[t] \o sending[t]
                 waits == queue[t]
                 new == event'
      <4>3. before \o Append(waits, new) = Append(before \o waits, new)
        <5>1. before \in Seq(Numbered) /\ waits \in Seq(Numbered) /\ new \in Numbered
          BY <2>0, <4>0
        <5> HIDE DEF before, waits, new
        <5> QED
          BY <5>1, PutKeeps
      <4>4. Len(queue[t]) \in Nat
        BY <1>00 DEF B!Log
      <4>5. Len(queue'[t]) <= MaxQueue
        BY <1>0, <2>2, <3>2, <4>2, <4>4
      <4> QED
        BY <2>1, <3>2, <4>1, <4>2, <4>3, <4>5 DEF Whole
    <3> QED
      BY <3>1, <3>2
  <2>5. B!TypeOK'
    <3>1. queue' \in [B!Task -> B!Log] /\ due' \in [B!Task -> B!Log]
      BY <2>1, <2>4
    <3>2. event' \in 0..MaxEvents
      BY <1>0, <2>0 DEF Numbered
    <3> QED
      BY <1>0, <2>1, <2>4, <3>1, <3>2 DEF B!TypeOK
  <2> QED
    BY <1>00, <2>1, <2>3, <2>4, <2>5 DEF BroadcastInv, B!Subscribed
<1>2. ASSUME NEW s \in Sockets, B!Accept(s) \/ B!Leave(s) \/ B!Close(s) PROVE BroadcastInv'
  BY <1>2, <1>a DEF B!Accept, B!Leave, B!Close
<1>3. ASSUME NEW s \in Sockets, NEW c \in Channels, B!Subscribe(s, c) \/ B!Unsubscribe(s, c)
      PROVE  BroadcastInv'
  BY <1>3, <1>c DEF B!Subscribe, B!Unsubscribe, B!Remaining
<1>4. ASSUME NEW s \in Sockets, NEW c \in Channels, B!Take(s, c) PROVE BroadcastInv'
  <2> DEFINE t == <<s, c>>
  <2>1. /\ sending[t] = <<>> /\ queue[t] # <<>> /\ t \in B!Task
        /\ sending' = [sending EXCEPT ![t] = <<Head(queue[t])>>]
        /\ queue' = [queue EXCEPT ![t] = Tail(queue[t])]
        /\ UNCHANGED <<channel, socket, shown, due, event>>
    BY <1>00, <1>4 DEF B!Take
  <2>2. /\ Head(queue[t]) \in Numbered /\ Tail(queue[t]) \in B!Log
        /\ Len(Tail(queue[t])) = Len(queue[t]) - 1 /\ Len(queue[t]) \in Nat
    <3>1. queue[t] \in Seq(Numbered)
      BY <1>00, <2>1 DEF B!Log, Numbered
    <3> HIDE DEF t
    <3>2. Head(queue[t]) \in Numbered /\ Tail(queue[t]) \in Seq(Numbered)
          /\ Len(Tail(queue[t])) = Len(queue[t]) - 1
      BY <2>1, <3>1, HeadTailProperties
    <3> QED
      BY <3>1, <3>2 DEF B!Log, Numbered
  <2>3. <<Head(queue[t])>> \in B!Log /\ Len(<<Head(queue[t])>>) = 1
    BY <2>2 DEF B!Log, Numbered
  <2> HIDE DEF t
  <2>4. /\ queue' \in [B!Task -> B!Log] /\ sending' \in [B!Task -> B!Log]
        /\ queue'[t] = Tail(queue[t]) /\ sending'[t] = <<Head(queue[t])>>
        /\ \A u \in B!Task \ {t} : queue'[u] = queue[u] /\ sending'[u] = sending[u]
    BY <1>0, <2>1, <2>2, <2>3
  <2>5. Len(queue'[t]) <= MaxQueue
    BY <1>0, <2>1, <2>2, <2>4
  <2>6. shown[t] \o <<>> = shown[t]
    BY <1>00, <2>1, ConcatEmptySeq DEF B!Log
  <2>7. (shown[t] \o <<Head(queue[t])>>) \o Tail(queue[t]) = shown[t] \o queue[t]
    BY <1>00, <2>1, TakeKeeps DEF B!Log
  <2>8. Whole(t) => Whole(t)'
    BY <2>1, <2>4, <2>6, <2>7 DEF Whole
  <2> QED
    <3>1. Len(sending'[t]) <= 1
      BY <2>3, <2>4
    <3> QED
      BY <1>0, <1>b, <2>1, <2>4, <2>5, <2>8, <3>1 DEF t
<1>5. ASSUME NEW s \in Sockets, NEW c \in Channels, B!Forward(s, c) PROVE BroadcastInv'
  <2> DEFINE t == <<s, c>>
  <2>1. CASE socket' = [socket EXCEPT ![s] = "closing"] /\ UNCHANGED <<shown, sending>>
    BY <1>5, <1>a, <2>1 DEF B!Forward
  <2>2. CASE /\ shown' = [shown EXCEPT ![t] = shown[t] \o sending[t]]
             /\ sending' = [sending EXCEPT ![t] = <<>>] /\ UNCHANGED socket
    <3>1. t \in B!Task /\ UNCHANGED <<channel, queue, due, event>>
      BY <1>00, <1>5 DEF B!Forward
    <3> HIDE DEF t
    <3>2. <<>> \in B!Log /\ Len(<<>>) = 0
      BY DEF B!Log
    <3>3. /\ shown' \in [B!Task -> B!Log] /\ sending' \in [B!Task -> B!Log]
          /\ shown'[t] = shown[t] \o sending[t] /\ sending'[t] = <<>>
          /\ \A u \in B!Task \ {t} : shown'[u] = shown[u] /\ sending'[u] = sending[u]
      BY <1>0, <1>00, <2>2, <3>1, <3>2
    <3>4. (shown[t] \o sending[t]) \o <<>> = shown[t] \o sending[t]
      BY <1>00, <3>1, ConcatEmptySeq DEF B!Log
    <3>5. Whole(t) => Whole(t)'
      BY <3>1, <3>3, <3>4 DEF Whole
    <3>6. Len(sending'[t]) <= 1 /\ Len(queue'[t]) <= MaxQueue
      BY <1>0, <3>1, <3>2, <3>3
    <3> QED
      BY <1>0, <1>b, <2>2, <3>1, <3>3, <3>5, <3>6 DEF t
  <2> QED
    BY <1>5, <2>1, <2>2 DEF B!Forward
<1>6. CASE UNCHANGED B!vars
  BY <1>0, <1>6 DEF B!vars, BroadcastInv, B!TypeOK, Whole, B!Subscribed
<1> QED
  BY <1>1, <1>2, <1>3, <1>4, <1>5, <1>6 DEF B!Next

\* What is kept is more than what is promised.
LEMMA BroadcastPromise == BroadcastInv => B!SubscribersTold
BY DEF BroadcastInv, Whole, B!SubscribersTold

-----------------------------------------------------------------------------
(* The response cache *)

\* An entry is of a call that is over and was answered, and lasts its time.
Proper(e) ==
    /\ e \in C!Entry
    /\ call[e.answer].at = "over" /\ e.answer \in answered
    /\ e.until = stored[e.answer] + TTL

\* So was the answer of a hit, which came in that time.
ProperHit(c, h) ==
    /\ h.answer \in Calls /\ h.at \in Nat /\ h.answer # c
    /\ call[h.answer].at = "over" /\ h.answer \in answered
    /\ h.at < stored[h.answer] + TTL

CacheInv ==
    /\ C!TypeOK
    /\ memory \in [Servers -> SUBSET C!Entry]
    /\ \A e \in redis : Proper(e) /\ e.until > now
    /\ \A s \in Servers : \A e \in memory[s] : Proper(e)
    /\ \A c \in Calls : call[c].at \in {"record", "store"} => c \in answered
    /\ \A c \in Calls : \A h \in hit[c] : ProperHit(c, h)

\* Nothing is cached.
LEMMA CacheInit == C!Init => CacheInv
<1> SUFFICES ASSUME C!Init PROVE CacheInv
  OBVIOUS
<1>1. MaxTime \in Nat /\ TTL \in Nat
  BY PartAssumptions DEF C!TTLAssumption
<1>2. /\ redis = {} /\ \A s \in Servers : memory[s] = {}
      /\ \A c \in Calls : call[c].at = "start" /\ hit[c] = {}
  BY DEF C!Init
<1>3. C!TypeOK /\ memory \in [Servers -> SUBSET C!Entry]
  BY <1>1 DEF C!Init, C!TypeOK, C!At
<1> QED
  BY <1>2, <1>3 DEF CacheInv

\* Calls that are over stay so, with when they were stored, and what was answered
\* stays so: entries and hits stay proper.
LEMMA StayProper ==
    ASSUME \A c \in Calls : call[c].at = "over" => call'[c].at = "over" /\ stored'[c] = stored[c],
           answered \subseteq answered'
    PROVE  /\ \A e : Proper(e) => Proper(e)'
           /\ \A c, h : ProperHit(c, h) => ProperHit(c, h)'
BY DEF Proper, ProperHit, C!Entry

\* Every step of Cache keeps CacheInv.
LEMMA CacheNext == CacheInv /\ [C!Next]_(C!vars) => CacheInv'
<1> SUFFICES ASSUME CacheInv, [C!Next]_(C!vars) PROVE CacheInv'
  OBVIOUS
<1> DEFINE Call == [server : {{}} \cup {{s} : s \in Servers}, at : C!At]
           Stored == [answer : Calls, until : 0..(MaxTime + TTL)]
<1>0. /\ C!TypeOK /\ memory \in [Servers -> SUBSET C!Entry]
      /\ now \in 0..MaxTime /\ reachable \in BOOLEAN
      /\ redis \in {{}} \cup {{e} : e \in Stored}
      /\ call \in [Calls -> Call] /\ answered \subseteq Calls
      /\ stored \in [Calls -> Nat] /\ hit \in [Calls -> SUBSET [answer : Calls, at : Nat]]
      /\ MaxTime \in Nat /\ TTL \in Nat /\ now \in Nat
      /\ {"start", "redis", "memory", "ask", "record", "store", "over"} = C!At
  BY PartAssumptions DEF CacheInv, C!TypeOK, C!At, C!TTLAssumption
<1> HIDE DEF Call, Stored
\* The entries and hits that are there stay proper.
<1>a. ASSUME NEW c \in Calls, call[c].at # "over", call' \in [Calls -> Call],
             \A d \in Calls \ {c} : call'[d] = call[d] /\ stored'[d] = stored[d],
             stored' \in [Calls -> Nat], answered' \in SUBSET Calls, answered \subseteq answered',
             now' = now, reachable' = reachable,
             call'[c].at \in {"record", "store"} => c \in answered',
             memory' \in [Servers -> SUBSET C!Entry],
             redis' \in {{}} \cup {{e} : e \in Stored},
             \A e \in redis' \ redis : Proper(e)' /\ e.until > now,
             \A s \in Servers : \A e \in memory'[s] \ memory[s] : Proper(e)',
             hit' \in [Calls -> SUBSET [answer : Calls, at : Nat]],
             \A d \in Calls \ {c} : hit'[d] = hit[d],
             \A h \in hit'[c] \ hit[c] : ProperHit(c, h)'
      PROVE  CacheInv'
  <2>1. /\ \A e : Proper(e) => Proper(e)'
        /\ \A d, h : ProperHit(d, h) => ProperHit(d, h)'
    BY <1>a, StayProper
  <2>2. C!TypeOK'
    BY <1>0, <1>a DEF C!TypeOK, Call, Stored
  <2>3. \A e \in redis' : Proper(e)' /\ e.until > now'
    BY <1>a, <2>1 DEF CacheInv
  <2>4. \A s \in Servers : \A e \in memory'[s] : Proper(e)'
    BY <1>a, <2>1 DEF CacheInv
  <2>5. \A d \in Calls : call'[d].at \in {"record", "store"} => d \in answered'
    BY <1>a DEF CacheInv
  <2>6. \A d \in Calls : \A h \in hit'[d] : ProperHit(d, h)'
    BY <1>a, <2>1 DEF CacheInv
  <2> QED
    BY <1>a, <2>2, <2>3, <2>4, <2>5, <2>6 DEF CacheInv
\* A call goes on and nothing else is new.
<1>b. ASSUME NEW c \in Calls, NEW at \in C!At, C!Go(c, at), call[c].at # "over"
      PROVE  /\ call' \in [Calls -> Call] /\ call'[c].at = at
             /\ \A d \in Calls \ {c} : call'[d] = call[d]
  BY <1>0, <1>b DEF C!Go, Call
\* A hit, of a proper entry that is alive.
<1>c. ASSUME NEW c \in Calls, NEW e, C!Hit(c, e), Proper(e), e.until > now, call[c].at # "over",
             call'[c].at = "over", \A d \in Calls \ {c} : call'[d] = call[d],
             UNCHANGED <<stored, answered>>
      PROVE  /\ hit' \in [Calls -> SUBSET [answer : Calls, at : Nat]]
             /\ \A d \in Calls \ {c} : hit'[d] = hit[d]
             /\ \A h \in hit'[c] \ hit[c] : ProperHit(c, h)'
  <2>0. PICK new : new = [answer |-> e.answer, at |-> now]
    OBVIOUS
  <2>1. hit' = [hit EXCEPT ![c] = {new}]
    BY <1>c, <2>0 DEF C!Hit
  <2>2. e.answer \in Calls /\ e.answer # c /\ new \in [answer : Calls, at : Nat]
    BY <1>0, <1>c, <2>0 DEF Proper, C!Entry
  <2>3. new.answer = e.answer /\ new.at = now
    BY <2>0
  <2>4. call'[new.answer] = call[new.answer] /\ new.at < stored[new.answer] + TTL
    BY <1>0, <1>c, <2>2, <2>3 DEF Proper
  <2>5. ProperHit(c, new)'
    BY <1>0, <1>c, <2>2, <2>3, <2>4 DEF Proper, ProperHit
  <2>6. /\ hit' \in [Calls -> SUBSET [answer : Calls, at : Nat]]
        /\ hit'[c] = {new} /\ \A d \in Calls \ {c} : hit'[d] = hit[d]
    BY <1>0, <2>1, <2>2
  <2> QED
    BY <2>5, <2>6
<1>1. CASE C!Tick
  <2>1. /\ now < MaxTime /\ now' = now + 1 /\ redis' = {e \in redis : e.until > now'}
        /\ UNCHANGED <<reachable, memory, call, answered, stored, hit>>
    BY <1>1 DEF C!Tick
  <2>2. now' \in 0..MaxTime /\ redis' \in {{}} \cup {{e} : e \in Stored}
    <3>1. redis = {} => redis' = {}
      BY <2>1
    <3>2. ASSUME NEW e \in Stored, redis = {e} PROVE redis' = {} \/ redis' = {e}
      BY <2>1, <3>2
    <3> QED
      BY <1>0, <2>1, <3>1, <3>2
  <2>3. C!TypeOK'
    BY <1>0, <2>1, <2>2 DEF C!TypeOK, Stored, Call
  <2>4. /\ \A e : Proper(e) => Proper(e)'
        /\ \A d, h : ProperHit(d, h) => ProperHit(d, h)'
    BY <2>1, StayProper
  <2> QED
    BY <2>1, <2>3, <2>4 DEF CacheInv
<1>2. CASE C!Outage
  <2>1. /\ reachable' \in BOOLEAN
        /\ UNCHANGED <<now, redis, memory, call, answered, stored, hit>>
    BY <1>2 DEF C!Outage
  <2>2. C!TypeOK'
    BY <1>0, <2>1 DEF C!TypeOK, Stored, Call
  <2>3. /\ \A e : Proper(e) => Proper(e)'
        /\ \A d, h : ProperHit(d, h) => ProperHit(d, h)'
    BY <2>1, StayProper
  <2> QED
    BY <2>1, <2>2, <2>3 DEF CacheInv
<1>3. ASSUME NEW s \in Servers, C!Restart(s) PROVE CacheInv'
  <2>1. /\ memory' = [memory EXCEPT ![s] = {}]
        /\ call' = [c \in Calls |-> IF call[c].server = {s} THEN [call[c] EXCEPT !.at = "over"]
                                    ELSE call[c]]
        /\ UNCHANGED <<now, reachable, redis, answered, stored, hit>>
    BY <1>3 DEF C!Restart
  <2>2. /\ call' \in [Calls -> Call]
        /\ \A c \in Calls : call'[c].at \in {call[c].at, "over"}
    BY <1>0, <2>1 DEF Call
  <2>3. memory' \in [Servers -> SUBSET C!Entry] /\ \A t \in Servers : memory'[t] \subseteq memory[t]
    BY <1>0, <2>1
  <2>4. C!TypeOK'
    BY <1>0, <2>1, <2>2, <2>3 DEF C!TypeOK, Stored, Call
  <2>5. /\ \A e : Proper(e) => Proper(e)'
        /\ \A d, h : ProperHit(d, h) => ProperHit(d, h)'
    BY <2>1, <2>2, StayProper
  <2>6. \A c \in Calls : call'[c].at \in {"record", "store"} => c \in answered'
    BY <2>1, <2>2 DEF CacheInv
  <2>7. \A t \in Servers : \A e \in memory'[t] : Proper(e)'
    BY <2>3, <2>5 DEF CacheInv
  <2> QED
    BY <2>1, <2>3, <2>4, <2>5, <2>6, <2>7 DEF CacheInv
<1>4. ASSUME NEW c \in Calls, NEW s \in Servers, C!Begin(c, s) PROVE CacheInv'
  <2>1. /\ call[c].at = "start" /\ call' = [call EXCEPT ![c] = [server |-> {s}, at |-> "redis"]]
        /\ UNCHANGED <<now, reachable, redis, memory, answered, stored, hit>>
    BY <1>4 DEF C!Begin
  <2>2. /\ call' \in [Calls -> Call] /\ call'[c].at = "redis"
        /\ \A d \in Calls \ {c} : call'[d] = call[d]
    BY <1>0, <2>1 DEF Call
  <2> QED
    BY <1>0, <1>a, <2>1, <2>2
<1>5. ASSUME NEW c \in Calls, C!AskRedis(c) PROVE CacheInv'
  <2>1. /\ call[c].at = "redis"
        /\ UNCHANGED <<now, reachable, redis, memory, answered, stored>>
    BY <1>5 DEF C!AskRedis
  <2>2. ASSUME NEW e \in redis, C!Hit(c, e), C!Go(c, "over") PROVE CacheInv'
    <3>1. /\ call' \in [Calls -> Call] /\ call'[c].at = "over"
          /\ \A d \in Calls \ {c} : call'[d] = call[d]
      BY <1>0, <1>b, <2>1, <2>2
    <3>2. /\ hit' \in [Calls -> SUBSET [answer : Calls, at : Nat]]
          /\ \A d \in Calls \ {c} : hit'[d] = hit[d]
          /\ \A h \in hit'[c] \ hit[c] : ProperHit(c, h)'
      BY <1>c, <2>1, <2>2, <3>1 DEF CacheInv
    <3> QED
      BY <1>0, <1>a, <2>1, <3>1, <3>2
  <2>3. CASE C!Go(c, "memory") /\ UNCHANGED hit
    <3>1. /\ call' \in [Calls -> Call] /\ call'[c].at = "memory"
          /\ \A d \in Calls \ {c} : call'[d] = call[d]
      BY <1>0, <1>b, <2>1, <2>3
    <3> QED
      BY <1>0, <1>a, <2>1, <2>3, <3>1
  <2> QED
    BY <1>5, <2>2, <2>3 DEF C!AskRedis
<1>6. ASSUME NEW c \in Calls, NEW s \in Servers, C!AskMemory(c, s) PROVE CacheInv'
  <2>1. /\ call[c].at = "memory"
        /\ memory' = [memory EXCEPT ![s] = {e \in memory[s] : C!Alive(e)}]
        /\ UNCHANGED <<now, reachable, redis, answered, stored>>
    BY <1>6 DEF C!AskMemory
  <2>2. memory' \in [Servers -> SUBSET C!Entry] /\ \A t \in Servers : memory'[t] \subseteq memory[t]
    BY <1>0, <2>1
  <2>3. ASSUME NEW e \in memory[s], C!Alive(e), C!Hit(c, e), C!Go(c, "over") PROVE CacheInv'
    <3>1. /\ call' \in [Calls -> Call] /\ call'[c].at = "over"
          /\ \A d \in Calls \ {c} : call'[d] = call[d]
      BY <1>0, <1>b, <2>1, <2>3
    <3>2. Proper(e) /\ e.until > now
      BY <2>3 DEF CacheInv, C!Alive
    <3>3. /\ hit' \in [Calls -> SUBSET [answer : Calls, at : Nat]]
          /\ \A d \in Calls \ {c} : hit'[d] = hit[d]
          /\ \A h \in hit'[c] \ hit[c] : ProperHit(c, h)'
      BY <1>c, <2>1, <2>3, <3>1, <3>2
    <3> QED
      BY <1>0, <1>a, <2>1, <2>2, <3>1, <3>3
  <2>4. CASE C!Go(c, "ask") /\ UNCHANGED hit
    <3>1. /\ call' \in [Calls -> Call] /\ call'[c].at = "ask"
          /\ \A d \in Calls \ {c} : call'[d] = call[d]
      BY <1>0, <1>b, <2>1, <2>4
    <3> QED
      BY <1>0, <1>a, <2>1, <2>2, <2>4, <3>1
  <2> QED
    BY <1>6, <2>3, <2>4 DEF C!AskMemory
<1>7. ASSUME NEW c \in Calls, C!Ask(c) \/ C!Record(c) PROVE CacheInv'
  <2>1. PICK at \in {"record", "over", "store"} :
            /\ C!Go(c, at) /\ answered' \in {answered, answered \cup {c}}
            /\ at \in {"record", "store"} => c \in answered'
    BY <1>7 DEF C!Ask, C!Record, CacheInv
  <2>2. call[c].at # "over" /\ UNCHANGED <<now, reachable, redis, memory, stored, hit>>
    BY <1>7 DEF C!Ask, C!Record
  <2>3. /\ call' \in [Calls -> Call] /\ call'[c].at = at
        /\ \A d \in Calls \ {c} : call'[d] = call[d]
    BY <1>0, <1>b, <2>1, <2>2
  <2> QED
    BY <1>0, <1>a, <2>1, <2>2, <2>3
<1>8. ASSUME NEW c \in Calls, NEW s \in Servers, C!Store(c, s) PROVE CacheInv'
  <2>0. PICK entry : entry = [answer |-> c, until |-> now + TTL]
    OBVIOUS
  <2>1. /\ call[c].at = "store" /\ stored' = [stored EXCEPT ![c] = now] /\ C!Go(c, "over")
        /\ UNCHANGED <<now, reachable, answered, hit>>
        /\ \/ redis' = {entry} /\ UNCHANGED memory
           \/ memory' = [memory EXCEPT ![s] = {entry}] /\ redis' \in {redis, {entry}}
    BY <1>8, <2>0 DEF C!Store
  <2>2. /\ call' \in [Calls -> Call] /\ call'[c].at = "over"
        /\ \A d \in Calls \ {c} : call'[d] = call[d]
    BY <1>0, <1>b, <2>1
  <2>3. /\ stored' \in [Calls -> Nat] /\ stored'[c] = now
        /\ \A d \in Calls \ {c} : stored'[d] = stored[d]
    BY <1>0, <2>1
  <2>4. entry \in Stored /\ entry \in C!Entry /\ entry.until > now /\ entry.answer = c
        /\ entry.until = now + TTL
    <3>1. now + TTL \in Nat /\ now + TTL \in 0..(MaxTime + TTL) /\ now + TTL > now
      BY <1>0, PartAssumptions DEF C!TTLAssumption
    <3> QED
      BY <2>0, <3>1 DEF Stored, C!Entry
  <2>5. Proper(entry)'
    <3>1. c \in answered'
      BY <2>1 DEF CacheInv
    <3> QED
      BY <2>2, <2>3, <2>4, <3>1 DEF Proper, C!Entry
  <2>6. redis' = redis \/ redis' = {entry}
    BY <2>1
  <2>7. /\ redis' \in {{}} \cup {{e} : e \in Stored}
        /\ \A e \in redis' \ redis : Proper(e)' /\ e.until > now
    BY <1>0, <2>4, <2>5, <2>6
  <2>8. memory' = memory \/ memory' = [memory EXCEPT ![s] = {entry}]
    BY <2>1
  <2>9. /\ memory' \in [Servers -> SUBSET C!Entry]
        /\ \A t \in Servers : memory'[t] = memory[t] \/ memory'[t] = {entry}
    BY <1>0, <2>4, <2>8
  <2>10. \A t \in Servers : \A e \in memory'[t] \ memory[t] : Proper(e)'
    BY <2>5, <2>9
  <2> QED
    BY <1>0, <1>a, <2>1, <2>2, <2>3, <2>7, <2>9, <2>10
<1>9. CASE UNCHANGED C!vars
  <2>1. UNCHANGED <<now, reachable, redis, memory, call, answered, stored, hit>>
    BY <1>9 DEF C!vars
  <2>2. /\ \A e : Proper(e) => Proper(e)'
        /\ \A d, h : ProperHit(d, h) => ProperHit(d, h)'
    BY <2>1, StayProper
  <2> QED
    BY <2>1, <2>2 DEF CacheInv, C!TypeOK
<1> QED
  BY <1>1, <1>2, <1>3, <1>4, <1>5, <1>6, <1>7, <1>8, <1>9 DEF C!Next

\* What is kept is more than what is promised.
LEMMA CachePromise == CacheInv => C!HitsAreSound
BY DEF CacheInv, ProperHit, C!HitsAreSound

-----------------------------------------------------------------------------
(* Notices *)

Informed(t, u) == \E n \in notice : n.user = u /\ n.of = t /\ n.kind = "assigned"

\* The request that created the task will tell him, or has died before that.
ToBeInformed(t, u) ==
    \E r \in Calls : \/ N!Is(r, "create", t, "died")
                     \/ /\ N!Is(r, "create", t, "committed")
                        /\ u \in taskRequest[r].tell \ taskRequest[r].by

AssigneeKnows(t) ==
    t \notin subtask =>
        \A row \in task[t] : row.assignee \notin {Nobody, row.by} =>
            Informed(t, row.assignee) \/ ToBeInformed(t, row.assignee)

NoticesInv ==
    /\ N!TypeOK
    /\ task \in [Tasks -> SUBSET N!Row]
    /\ \A t \in Tasks : AssigneeKnows(t)

\* There is no task.
LEMMA NoticesInit == N!Init => NoticesInv
<1> SUFFICES ASSUME N!Init PROVE NoticesInv
  OBVIOUS
<1>1. \A t \in Tasks : task[t] = {}
  BY DEF N!Init
<1>2. N!TypeOK /\ task \in [Tasks -> SUBSET N!Row]
  BY DEF N!Init, N!TypeOK, N!Request, N!Op
<1> QED
  BY <1>1, <1>2 DEF NoticesInv, AssigneeKnows

\* Whoever knew or was to be told of an assignment that stands is no worse off.
LEMMA StillKnows ==
    ASSUME NEW t \in Tasks, AssigneeKnows(t), task'[t] = task[t], subtask \subseteq subtask',
           \A u : Informed(t, u) => Informed(t, u)',
           \A u : ToBeInformed(t, u) => ToBeInformed(t, u)' \/ Informed(t, u)'
    PROVE  AssigneeKnows(t)'
BY DEF AssigneeKnows

\* A request that is over or did not create the task was nobody's hope.
LEMMA StillToBeInformed ==
    ASSUME NEW r \in Calls, NEW t \in Tasks,
           \/ taskRequest[r].at \notin {"committed", "died"}
           \/ taskRequest[r].op # "create" \/ taskRequest[r].of # {t}
           \/ N!Is(r, "create", t, "died")',
           \A q \in Calls \ {r} : taskRequest'[q] = taskRequest[q]
    PROVE  \A u : ToBeInformed(t, u) => ToBeInformed(t, u)'
BY DEF ToBeInformed, N!Is

\* Every step of Notices keeps NoticesInv.
LEMMA NoticesNext == NoticesInv /\ [N!Next]_(N!vars) => NoticesInv'
<1> SUFFICES ASSUME NoticesInv, [N!Next]_(N!vars) PROVE NoticesInv'
  OBVIOUS
<1>0. /\ N!TypeOK /\ task \in [Tasks -> SUBSET N!Row] /\ subtask \subseteq Tasks
      /\ comment \subseteq Tasks \X Calls /\ notice \subseteq N!Notice
      /\ taskRequest \in [Calls -> N!Request]
      /\ \A t \in Tasks : AssigneeKnows(t)
      /\ \A r \in Calls : /\ taskRequest[r].tell \subseteq Members
                          /\ taskRequest[r].by \in {{}} \cup {{u} : u \in Members}
                          /\ taskRequest[r].of \in {{}} \cup {{t} : t \in Tasks}
      /\ {"none", "create", "update", "done", "comment"} = N!Op
      /\ {"assigned", "done", "commented"} = N!Kind
      /\ Nobody \notin Members
  BY PartAssumptions DEF NoticesInv, N!TypeOK, N!Request, N!Op, N!Kind, N!NobodyAssumption
\* What a request becomes.
<1>a. ASSUME NEW r \in Calls, NEW a \in Members, NEW op \in N!Op, NEW t \in Tasks,
             NEW tell \in SUBSET Members, NEW at \in {"loaded", "committed", "over"},
             N!Begin(r, a, op, t, tell, at)
      PROVE  /\ taskRequest[r].at = "start" /\ taskRequest' \in [Calls -> N!Request]
             /\ taskRequest'[r] = [op |-> op, by |-> {a}, of |-> {t}, tell |-> tell, at |-> at]
             /\ \A q \in Calls \ {r} : taskRequest'[q] = taskRequest[q]
             /\ \A s \in Tasks : \A u : ToBeInformed(s, u) => ToBeInformed(s, u)'
  <2>1. /\ taskRequest[r].at = "start"
        /\ taskRequest' = [taskRequest EXCEPT ![r] =
               [op |-> op, by |-> {a}, of |-> {t}, tell |-> tell, at |-> at]]
    BY <1>a DEF N!Begin
  <2>2. [op |-> op, by |-> {a}, of |-> {t}, tell |-> tell, at |-> at] \in N!Request
    BY <1>0 DEF N!Request
  <2>3. /\ taskRequest' \in [Calls -> N!Request]
        /\ taskRequest'[r] = [op |-> op, by |-> {a}, of |-> {t}, tell |-> tell, at |-> at]
        /\ \A q \in Calls \ {r} : taskRequest'[q] = taskRequest[q]
    BY <1>0, <2>1, <2>2
  <2> QED
    BY <2>1, <2>3, StillToBeInformed
<1>b. ASSUME NEW r \in Calls, NEW at \in {"committed", "over", "died"}, N!Go(r, at)
      PROVE  /\ taskRequest' \in [Calls -> N!Request]
             /\ taskRequest'[r].at = at /\ taskRequest'[r].op = taskRequest[r].op
             /\ taskRequest'[r].of = taskRequest[r].of
             /\ \A q \in Calls \ {r} : taskRequest'[q] = taskRequest[q]
  BY <1>0, <1>b DEF N!Go, N!Request
\* The notices that are sent, of their types.
<1>c. ASSUME NEW r \in Calls, NEW t \in Tasks, NEW kind \in N!Kind
      PROVE  /\ notice \subseteq N!Told(r, t, kind, taskRequest[r].tell)
             /\ N!Told(r, t, kind, taskRequest[r].tell) \subseteq N!Notice
             /\ \A u \in taskRequest[r].tell \ taskRequest[r].by :
                    \E n \in N!Told(r, t, kind, taskRequest[r].tell) :
                        n.user = u /\ n.of = t /\ n.kind = kind
  <2>1. /\ notice \subseteq N!Told(r, t, kind, taskRequest[r].tell)
        /\ N!Told(r, t, kind, taskRequest[r].tell) \subseteq N!Notice
    BY <1>0 DEF N!Told, N!Notice
  <2>2. ASSUME NEW u \in taskRequest[r].tell \ taskRequest[r].by
        PROVE  \E n \in N!Told(r, t, kind, taskRequest[r].tell) :
                   n.user = u /\ n.of = t /\ n.kind = kind
    <3> DEFINE n == [user |-> u, of |-> t, kind |-> kind, from |-> r, read |-> FALSE]
    <3>1. u \in (taskRequest[r].tell \cap Members) \ taskRequest[r].by
      BY <1>0
    <3>2. n \in N!Told(r, t, kind, taskRequest[r].tell)
      BY <3>1 DEF N!Told
    <3> QED
      BY <3>2
  <2> QED
    BY <2>1, <2>2
\* A step that leaves the tasks and their notices alone.
<1>d. ASSUME UNCHANGED <<task, notice, subtask>>, comment' \subseteq Tasks \X Calls,
             taskRequest' \in [Calls -> N!Request],
             \A s \in Tasks : \A u : ToBeInformed(s, u) => ToBeInformed(s, u)'
      PROVE  NoticesInv'
  <2>1. N!TypeOK'
    BY <1>0, <1>d DEF N!TypeOK
  <2>2. ASSUME NEW t \in Tasks PROVE AssigneeKnows(t)'
    <3>1. \A u : Informed(t, u) => Informed(t, u)'
      BY <1>d DEF Informed
    <3> QED
      BY <1>0, <1>d, <3>1, StillKnows
  <2> QED
    BY <1>0, <1>d, <2>1, <2>2 DEF NoticesInv
<1>1. ASSUME NEW r \in Calls, NEW a \in Members, NEW t \in Tasks, NEW u \in Members \cup {Nobody},
             N!Create(r, a, t, u)
      PROVE  NoticesInv'
  <2>1. /\ task' = [task EXCEPT ![t] = {[creator |-> a, assignee |-> u, by |-> a]}]
        /\ N!Begin(r, a, "create", t, {u} \cap Members, "committed")
        /\ UNCHANGED <<subtask, comment, notice>>
    BY <1>1 DEF N!Create
  <2>2. /\ taskRequest' \in [Calls -> N!Request]
        /\ taskRequest'[r] = [op |-> "create", by |-> {a}, of |-> {t},
                              tell |-> {u} \cap Members, at |-> "committed"]
        /\ \A s \in Tasks : \A v : ToBeInformed(s, v) => ToBeInformed(s, v)'
    <3>0. PICK tell \in SUBSET Members : tell = {u} \cap Members
      OBVIOUS
    <3>1. "create" \in N!Op /\ N!Begin(r, a, "create", t, tell, "committed")
      BY <1>0, <2>1, <3>0
    <3> QED
      BY <1>a, <3>0, <3>1
  <2>3. /\ task' \in [Tasks -> SUBSET N!Row]
        /\ task'[t] = {[creator |-> a, assignee |-> u, by |-> a]}
        /\ \A s \in Tasks \ {t} : task'[s] = task[s]
    <3>1. [creator |-> a, assignee |-> u, by |-> a] \in N!Row
      BY DEF N!Row
    <3> QED
      BY <1>0, <2>1, <3>1
  <2>4. N!TypeOK'
    BY <1>0, <2>1, <2>2, <2>3 DEF N!TypeOK
  <2>5. \A s, v : Informed(s, v) => Informed(s, v)'
    BY <2>1 DEF Informed
  <2>6. ASSUME NEW s \in Tasks PROVE AssigneeKnows(s)'
    <3>1. CASE s # t
      BY <1>0, <2>1, <2>2, <2>3, <2>5, <3>1, StillKnows
    <3>2. CASE s = t
      <4>1. u \notin {Nobody, a} => ToBeInformed(t, u)'
        BY <2>2 DEF ToBeInformed, N!Is
      <4> QED
        BY <2>3, <3>2, <4>1 DEF AssigneeKnows
    <3> QED
      BY <3>1, <3>2
  <2> QED
    BY <2>3, <2>4, <2>6 DEF NoticesInv
<1>2. ASSUME NEW r \in Calls, NEW a \in Members, NEW t \in Tasks, NEW parent \in Tasks,
             NEW u \in Members \cup {Nobody}, N!CreateSubtask(r, a, t, parent, u)
      PROVE  NoticesInv'
  <2>1. /\ task' = [task EXCEPT ![t] = {[creator |-> a, assignee |-> u, by |-> a]}]
        /\ N!Begin(r, a, "create", t, {}, "over") /\ subtask' = subtask \cup {t}
        /\ UNCHANGED <<comment, notice>>
    BY <1>2 DEF N!CreateSubtask
  <2>2. /\ taskRequest' \in [Calls -> N!Request]
        /\ \A s \in Tasks : \A v : ToBeInformed(s, v) => ToBeInformed(s, v)'
    <3>1. {} \in SUBSET Members /\ "create" \in N!Op /\ "over" \in {"loaded", "committed", "over"}
      BY <1>0
    <3> QED
      BY <1>a, <2>1, <3>1
  <2>3. task' \in [Tasks -> SUBSET N!Row] /\ \A s \in Tasks \ {t} : task'[s] = task[s]
    <3>1. [creator |-> a, assignee |-> u, by |-> a] \in N!Row
      BY DEF N!Row
    <3> QED
      BY <1>0, <2>1, <3>1
  <2>4. N!TypeOK'
    BY <1>0, <2>1, <2>2, <2>3 DEF N!TypeOK
  <2>5. \A s, v : Informed(s, v) => Informed(s, v)'
    BY <2>1 DEF Informed
  <2>6. ASSUME NEW s \in Tasks PROVE AssigneeKnows(s)'
    <3>1. CASE s # t
      BY <1>0, <2>1, <2>2, <2>3, <2>5, <3>1, StillKnows
    <3>2. CASE s = t
      BY <2>1, <3>2 DEF AssigneeKnows
    <3> QED
      BY <3>1, <3>2
  <2> QED
    BY <2>3, <2>4, <2>6 DEF NoticesInv
<1>3. ASSUME NEW r \in Calls, NEW a \in Members, NEW t \in Tasks, NEW u \in Members, N!Load(r, a, t, u)
      PROVE  NoticesInv'
  <2>1. N!Begin(r, a, "update", t, {u}, "loaded") /\ UNCHANGED <<task, subtask, comment, notice>>
    BY <1>3 DEF N!Load
  <2> QED
    BY <1>0, <1>a, <1>d, <2>1
<1>4. ASSUME NEW r \in Calls, NEW a \in Members, NEW t \in Tasks,
             N!Transition(r, a, t) \/ N!LoadComment(r, a, t)
      PROVE  NoticesInv'
  <2>1. /\ \/ N!Begin(r, a, "done", t, N!Watchers(t), "committed")
           \/ N!Begin(r, a, "comment", t, N!Watchers(t), "loaded")
        /\ UNCHANGED <<task, subtask, comment, notice>>
    BY <1>4 DEF N!Transition, N!LoadComment
  <2>2. N!Watchers(t) \in SUBSET Members
    BY DEF N!Watchers
  <2> QED
    BY <1>0, <1>a, <1>d, <2>1, <2>2
\* The new assignee is told in the commit that makes him so.
<1>5. ASSUME NEW r \in Calls, NEW t \in Tasks, N!Assign(r, t) PROVE NoticesInv'
  <2>1. PICK row \in task[t], a \in taskRequest[r].by, u \in taskRequest[r].tell :
            task' = [task EXCEPT ![t] = {[row EXCEPT !.assignee = u, !.by = a]}]
    BY <1>5 DEF N!Assign
  <2>2. /\ N!Is(r, "update", t, "loaded") /\ N!Go(r, "over") /\ UNCHANGED <<subtask, comment>>
        /\ notice' = N!Told(r, t, "assigned", taskRequest[r].tell)
    BY <1>5 DEF N!Assign, N!Assigned
  <2>3. u \in Members /\ a \in Members /\ taskRequest[r].by = {a} /\ row \in N!Row
    BY <1>0, <2>1
  <2>4. /\ task' \in [Tasks -> SUBSET N!Row]
        /\ \A new \in task'[t] : new.assignee = u /\ new.by = a
        /\ \A s \in Tasks \ {t} : task'[s] = task[s]
    <3>1. /\ [row EXCEPT !.assignee = u, !.by = a] \in N!Row
          /\ [row EXCEPT !.assignee = u, !.by = a].assignee = u
          /\ [row EXCEPT !.assignee = u, !.by = a].by = a
      BY <2>3 DEF N!Row
    <3> QED
      BY <1>0, <2>1, <3>1
  <2>5. /\ notice \subseteq notice' /\ notice' \subseteq N!Notice
        /\ u # a => Informed(t, u)'
    BY <1>0, <1>c, <2>1, <2>2, <2>3 DEF Informed
  <2>6. /\ taskRequest' \in [Calls -> N!Request]
        /\ \A q \in Calls \ {r} : taskRequest'[q] = taskRequest[q]
        /\ taskRequest[r].op # "create"
    BY <1>b, <2>2 DEF N!Is
  <2>7. N!TypeOK'
    BY <1>0, <2>2, <2>4, <2>5, <2>6 DEF N!TypeOK
  <2>8. /\ \A s, v : Informed(s, v) => Informed(s, v)'
        /\ \A s \in Tasks : \A v : ToBeInformed(s, v) => ToBeInformed(s, v)'
    BY <2>5, <2>6, StillToBeInformed DEF Informed
  <2>9. ASSUME NEW s \in Tasks PROVE AssigneeKnows(s)'
    <3>1. CASE s # t
      BY <1>0, <2>2, <2>4, <2>8, <3>1, StillKnows
    <3>2. CASE s = t
      BY <2>4, <2>5, <3>2 DEF AssigneeKnows
    <3> QED
      BY <3>1, <3>2
  <2> QED
    BY <2>4, <2>7, <2>9 DEF NoticesInv
<1>6. ASSUME NEW r \in Calls, NEW t \in Tasks, N!AddComment(r, t) PROVE NoticesInv'
  <2>1. /\ N!Is(r, "comment", t, "loaded") /\ N!Go(r, "committed")
        /\ comment' = comment \cup {<<t, r>>} /\ UNCHANGED <<task, subtask, notice>>
    BY <1>6 DEF N!AddComment
  <2>2. /\ taskRequest' \in [Calls -> N!Request]
        /\ \A q \in Calls \ {r} : taskRequest'[q] = taskRequest[q]
        /\ taskRequest[r].op # "create"
    BY <1>b, <2>1 DEF N!Is
  <2>3. \A s \in Tasks : \A v : ToBeInformed(s, v) => ToBeInformed(s, v)'
    BY <2>2, StillToBeInformed
  <2>4. comment' \subseteq Tasks \X Calls
    BY <1>0, <2>1
  <2> QED
    BY <1>d, <2>1, <2>2, <2>3, <2>4
<1>7. ASSUME NEW r \in Calls, NEW t \in Tasks, N!Notify(r, t) PROVE NoticesInv'
  <2>1. PICK kind \in N!Kind :
            /\ notice' = N!Told(r, t, kind, taskRequest[r].tell)
            /\ taskRequest[r].op = "create" => kind = "assigned"
    BY <1>7 DEF N!Notify, N!Is, N!Kind
  <2>2. /\ taskRequest[r].of = {t} /\ taskRequest[r].at = "committed"
        /\ N!Go(r, "over") /\ UNCHANGED <<task, subtask, comment>>
    BY <1>7 DEF N!Notify, N!Is
  <2>3. /\ notice \subseteq notice' /\ notice' \subseteq N!Notice
        /\ \A u \in taskRequest[r].tell \ taskRequest[r].by :
               taskRequest[r].op = "create" => Informed(t, u)'
    BY <1>c, <2>1 DEF Informed
  <2>4. /\ taskRequest' \in [Calls -> N!Request]
        /\ \A q \in Calls \ {r} : taskRequest'[q] = taskRequest[q]
    BY <1>b, <2>2
  <2>5. N!TypeOK'
    BY <1>0, <2>2, <2>3, <2>4 DEF N!TypeOK
  <2>6. \A s, v : Informed(s, v) => Informed(s, v)'
    BY <2>3 DEF Informed
  <2>7. ASSUME NEW s \in Tasks PROVE AssigneeKnows(s)'
    <3>1. ASSUME NEW v, ToBeInformed(s, v) PROVE ToBeInformed(s, v)' \/ Informed(s, v)'
      <4>1. PICK q \in Calls : \/ N!Is(q, "create", s, "died")
                               \/ /\ N!Is(q, "create", s, "committed")
                                  /\ v \in taskRequest[q].tell \ taskRequest[q].by
        BY <3>1 DEF ToBeInformed
      <4>2. CASE q = r
        BY <2>2, <2>3, <4>1, <4>2 DEF N!Is
      <4>3. CASE q # r
        BY <2>4, <4>1, <4>3 DEF ToBeInformed, N!Is
      <4> QED
        BY <4>2, <4>3
    <3> QED
      BY <1>0, <2>2, <2>6, <3>1, StillKnows
  <2> QED
    BY <1>0, <2>2, <2>5, <2>7 DEF NoticesInv
<1>8. ASSUME NEW r \in Calls, N!Dies(r) PROVE NoticesInv'
  <2>1. /\ taskRequest[r].at \in {"loaded", "committed"} /\ N!Go(r, "died")
        /\ UNCHANGED <<task, subtask, comment, notice>>
    BY <1>8 DEF N!Dies
  <2>2. /\ taskRequest' \in [Calls -> N!Request] /\ taskRequest'[r].at = "died"
        /\ taskRequest'[r].op = taskRequest[r].op /\ taskRequest'[r].of = taskRequest[r].of
        /\ \A q \in Calls \ {r} : taskRequest'[q] = taskRequest[q]
    BY <1>b, <2>1
  <2>3. ASSUME NEW s \in Tasks PROVE \A v : ToBeInformed(s, v) => ToBeInformed(s, v)'
    BY <2>2, StillToBeInformed DEF N!Is
  <2> QED
    BY <1>0, <1>d, <2>1, <2>2, <2>3
\* A notice that is read is the same notice.
<1>e. ASSUME UNCHANGED <<task, subtask, comment, taskRequest>>, notice' \subseteq N!Notice,
             \A n \in notice : \E m \in notice' : m.user = n.user /\ m.of = n.of /\ m.kind = n.kind
      PROVE  NoticesInv'
  <2>1. N!TypeOK'
    BY <1>0, <1>e DEF N!TypeOK
  <2>2. ASSUME NEW t \in Tasks PROVE AssigneeKnows(t)'
    <3>1. \A u : Informed(t, u) => Informed(t, u)'
      BY <1>e DEF Informed
    <3>2. \A u : ToBeInformed(t, u) => ToBeInformed(t, u)'
      BY <1>e DEF ToBeInformed, N!Is
    <3> QED
      BY <1>0, <1>e, <3>1, <3>2, StillKnows
  <2> QED
    BY <1>0, <1>e, <2>1, <2>2 DEF NoticesInv
<1>f. \A n \in N!Notice : LET m == [n EXCEPT !.read = TRUE]
                          IN  m \in N!Notice /\ m.user = n.user /\ m.of = n.of /\ m.kind = n.kind
  BY DEF N!Notice
<1>9. ASSUME NEW n \in notice, N!Read(n) PROVE NoticesInv'
  <2>1. /\ notice' = (notice \ {n}) \cup {[n EXCEPT !.read = TRUE]}
        /\ UNCHANGED <<task, subtask, comment, taskRequest>>
    BY <1>9 DEF N!Read
  <2> QED
    BY <1>0, <1>e, <1>f, <2>1
<1>10. ASSUME NEW u \in Members, N!ReadAll(u) PROVE NoticesInv'
  <2>1. /\ notice' = {IF n.user = u THEN [n EXCEPT !.read = TRUE] ELSE n : n \in notice}
        /\ UNCHANGED <<task, subtask, comment, taskRequest>>
    BY <1>10 DEF N!ReadAll
  <2>2. notice' \subseteq N!Notice
    BY <1>0, <1>f, <2>1
  <2>3. ASSUME NEW n \in notice
        PROVE  \E m \in notice' : m.user = n.user /\ m.of = n.of /\ m.kind = n.kind
    <3> DEFINE m == IF n.user = u THEN [n EXCEPT !.read = TRUE] ELSE n
    <3>1. m \in notice'
      BY <2>1
    <3>2. m.user = n.user /\ m.of = n.of /\ m.kind = n.kind
      BY <1>0, <1>f
    <3> QED
      BY <3>1, <3>2
  <2> QED
    BY <1>e, <2>1, <2>2, <2>3
<1>11. CASE UNCHANGED N!vars
  BY <1>0, <1>11, <1>e DEF N!vars
<1> QED
  BY <1>1, <1>2, <1>3, <1>4, <1>5, <1>6, <1>7, <1>8, <1>9, <1>10, <1>11 DEF N!Next

\* Whoever is to be informed has the request that creates his task.
LEMMA NoticesPromise == NoticesInv => N!AssigneeTold
BY DEF NoticesInv, AssigneeKnows, Informed, ToBeInformed, N!AssigneeTold

-----------------------------------------------------------------------------
(* Patches *)

\* No edit of the call is in the file.
Clean(c, X) == \A e \in X, i \in 1..MaxEdits : <<c, i>> \notin e

\* The last edit of the file that the call has judged is in it.
Made(r, c, f, X) ==
    \A i \in DOMAIN r.ops :
        /\ r.ops[i].path = f
        /\ \A j \in DOMAIN r.ops : j > i => r.ops[j].path # r.ops[i].path
        => \E e \in X : <<c, i>> \in e

\* A content that the file may have, as far as a call that is not busy goes.
Good(r, c, f, X, W) ==
    /\ r.at = "ok" /\ f \notin W => Made(r, c, f, X)
    /\ r.at \in {"start", "failed", "died"} => Clean(c, X)

\* An edit was cut from what suits the other calls, and suits them.
Sound(calls, c, i, op, W) ==
    /\ Clean(c, op.original)
    /\ \E e \in op.new : <<c, i>> \in e
    /\ \A d \in Requests \ {c} : /\ Good(calls[d], d, op.path, op.original, W)
                                 /\ Good(calls[d], d, op.path, op.new, W)

\* What the writes of a busy call have made of a file.
Written(r, c, f, X) ==
    /\ (\A i \in 1..r.done : r.ops[i].path # f) => Clean(c, X)
    /\ \A i \in 1..r.done :
           r.ops[i].path = f /\ (\A j \in 1..r.done : j > i => r.ops[j].path # f) =>
               \E e \in X : <<c, i>> \in e

\* A call judges before it writes, each file as it is.
InOrder(r, files) ==
    /\ r.at = "start" => r.ops = <<>>
    /\ r.at \in {"start", "patching", "editing"} => r.done = 0
    /\ r.at = "writing" => r.done < Len(r.ops)
    /\ r.at = "editing" => \A i, j \in DOMAIN r.ops : r.ops[i].path = r.ops[j].path
    /\ r.at \in {"patching", "editing"} =>
           \A i \in DOMAIN r.ops : r.ops[i].original = files[r.ops[i].path]
    /\ \A i, j \in DOMAIN r.ops :
           r.ops[i].path = r.ops[j].path => r.ops[i].original = r.ops[j].original

Record == [at : F!At, ops : Seq(F!Op), done : Nat]

PatchesInv ==
    /\ F!TypeOK
    /\ toolCall \in [Requests -> Record]
    /\ \A c, d \in Requests : F!Busy(c) /\ F!Busy(d) => c = d
    /\ \A c \in Requests : InOrder(toolCall[c], file)
    /\ \A c \in Requests, f \in Files \ spoiled : Good(toolCall[c], c, f, file[f], rewritten)
    /\ \A c \in Requests : F!Busy(c) =>
           /\ \A f \in Files \ spoiled : Written(toolCall[c], c, f, file[f])
           /\ \A i \in DOMAIN toolCall[c].ops :
                  toolCall[c].ops[i].path \notin spoiled =>
                      Sound(toolCall, c, i, toolCall[c].ops[i], rewritten)

\* No call has begun.
LEMMA PatchesInit == F!Init => PatchesInv
<1> SUFFICES ASSUME F!Init PROVE PatchesInv
  OBVIOUS
<1>1. /\ toolCall = [c \in Requests |-> [at |-> "start", ops |-> <<>>, done |-> 0]]
      /\ file = [f \in Files |-> IF f \in Existing THEN {{}} ELSE {}] /\ spoiled = {} /\ rewritten = {}
  BY DEF F!Init
<1>2. \A c \in Requests : toolCall[c].at = "start" /\ toolCall[c].ops = <<>> /\ toolCall[c].done = 0
  BY <1>1
<1>3. toolCall \in [Requests -> Record]
  <2>1. <<>> \in Seq(F!Op) /\ "start" \in F!At
    BY DEF F!At
  <2> QED
    BY <1>1, <2>1 DEF Record
<1>4. \A f \in Files : file[f] = {} \/ file[f] = {{}}
  BY <1>1
<1>5. F!TypeOK
  <2>1. file \in [Files -> F!FileState]
    BY <1>1 DEF F!FileState, F!Content
  <2>2. MaxEdits \in Nat
    BY PartAssumptions DEF F!ExistingAssumption
  <2>3. ASSUME NEW c \in Requests
        PROVE  /\ toolCall[c].at \in F!At
               /\ toolCall[c].ops \in Seq(F!Op) /\ Len(toolCall[c].ops) <= MaxEdits
               /\ toolCall[c].done \in 0..Len(toolCall[c].ops)
    <3>1. Len(toolCall[c].ops) = 0 /\ toolCall[c].ops \in Seq(F!Op)
      <4>1. <<>> \in Seq(F!Op) /\ Len(<<>>) = 0
        OBVIOUS
      <4> QED
        BY <1>2, <4>1
    <3>2. toolCall[c].at \in F!At
      BY <1>2 DEF F!At
    <3>3. toolCall[c].done \in 0..Len(toolCall[c].ops)
      BY <1>2, <3>1
    <3> QED
      BY <2>2, <3>1, <3>2, <3>3
  <2>4. spoiled \subseteq Files /\ rewritten \subseteq Files
    BY <1>1
  <2> QED
    BY <2>1, <2>3, <2>4 DEF F!TypeOK
<1>6. \A c \in Requests, f \in Files : Good(toolCall[c], c, f, file[f], rewritten)
  BY <1>2, <1>4 DEF Good, Clean
<1>7. \A c \in Requests : InOrder(toolCall[c], file)
  BY <1>2 DEF InOrder
<1>8. \A c \in Requests : ~F!Busy(c)
  BY <1>2 DEF F!Busy
<1> QED
  BY <1>3, <1>5, <1>6, <1>7, <1>8 DEF PatchesInv

\* An edit more.
Added(c, n, X) == {content \cup {<<c, n>>} : content \in X}

\* It is there, and spoils nothing for another call.
LEMMA AddedGood ==
    ASSUME NEW c, NEW d, d # c, NEW n, NEW f, NEW r, NEW X, NEW W, Good(r, d, f, X, W)
    PROVE  Good(r, d, f, Added(c, n, X), W) /\ (X = {} => Good(r, d, f, Added(c, n, {{}}), W))
<1>1. ASSUME NEW Y, Clean(d, Y) PROVE Clean(d, Added(c, n, Y))
  BY <1>1 DEF Clean, Added
<1>2. ASSUME Made(r, d, f, X) PROVE Made(r, d, f, Added(c, n, X))
  <2> SUFFICES ASSUME NEW i \in DOMAIN r.ops, r.ops[i].path = f,
                      \A j \in DOMAIN r.ops : j > i => r.ops[j].path # r.ops[i].path
               PROVE  \E e \in Added(c, n, X) : <<d, i>> \in e
    BY DEF Made
  <2>1. PICK e \in X : <<d, i>> \in e
    BY <1>2 DEF Made
  <2>2. e \cup {<<c, n>>} \in Added(c, n, X) /\ <<d, i>> \in e \cup {<<c, n>>}
    BY <2>1 DEF Added
  <2> QED
    BY <2>2
<1>3. ASSUME Made(r, d, f, {}), NEW Y PROVE Made(r, d, f, Y)
  BY <1>3 DEF Made
<1>4. Clean(d, {{}})
  BY DEF Clean
<1> QED
  BY <1>1, <1>2, <1>3, <1>4 DEF Good

\* An edit added is in the new content.
LEMMA AddedIsThere ==
    ASSUME NEW c, NEW n, NEW X, X # {} PROVE \E e \in Added(c, n, X) : <<c, n>> \in e
<1>1. PICK content : content \in X
  OBVIOUS
<1>2. content \cup {<<c, n>>} \in Added(c, n, X) /\ <<c, n>> \in content \cup {<<c, n>>}
  BY <1>1 DEF Added
<1> QED
  BY <1>2

\* An edit added leaves a content of its type.
LEMMA AddedTyped ==
    ASSUME NEW c \in Requests, NEW n \in 1..MaxEdits, NEW X \in F!FileState
    PROVE  Added(c, n, X) \in F!FileState
<1>1. <<c, n>> \in F!Edit
  BY DEF F!Edit
<1>2. CASE X = {}
  BY <1>2 DEF Added, F!FileState
<1>3. CASE X # {}
  <2>1. PICK k \in F!Content : X = {k}
    BY <1>3 DEF F!FileState
  <2>2. Added(c, n, X) = {k \cup {<<c, n>>}} /\ k \cup {<<c, n>>} \in F!Content
    BY <1>1, <2>1 DEF Added, F!Content
  <2> QED
    BY <2>2 DEF F!FileState
<1> QED
  BY <1>2, <1>3

\* Only the other calls matter.
LEMMA SoundAmong ==
    ASSUME NEW calls, NEW later, NEW c, \A d \in Requests \ {c} : later[d] = calls[d],
           NEW i, NEW op, NEW W, Sound(calls, c, i, op, W)
    PROVE  Sound(later, c, i, op, W)
BY DEF Sound

\* Every step of Patches keeps PatchesInv.
LEMMA PatchesNext == PatchesInv /\ [F!Next]_(F!vars) => PatchesInv'
<1> SUFFICES ASSUME PatchesInv, [F!Next]_(F!vars) PROVE PatchesInv'
  OBVIOUS
<1>0. /\ F!TypeOK /\ toolCall \in [Requests -> Record] /\ file \in [Files -> F!FileState]
      /\ spoiled \subseteq Files /\ rewritten \subseteq Files /\ MaxEdits \in Nat
      /\ \A c \in Requests :
             /\ toolCall[c] \in Record /\ toolCall[c].at \in F!At
             /\ toolCall[c].ops \in Seq(F!Op) /\ Len(toolCall[c].ops) <= MaxEdits
             /\ DOMAIN toolCall[c].ops = 1..Len(toolCall[c].ops) /\ Len(toolCall[c].ops) \in Nat
             /\ toolCall[c].done \in 0..Len(toolCall[c].ops) /\ toolCall[c].done \in Nat
             /\ \A i \in DOMAIN toolCall[c].ops :
                    /\ toolCall[c].ops[i].path \in Files
                    /\ toolCall[c].ops[i].original \in F!FileState
                    /\ toolCall[c].ops[i].new \in F!FileState
  <2>1. F!TypeOK /\ toolCall \in [Requests -> Record]
    BY DEF PatchesInv
  <2>2. ASSUME NEW c \in Requests
        PROVE  /\ toolCall[c] \in Record /\ toolCall[c].at \in F!At
               /\ toolCall[c].ops \in Seq(F!Op) /\ Len(toolCall[c].ops) <= MaxEdits
               /\ DOMAIN toolCall[c].ops = 1..Len(toolCall[c].ops) /\ Len(toolCall[c].ops) \in Nat
               /\ toolCall[c].done \in 0..Len(toolCall[c].ops) /\ toolCall[c].done \in Nat
    BY <2>1 DEF F!TypeOK, Record
  <2>3. ASSUME NEW c \in Requests, NEW i \in DOMAIN toolCall[c].ops
        PROVE  /\ toolCall[c].ops[i].path \in Files
               /\ toolCall[c].ops[i].original \in F!FileState
               /\ toolCall[c].ops[i].new \in F!FileState
    <3>1. toolCall[c].ops[i] \in F!Op
      BY <2>2
    <3> QED
      BY <3>1 DEF F!Op
  <2> QED
    BY <2>1, <2>2, <2>3, PartAssumptions DEF F!TypeOK, F!ExistingAssumption
<1>00. {"start", "patching", "editing", "writing", "ok", "failed", "died"} = F!At
  BY DEF F!At
\* A call that ends leaves what suits every call.
<1>e. ASSUME NEW c \in Requests, F!Busy(c), NEW at \in {"ok", "failed", "died"},
             NEW n \in 0..Len(toolCall[c].ops),
             toolCall' = [toolCall EXCEPT ![c].at = at, ![c].done = n],
             file' \in [Files -> F!FileState], spoiled \subseteq spoiled', spoiled' \subseteq Files,
             UNCHANGED rewritten,
             \A f \in Files \ spoiled' :
                 /\ \A d \in Requests \ {c} : Good(toolCall[d], d, f, file'[f], rewritten)
                 /\ Good(toolCall'[c], c, f, file'[f], rewritten)
      PROVE  PatchesInv'
  <2>1. /\ toolCall' \in [Requests -> Record] /\ toolCall'[c].at = at /\ toolCall'[c].done = n
        /\ toolCall'[c].ops = toolCall[c].ops
        /\ \A d \in Requests \ {c} : toolCall'[d] = toolCall[d]
    <3>1. toolCall[c] \in Record /\ n \in Nat /\ at \in F!At
      BY <1>0, <1>00, <1>e
    <3>2. [toolCall[c] EXCEPT !.at = at, !.done = n] \in Record
      BY <3>1 DEF Record
    <3>3. /\ toolCall'[c] = [toolCall[c] EXCEPT !.at = at, !.done = n]
          /\ \A d \in Requests \ {c} : toolCall'[d] = toolCall[d]
      BY <1>0, <1>e
    <3>4. toolCall' \in [Requests -> Record]
      BY <1>0, <1>e, <3>2, <3>3
    <3>5. [toolCall[c] EXCEPT !.at = at, !.done = n].at = at
          /\ [toolCall[c] EXCEPT !.at = at, !.done = n].done = n
          /\ [toolCall[c] EXCEPT !.at = at, !.done = n].ops = toolCall[c].ops
      BY <3>1 DEF Record
    <3> QED
      BY <3>3, <3>4, <3>5
  <2>2. \A d \in Requests : ~F!Busy(d)'
    BY <1>e, <2>1 DEF PatchesInv, F!Busy
  <2>3. F!TypeOK'
    <3>1. \A d \in Requests :
              /\ toolCall'[d].at \in F!At
              /\ toolCall'[d].ops \in Seq(F!Op) /\ Len(toolCall'[d].ops) <= MaxEdits
              /\ toolCall'[d].done \in 0..Len(toolCall'[d].ops)
      BY <1>0, <1>00, <1>e, <2>1
    <3> QED
      BY <1>0, <1>e, <3>1 DEF F!TypeOK
  <2>4. ASSUME NEW d \in Requests PROVE InOrder(toolCall'[d], file')
    <3>1. InOrder(toolCall[d], file)
      BY DEF PatchesInv
    <3>2. toolCall'[d].at \notin {"patching", "editing", "writing"}
      BY <2>2 DEF F!Busy
    <3> QED
      BY <1>e, <2>1, <3>1, <3>2 DEF InOrder
  <2>5. \A d \in Requests, f \in Files \ spoiled' : Good(toolCall'[d], d, f, file'[f], rewritten')
    BY <1>e, <2>1
  <2> QED
    BY <2>1, <2>2, <2>3, <2>4, <2>5 DEF PatchesInv
\* A busy call goes on.
<1>g. ASSUME NEW c \in Requests, F!Busy(c)', \A d \in Requests \ {c} : ~F!Busy(d),
             toolCall' \in [Requests -> Record], Len(toolCall'[c].ops) <= MaxEdits,
             toolCall'[c].done \in 0..Len(toolCall'[c].ops),
             \A d \in Requests \ {c} : toolCall'[d] = toolCall[d],
             file' \in [Files -> F!FileState], UNCHANGED <<spoiled, rewritten>>,
             \A f \in Files \ spoiled : \A d \in Requests \ {c} : Good(toolCall[d], d, f, file'[f], rewritten),
             \A f \in Files \ spoiled : Written(toolCall'[c], c, f, file'[f]),
             InOrder(toolCall'[c], file'),
             \A i \in DOMAIN toolCall'[c].ops :
                 toolCall'[c].ops[i].path \notin spoiled => Sound(toolCall, c, i, toolCall'[c].ops[i], rewritten)
      PROVE  PatchesInv'
  <2>1. \A d \in Requests \ {c} : ~F!Busy(d)'
    BY <1>g DEF F!Busy
  <2>2. F!TypeOK'
    <3>1. ASSUME NEW d \in Requests
          PROVE  /\ toolCall'[d].at \in F!At
                 /\ toolCall'[d].ops \in Seq(F!Op) /\ Len(toolCall'[d].ops) <= MaxEdits
                 /\ toolCall'[d].done \in 0..Len(toolCall'[d].ops)
      <4>1. toolCall'[d] \in Record
        BY <1>g
      <4>2. CASE d = c
        BY <1>g, <4>1, <4>2 DEF Record
      <4>3. CASE d # c
        BY <1>0, <1>g, <4>3
      <4> QED
        BY <4>2, <4>3
    <3> QED
      BY <1>0, <1>g, <3>1 DEF F!TypeOK
  <2>3. ASSUME NEW d \in Requests PROVE InOrder(toolCall'[d], file')
    <3>1. CASE d = c
      BY <1>g, <3>1
    <3>2. CASE d # c
      <4>1. InOrder(toolCall[d], file) /\ toolCall[d].at \notin {"patching", "editing", "writing"}
        BY <1>g, <3>2 DEF PatchesInv, F!Busy
      <4> QED
        BY <1>g, <3>2, <4>1 DEF InOrder
    <3> QED
      BY <3>1, <3>2
  <2>4. ASSUME NEW d \in Requests, NEW f \in Files \ spoiled' PROVE Good(toolCall'[d], d, f, file'[f], rewritten)
    <3>1. CASE d = c
      BY <1>g, <3>1 DEF Good, F!Busy
    <3>2. CASE d # c
      BY <1>g, <3>2
    <3> QED
      BY <3>1, <3>2
  <2>5. \A i \in DOMAIN toolCall'[c].ops :
            toolCall'[c].ops[i].path \notin spoiled' => Sound(toolCall', c, i, toolCall'[c].ops[i], rewritten)
    BY <1>g, SoundAmong
  <2> QED
    BY <1>g, <2>1, <2>2, <2>3, <2>4, <2>5 DEF PatchesInv
<1>1. ASSUME NEW c \in Requests, NEW at \in {"patching", "editing"}, F!Begin(c, at) PROVE PatchesInv'
  <2>1. /\ toolCall[c].at = "start" /\ \A d \in Requests : ~F!Busy(d)
        /\ toolCall' = [toolCall EXCEPT ![c].at = at] /\ UNCHANGED <<file, spoiled, rewritten>>
    BY <1>1 DEF F!Begin, F!MayBegin, F!Go
  <2>2. /\ toolCall' \in [Requests -> Record] /\ toolCall'[c].at = at
        /\ toolCall'[c].done = 0 /\ toolCall'[c].ops = <<>>
        /\ \A d \in Requests \ {c} : toolCall'[d] = toolCall[d]
    BY <1>0, <1>00, <2>1 DEF Record, PatchesInv, InOrder
  <2>3. Len(toolCall'[c].ops) = 0 /\ DOMAIN toolCall'[c].ops = {}
    BY <2>2
  <2>4. \A f \in Files \ spoiled : Written(toolCall'[c], c, f, file'[f])
    BY <2>1, <2>2 DEF PatchesInv, Good, Written
  <2>5. InOrder(toolCall'[c], file')
    BY <1>1, <2>2, <2>3 DEF InOrder
  <2>6. F!Busy(c)'
    BY <2>2 DEF F!Busy
  <2>7. \A f \in Files \ spoiled : \A d \in Requests \ {c} : Good(toolCall[d], d, f, file'[f], rewritten)
    BY <2>1 DEF PatchesInv
  <2> QED
    BY <1>0, <1>g, <2>1, <2>2, <2>3, <2>4, <2>5, <2>6, <2>7
\* An edit is judged.
<1>j. ASSUME NEW c \in Requests, NEW f \in Files, toolCall[c].at \in {"patching", "editing"},
             NEW new \in F!FileState, F!Judge(c, f, file[f], new),
             toolCall[c].at = "editing" => \A i \in DOMAIN toolCall[c].ops : toolCall[c].ops[i].path = f,
             f \notin spoiled =>
                 /\ \E e \in new : <<c, Len(toolCall[c].ops) + 1>> \in e
                 /\ \A d \in Requests \ {c} : Good(toolCall[d], d, f, new, rewritten)
      PROVE  PatchesInv'
  <2>0. PICK op : op = [path |-> f, original |-> file[f], new |-> new]
    OBVIOUS
  <2> DEFINE ops == toolCall[c].ops
             n == Len(ops) + 1
  <2>1. /\ Len(ops) < MaxEdits /\ toolCall' = [toolCall EXCEPT ![c].ops = Append(@, op)]
        /\ UNCHANGED <<file, spoiled, rewritten>>
    BY <1>j, <2>0 DEF F!Judge
  <2>2. op \in F!Op /\ op.path = f /\ op.original = file[f] /\ op.new = new
    BY <1>0, <2>0 DEF F!Op
  <2>3. /\ toolCall' \in [Requests -> Record] /\ toolCall'[c].at = toolCall[c].at
        /\ toolCall'[c].done = 0 /\ toolCall'[c].ops = Append(ops, op)
        /\ \A d \in Requests \ {c} : toolCall'[d] = toolCall[d]
    <3>1. Append(ops, op) \in Seq(F!Op) /\ toolCall[c].done = 0
      BY <1>0, <1>j, <2>2 DEF PatchesInv, InOrder
    <3> QED
      BY <1>0, <2>1, <3>1 DEF Record
  <2>4. /\ Len(toolCall'[c].ops) = n /\ DOMAIN toolCall'[c].ops = 1..n
        /\ \A i \in DOMAIN ops : toolCall'[c].ops[i] = ops[i] /\ i \in 1..n
        /\ toolCall'[c].ops[n] = op
        /\ \A i \in 1..n : i \in DOMAIN ops \/ i = n
    BY <1>0, <2>2, <2>3
  <2>5. F!Busy(c) /\ F!Busy(c)' /\ \A d \in Requests \ {c} : ~F!Busy(d)
    BY <1>j, <2>3 DEF F!Busy, PatchesInv
  <2>6. \A g \in Files \ spoiled : Written(toolCall'[c], c, g, file'[g])
    <3>1. \A g \in Files \ spoiled : Written(toolCall[c], c, g, file[g])
      BY <2>5 DEF PatchesInv
    <3>2. toolCall[c].done = 0
      BY <1>j DEF PatchesInv, InOrder
    <3> QED
      BY <2>1, <2>3, <3>1, <3>2 DEF Written
  <2>7. InOrder(toolCall'[c], file')
    <3>1. InOrder(toolCall[c], file)
      BY DEF PatchesInv
    <3>2. \A i \in 1..n : toolCall'[c].ops[i].original = file[toolCall'[c].ops[i].path]
      BY <1>j, <2>2, <2>4, <3>1 DEF InOrder
    <3>3. toolCall[c].at = "editing" => \A i \in 1..n : toolCall'[c].ops[i].path = f
      BY <1>j, <2>2, <2>4
    <3> HIDE DEF n
    <3> QED
      BY <1>j, <2>1, <2>3, <2>4, <3>2, <3>3 DEF InOrder
  <2>8. ASSUME NEW i \in DOMAIN toolCall'[c].ops, toolCall'[c].ops[i].path \notin spoiled
        PROVE  Sound(toolCall, c, i, toolCall'[c].ops[i], rewritten)
    <3>1. CASE i \in DOMAIN ops
      BY <2>4, <2>5, <2>8, <3>1 DEF PatchesInv
    <3>2. CASE i = n
      <4>1. f \notin spoiled
        BY <2>2, <2>4, <2>8, <3>2
      <4>2. Clean(c, file[f])
        <5>1. Written(toolCall[c], c, f, file[f]) /\ toolCall[c].done = 0
          BY <1>j, <2>5, <4>1 DEF PatchesInv, InOrder
        <5> QED
          BY <5>1 DEF Written
      <4>3. \A d \in Requests \ {c} : Good(toolCall[d], d, f, file[f], rewritten)
        BY <4>1 DEF PatchesInv
      <4> QED
        BY <1>j, <2>2, <2>4, <3>2, <4>1, <4>2, <4>3 DEF Sound
    <3> QED
      BY <2>4, <2>8, <3>1, <3>2
  <2>9. \A g \in Files \ spoiled : \A d \in Requests \ {c} : Good(toolCall[d], d, g, file'[g], rewritten)
    BY <2>1 DEF PatchesInv
  <2>10. n <= MaxEdits /\ 0 \in 0..n
    BY <1>0, <2>1
  <2> QED
    BY <1>0, <1>g, <2>1, <2>3, <2>4, <2>5, <2>6, <2>7, <2>8, <2>9, <2>10
<1>2. ASSUME NEW c \in Requests, NEW f \in Files, F!JudgePatch(c, f) PROVE PatchesInv'
  <2> DEFINE n == Len(toolCall[c].ops) + 1
             old == IF file[f] = {} THEN {{}} ELSE file[f]
  <2>1. /\ toolCall[c].at = "patching" /\ F!Judge(c, f, file[f], Added(c, n, old))
        /\ Len(toolCall[c].ops) < MaxEdits
    BY <1>2 DEF F!JudgePatch, F!Judge, F!With, Added
  <2>2. n \in 1..MaxEdits
    BY <1>0, <2>1
  <2>3. old \in F!FileState /\ old # {}
    BY <1>0 DEF F!FileState, F!Content
  <2>4. f \notin spoiled => \A d \in Requests \ {c} : Good(toolCall[d], d, f, Added(c, n, old), rewritten)
    BY AddedGood DEF PatchesInv
  <2> HIDE DEF n, old
  <2>5. Added(c, n, old) \in F!FileState /\ \E e \in Added(c, n, old) : <<c, n>> \in e
    BY <2>2, <2>3, AddedTyped, AddedIsThere
  <2> QED
    BY <1>j, <2>1, <2>4, <2>5 DEF n
<1>3. ASSUME NEW c \in Requests, NEW f \in Files, F!JudgeEdit(c, f) PROVE PatchesInv'
  <2> DEFINE ops == toolCall[c].ops
             n == Len(ops) + 1
             made == IF ops = <<>> THEN file[f] ELSE ops[Len(ops)].new
  <2>1. /\ toolCall[c].at = "editing" /\ F!Judge(c, f, file[f], Added(c, n, made))
        /\ file[f] # {} /\ \A i \in DOMAIN ops : ops[i].path = f
        /\ Len(ops) < MaxEdits
    BY <1>3 DEF F!JudgeEdit, F!Judge, F!With, Added
  <2>2. n \in 1..MaxEdits /\ (ops # <<>> => Len(ops) \in DOMAIN ops)
    BY <1>0, <2>1
  <2>3. made \in F!FileState
    BY <1>0, <2>2
  <2>4. f \notin spoiled => made # {} /\ \A d \in Requests \ {c} : Good(toolCall[d], d, f, made, rewritten)
    <3>1. CASE ops = <<>>
      BY <2>1, <3>1 DEF PatchesInv
    <3>2. CASE ops # <<>>
      <4>1. F!Busy(c)
        BY <2>1 DEF F!Busy
      <4>2. made = ops[Len(ops)].new /\ ops[Len(ops)].path = f
        BY <2>1, <2>2, <3>2
      <4>3. f \notin spoiled => Sound(toolCall, c, Len(ops), ops[Len(ops)], rewritten)
        BY <2>2, <3>2, <4>1, <4>2 DEF PatchesInv
      <4> QED
        BY <4>2, <4>3 DEF Sound
    <3> QED
      BY <3>1, <3>2
  <2> HIDE DEF made
  <2>5. f \notin spoiled => \A d \in Requests \ {c} : Good(toolCall[d], d, f, Added(c, n, made), rewritten)
    BY <2>4, AddedGood
  <2>6. /\ Added(c, n, made) \in F!FileState
        /\ f \notin spoiled => \E e \in Added(c, n, made) : <<c, n>> \in e
    <3> HIDE DEF n
    <3> QED
      BY <2>2, <2>3, <2>4, AddedTyped, AddedIsThere
  <2> QED
    BY <1>j, <2>1, <2>5, <2>6
<1>4. ASSUME NEW c \in Requests, F!StartWriting(c) PROVE PatchesInv'
  <2>1. /\ toolCall[c].at = "patching" /\ toolCall[c].ops # <<>>
        /\ toolCall' = [toolCall EXCEPT ![c].at = "writing"] /\ UNCHANGED <<file, spoiled, rewritten>>
    BY <1>4 DEF F!StartWriting, F!Go
  <2>2. /\ toolCall' \in [Requests -> Record] /\ toolCall'[c].at = "writing"
        /\ toolCall'[c].done = toolCall[c].done /\ toolCall'[c].ops = toolCall[c].ops
        /\ \A d \in Requests \ {c} : toolCall'[d] = toolCall[d]
    BY <1>0, <1>00, <2>1 DEF Record
  <2>3. F!Busy(c) /\ F!Busy(c)' /\ \A d \in Requests \ {c} : ~F!Busy(d)
    BY <2>1, <2>2 DEF F!Busy, PatchesInv
  <2>4. InOrder(toolCall'[c], file')
    <3>1. InOrder(toolCall[c], file) /\ 0 < Len(toolCall[c].ops)
      BY <1>0, <2>1 DEF PatchesInv
    <3> QED
      BY <2>1, <2>2, <3>1 DEF InOrder
  <2>5. /\ \A f \in Files \ spoiled : Written(toolCall'[c], c, f, file'[f])
        /\ \A i \in DOMAIN toolCall'[c].ops :
               toolCall'[c].ops[i].path \notin spoiled => Sound(toolCall, c, i, toolCall'[c].ops[i], rewritten)
        /\ \A f \in Files \ spoiled : \A d \in Requests \ {c} : Good(toolCall[d], d, f, file'[f], rewritten)
    BY <2>1, <2>2, <2>3 DEF PatchesInv, Written
  <2> QED
    BY <1>0, <1>g, <2>1, <2>2, <2>3, <2>4, <2>5
\* A write makes the edit it is of the last one of its file.
<1>5. ASSUME NEW c \in Requests, F!Write(c) PROVE PatchesInv'
  <2> DEFINE ops == toolCall[c].ops
             n == toolCall[c].done + 1
             p == ops[n].path
             at == IF n = Len(ops) THEN "ok" ELSE "writing"
  <2>1. /\ toolCall[c].at = "writing" /\ file' = [file EXCEPT ![p] = ops[n].new]
        /\ toolCall' = [toolCall EXCEPT ![c].done = n, ![c].at = at] /\ UNCHANGED <<spoiled, rewritten>>
    BY <1>5 DEF F!Write
  <2>2. /\ n \in 1..Len(ops) /\ n \in DOMAIN ops /\ n \in Nat /\ toolCall[c].done = n - 1
        /\ toolCall[c].done < Len(ops)
    BY <1>0, <2>1 DEF PatchesInv, InOrder
  <2>3. /\ toolCall' \in [Requests -> Record] /\ toolCall'[c].at = at
        /\ toolCall'[c].done = n /\ toolCall'[c].ops = ops
        /\ \A d \in Requests \ {c} : toolCall'[d] = toolCall[d]
    BY <1>0, <1>00, <2>1, <2>2 DEF Record
  <2>4. /\ file' \in [Files -> F!FileState] /\ p \in Files /\ file'[p] = ops[n].new
        /\ \A f \in Files \ {p} : file'[f] = file[f]
    BY <1>0, <2>1, <2>2
  <2>5. F!Busy(c) /\ \A d \in Requests \ {c} : ~F!Busy(d)
    BY <2>1 DEF F!Busy, PatchesInv
  <2>6. ASSUME NEW f \in Files \ spoiled
        PROVE  \A d \in Requests \ {c} : Good(toolCall[d], d, f, file'[f], rewritten)
    <3>1. CASE f = p
      <4>1. Sound(toolCall, c, n, ops[n], rewritten)
        BY <2>2, <2>5, <3>1 DEF PatchesInv
      <4> HIDE DEF n
      <4> QED
        BY <2>4, <3>1, <4>1 DEF Sound
    <3>2. CASE f # p
      BY <2>4, <3>2 DEF PatchesInv
    <3> QED
      BY <3>1, <3>2
  <2>7. ASSUME NEW f \in Files \ spoiled
        PROVE  /\ (\A i \in 1..n : ops[i].path # f) => Clean(c, file'[f])
               /\ \A i \in 1..n :
                      ops[i].path = f /\ (\A j \in 1..n : j > i => ops[j].path # f) =>
                          \E e \in file'[f] : <<c, i>> \in e
    <3>1. /\ (\A i \in 1..(n - 1) : ops[i].path # f) => Clean(c, file[f])
          /\ \A i \in 1..(n - 1) :
                 ops[i].path = f /\ (\A j \in 1..(n - 1) : j > i => ops[j].path # f) =>
                     \E e \in file[f] : <<c, i>> \in e
      BY <2>2, <2>5 DEF PatchesInv, Written
    <3>2. /\ \A i \in 1..(n - 1) : i \in 1..n /\ n > i
          /\ n \in 1..n /\ \A i \in 1..n : i \in 1..(n - 1) \/ i = n
      BY <2>2
    <3>3. CASE f = p
      <4>1. \E e \in file'[f] : <<c, n>> \in e
        BY <2>2, <2>4, <2>5, <3>3 DEF PatchesInv, Sound
      <4> HIDE DEF n
      <4> QED
        BY <3>2, <3>3, <4>1
    <3>4. CASE f # p
      <4> HIDE DEF n
      <4> QED
        BY <2>4, <3>1, <3>2, <3>4
    <3> QED
      BY <3>3, <3>4
  <2>8. CASE n = Len(ops)
    <3>1. \A f \in Files \ spoiled : Good(toolCall'[c], c, f, file'[f], rewritten)
      <4>1. toolCall'[c].at = "ok" /\ DOMAIN toolCall'[c].ops = 1..n
        BY <1>0, <2>3, <2>8
      <4>2. \A f \in Files \ spoiled : Made(toolCall'[c], c, f, file'[f])
        <5> HIDE DEF n
        <5> QED
          BY <2>3, <2>7, <4>1 DEF Made
      <4> QED
        BY <4>1, <4>2 DEF Good
    <3>2. n \in 0..Len(ops) /\ at = "ok"
      BY <1>0, <2>2, <2>8
    <3>3. toolCall' = [toolCall EXCEPT ![c].at = "ok", ![c].done = n]
      <4>1. toolCall[c] \in Record
        BY <1>0
      <4> QED
        BY <1>0, <2>1, <3>2, <4>1 DEF Record
    <3> HIDE DEF n, p
    <3> QED
      BY <1>0, <1>e, <2>1, <2>4, <2>5, <2>6, <3>1, <3>2, <3>3
  <2>9. CASE n # Len(ops)
    <3>1. \A f \in Files \ spoiled : Written(toolCall'[c], c, f, file'[f])
      <4> HIDE DEF n
      <4> QED
        BY <2>3, <2>7 DEF Written
    <3>2. n < Len(ops) /\ at = "writing" /\ n \in 0..Len(ops)
      BY <1>0, <2>2, <2>9
    <3>3. InOrder(toolCall'[c], file')
      <4>1. InOrder(toolCall[c], file)
        BY DEF PatchesInv
      <4> QED
        BY <2>3, <3>2, <4>1 DEF InOrder
    <3>4. F!Busy(c)'
      BY <2>3, <3>2 DEF F!Busy
    <3>5. \A i \in DOMAIN ops : ops[i].path \notin spoiled => Sound(toolCall, c, i, ops[i], rewritten)
      BY <2>5 DEF PatchesInv
    <3> HIDE DEF n, p
    <3> QED
      BY <1>0, <1>g, <2>1, <2>3, <2>4, <2>5, <2>6, <3>1, <3>2, <3>3, <3>4, <3>5
  <2> QED
    BY <2>8, <2>9
\* What is restored is what all the patches of the file were cut from.
<1>6. ASSUME NEW c \in Requests, F!Undo(c) PROVE PatchesInv'
  <2> DEFINE ops == toolCall[c].ops
             m == toolCall[c].done
             Back(f) == UNION {ops[i].original : i \in {j \in 1..m : ops[j].path = f}}
  <2>1. PICK fails \in SUBSET {ops[i].path : i \in 1..m} :
            /\ \E left \in [fails -> BOOLEAN] :
                   file' = [f \in Files |->
                       CASE f \in fails -> IF left[f] THEN file[f] ELSE {{}}
                         [] f \notin fails /\ (\E i \in 1..m : ops[i].path = f) -> Back(f)
                         [] OTHER -> file[f]]
            /\ spoiled' = spoiled \cup fails /\ UNCHANGED rewritten
    BY <1>6 DEF F!Undo, F!ToUndo
  <2>2. PICK left \in [fails -> BOOLEAN] :
            file' = [f \in Files |->
                CASE f \in fails -> IF left[f] THEN file[f] ELSE {{}}
                  [] f \notin fails /\ (\E i \in 1..m : ops[i].path = f) -> Back(f)
                  [] OTHER -> file[f]]
    BY <2>1
  <2>3. /\ toolCall[c].at = "writing" /\ F!Busy(c)
        /\ toolCall' = [toolCall EXCEPT ![c].at = "failed"]
    BY <1>6 DEF F!Undo, F!Go, F!Busy
  <2>4. \A i \in 1..m : i \in DOMAIN ops
    BY <1>0
  <2>5. ASSUME NEW i \in 1..m PROVE Back(ops[i].path) = ops[i].original
    <3>1. \A j \in 1..m : ops[j].path = ops[i].path => ops[j].original = ops[i].original
      BY <2>4 DEF PatchesInv, InOrder
    <3> QED
      BY <3>1
  <2> HIDE DEF Back
  <2>6. ASSUME NEW f \in Files
        PROVE  /\ file'[f] \in F!FileState
               /\ f \notin fails /\ (\E i \in 1..m : ops[i].path = f) => file'[f] = Back(f)
               /\ (\A i \in 1..m : ops[i].path # f) => file'[f] = file[f]
    <3>1. CASE f \in fails
      <4>1. {{}} \in F!FileState
        BY DEF F!FileState, F!Content
      <4>2. \E i \in 1..m : ops[i].path = f
        BY <2>1, <3>1
      <4> QED
        BY <1>0, <2>2, <3>1, <4>1, <4>2
    <3>2. CASE f \notin fails /\ (\E i \in 1..m : ops[i].path = f)
      <4>1. file'[f] = Back(f)
        BY <2>2, <3>2
      <4>2. Back(f) \in F!FileState
        BY <1>0, <2>4, <2>5, <3>2
      <4> QED
        BY <3>2, <4>1, <4>2
    <3>3. CASE f \notin fails /\ (\A i \in 1..m : ops[i].path # f)
      BY <1>0, <2>2, <3>3
    <3> QED
      BY <3>1, <3>2, <3>3
  <2>7. ASSUME NEW f \in Files \ spoiled'
        PROVE  /\ Clean(c, file'[f])
               /\ \A d \in Requests \ {c} : Good(toolCall[d], d, f, file'[f], rewritten)
    <3>1. f \notin spoiled /\ f \notin fails
      BY <2>1
    <3>2. CASE \E i \in 1..m : ops[i].path = f
      <4>1. PICK i \in 1..m : ops[i].path = f
        BY <3>2
      <4>2. Sound(toolCall, c, i, ops[i], rewritten)
        BY <2>3, <2>4, <3>1, <4>1 DEF PatchesInv
      <4>3. file'[f] = ops[i].original
        BY <2>5, <2>6, <3>1, <4>1
      <4> QED
        BY <4>1, <4>2, <4>3 DEF Sound
    <3>3. CASE \A i \in 1..m : ops[i].path # f
      BY <2>3, <2>6, <3>1, <3>3 DEF PatchesInv, Written
    <3> QED
      BY <3>2, <3>3
  <2>8. file' \in [Files -> F!FileState]
    BY <2>2, <2>6
  <2>9. toolCall' = [toolCall EXCEPT ![c].at = "failed", ![c].done = m] /\ m \in 0..Len(ops)
    BY <1>0, <2>3 DEF Record
  <2>10. toolCall'[c].at = "failed"
    BY <1>0, <2>3 DEF Record
  <2>11. spoiled \subseteq spoiled' /\ spoiled' \subseteq Files
    BY <1>0, <2>1, <2>4
  <2>12. \A f \in Files \ spoiled' : Good(toolCall'[c], c, f, file'[f], rewritten)
    BY <2>7, <2>10 DEF Good
  <2> QED
    BY <1>e, <2>1, <2>3, <2>7, <2>8, <2>9, <2>11, <2>12
\* The last content is that of all the edits.
<1>7. ASSUME NEW c \in Requests, F!Save(c) PROVE PatchesInv'
  <2> DEFINE ops == toolCall[c].ops
             n == Len(ops)
             p == ops[n].path
  <2>1. /\ toolCall[c].at = "editing" /\ ops # <<>> /\ file' = [file EXCEPT ![p] = ops[n].new]
        /\ toolCall' = [toolCall EXCEPT ![c].at = "ok", ![c].done = n] /\ UNCHANGED <<spoiled, rewritten>>
    BY <1>7 DEF F!Save
  <2>2. /\ n \in DOMAIN ops /\ n \in Nat /\ n \in 0..n /\ DOMAIN ops = 1..n
        /\ \A i \in DOMAIN ops : ops[i].path = p
    BY <1>0, <2>1 DEF PatchesInv, InOrder
  <2>3. /\ file' \in [Files -> F!FileState] /\ p \in Files /\ file'[p] = ops[n].new
        /\ \A f \in Files \ {p} : file'[f] = file[f]
    BY <1>0, <2>1, <2>2
  <2>4. F!Busy(c)
    BY <2>1 DEF F!Busy
  <2>5. ASSUME NEW f \in Files \ spoiled
        PROVE  \A d \in Requests \ {c} : Good(toolCall[d], d, f, file'[f], rewritten)
    <3>1. CASE f = p
      <4>1. Sound(toolCall, c, n, ops[n], rewritten)
        BY <2>2, <2>4, <3>1 DEF PatchesInv
      <4> HIDE DEF n
      <4> QED
        BY <2>3, <3>1, <4>1 DEF Sound
    <3>2. CASE f # p
      BY <2>3, <3>2 DEF PatchesInv
    <3> QED
      BY <3>1, <3>2
  <2>6. toolCall'[c].at = "ok" /\ toolCall'[c].ops = ops
    BY <1>0, <2>1 DEF Record
  <2>7. ASSUME NEW f \in Files \ spoiled PROVE Good(toolCall'[c], c, f, file'[f], rewritten)
    <3>1. CASE f = p
      <4>1. \E e \in file'[f] : <<c, n>> \in e
        BY <2>2, <2>3, <2>4, <3>1 DEF PatchesInv, Sound
      <4>2. \A i \in DOMAIN ops : i = n \/ n > i
        BY <2>2
      <4> HIDE DEF n
      <4> QED
        BY <2>2, <2>6, <4>1, <4>2 DEF Good, Made
    <3>2. CASE f # p
      BY <2>2, <2>6, <3>2 DEF Good, Made
    <3> QED
      BY <3>1, <3>2
  <2> HIDE DEF n, p
  <2> QED
    BY <1>0, <1>e, <2>1, <2>2, <2>3, <2>4, <2>5, <2>7 DEF n
\* A call that is refused or dies has left the files it had not written, or those
\* it spoils.
<1>8. ASSUME NEW c \in Requests, F!Refuse(c) \/ F!Dies(c) PROVE PatchesInv'
  <2>1. PICK at \in {"failed", "died"} :
            /\ F!Busy(c) /\ toolCall' = [toolCall EXCEPT ![c].at = at] /\ UNCHANGED file
            /\ UNCHANGED rewritten
            /\ spoiled' = spoiled \cup {toolCall[c].ops[i].path : i \in 1..toolCall[c].done}
    <3>1. CASE F!Refuse(c)
      <4>1. toolCall[c].done = 0 /\ F!Busy(c)
        BY <3>1 DEF F!Refuse, F!Busy, PatchesInv, InOrder
      <4>2. {toolCall[c].ops[i].path : i \in 1..toolCall[c].done} = {}
        BY <4>1
      <4> QED
        BY <3>1, <4>1, <4>2 DEF F!Refuse, F!Go
    <3>2. CASE F!Dies(c)
      BY <3>2 DEF F!Dies, F!Go
    <3> QED
      BY <1>8, <3>1, <3>2
  <2>2. /\ spoiled \subseteq spoiled' /\ spoiled' \subseteq Files
        /\ \A f \in Files \ spoiled' : \A i \in 1..toolCall[c].done : toolCall[c].ops[i].path # f
    BY <1>0, <2>1
  <2>3. \A f \in Files \ spoiled' : Clean(c, file[f])
    BY <2>1, <2>2 DEF PatchesInv, Written
  <2>4. toolCall'[c].at = at
    BY <1>0, <2>1 DEF Record
  <2>5. toolCall' = [toolCall EXCEPT ![c].at = at, ![c].done = toolCall[c].done]
    BY <1>0, <2>1 DEF Record
  <2>6. \A f \in Files \ spoiled' : /\ \A d \in Requests \ {c} : Good(toolCall[d], d, f, file'[f], rewritten)
                                    /\ Good(toolCall'[c], c, f, file'[f], rewritten)
    BY <2>1, <2>2, <2>3, <2>4 DEF PatchesInv, Good
  <2> QED
    BY <1>0, <1>e, <2>1, <2>2, <2>5, <2>6
\* A new content holds no edit that the old one did not.
<1>9. ASSUME NEW c \in Requests, NEW f \in Files, F!WriteFile(c, f) PROVE PatchesInv'
  <2>1. toolCall[c].at = "start" /\ (\A d \in Requests : ~F!Busy(d)) /\ UNCHANGED spoiled
    BY <1>9 DEF F!WriteFile, F!MayBegin
  <2>2. PICK at \in {"ok", "failed", "died"} :
            /\ toolCall' = [toolCall EXCEPT ![c].at = at]
            /\ \/ UNCHANGED <<file, rewritten>>
               \/ \E kept \in SUBSET UNION file[f] :
                      /\ file' = [file EXCEPT ![f] = {kept}]
                      /\ rewritten' = rewritten \cup {f}
    BY <1>9 DEF F!WriteFile, F!Go
  <2>3. /\ toolCall' \in [Requests -> Record] /\ toolCall'[c].at = at
        /\ toolCall'[c].ops = <<>> /\ toolCall'[c].done = 0
        /\ \A d \in Requests \ {c} : toolCall'[d] = toolCall[d]
    BY <1>0, <1>00, <2>1, <2>2 DEF Record, PatchesInv, InOrder
  <2>4. Len(toolCall'[c].ops) = 0 /\ DOMAIN toolCall'[c].ops = {}
    BY <2>3
  <2>5. /\ file' \in [Files -> F!FileState]
        /\ rewritten \subseteq rewritten' /\ rewritten' \subseteq Files
        /\ \A g \in Files : file'[g] = file[g] \/ g \in rewritten'
        /\ \A g \in Files : \A e \in file'[g] : \A x \in e : \E k \in file[g] : x \in k
    <3>1. CASE UNCHANGED <<file, rewritten>>
      BY <1>0, <3>1
    <3>2. CASE \E kept \in SUBSET UNION file[f] :
                   file' = [file EXCEPT ![f] = {kept}] /\ rewritten' = rewritten \cup {f}
      <4>1. PICK kept \in SUBSET UNION file[f] :
                file' = [file EXCEPT ![f] = {kept}] /\ rewritten' = rewritten \cup {f}
        BY <3>2
      <4>2. {kept} \in F!FileState
        <5>1. UNION file[f] \subseteq F!Edit
          BY <1>0 DEF F!FileState, F!Content
        <5> QED
          BY <5>1 DEF F!FileState, F!Content
      <4>3. file'[f] = {kept} /\ \A g \in Files \ {f} : file'[g] = file[g]
        BY <1>0, <4>1
      <4> QED
        BY <1>0, <4>1, <4>2, <4>3
    <3> QED
      BY <2>2, <3>1, <3>2
  <2>6. ASSUME NEW d \in Requests, NEW g \in Files \ spoiled
        PROVE  Good(toolCall'[d], d, g, file'[g], rewritten')
    <3>1. Good(toolCall[d], d, g, file[g], rewritten)
      BY DEF PatchesInv
    <3>2. Clean(d, file[g]) => Clean(d, file'[g])
      BY <2>5 DEF Clean
    <3>3. CASE d = c
      <4>1. Made(toolCall'[c], c, g, file'[g])
        BY <2>4 DEF Made
      <4> QED
        BY <2>1, <3>1, <3>2, <3>3, <4>1 DEF Good
    <3>4. CASE d # c
      BY <2>3, <2>5, <3>1, <3>2, <3>4 DEF Good
    <3> QED
      BY <3>3, <3>4
  <2>7. \A d \in Requests : ~F!Busy(d)'
    BY <2>1, <2>2, <2>3 DEF F!Busy
  <2>8. F!TypeOK'
    <3>1. ASSUME NEW d \in Requests
          PROVE  /\ toolCall'[d].at \in F!At
                 /\ toolCall'[d].ops \in Seq(F!Op) /\ Len(toolCall'[d].ops) <= MaxEdits
                 /\ toolCall'[d].done \in 0..Len(toolCall'[d].ops)
      <4>1. CASE d = c
        BY <1>0, <1>00, <2>3, <2>4, <4>1 DEF Record
      <4>2. CASE d # c
        BY <1>0, <2>3, <4>2
      <4> QED
        BY <4>1, <4>2
    <3> QED
      BY <1>0, <2>1, <2>5, <3>1 DEF F!TypeOK
  <2>9. ASSUME NEW d \in Requests PROVE InOrder(toolCall'[d], file')
    <3>1. CASE d = c
      BY <2>2, <2>3, <2>4, <3>1 DEF InOrder
    <3>2. CASE d # c
      <4>1. InOrder(toolCall[d], file) /\ toolCall[d].at \notin {"patching", "editing", "writing"}
        BY <2>1 DEF PatchesInv, F!Busy
      <4> QED
        BY <2>3, <3>2, <4>1 DEF InOrder
    <3> QED
      BY <3>1, <3>2
  <2> QED
    BY <2>1, <2>3, <2>6, <2>7, <2>8, <2>9 DEF PatchesInv
<1>10. CASE UNCHANGED F!vars
  BY <1>10 DEF F!vars, PatchesInv, F!TypeOK, F!Busy
<1> QED
  BY <1>1, <1>2, <1>3, <1>4, <1>5, <1>6, <1>7, <1>8, <1>9, <1>10 DEF F!Next

\* What is kept is more than what is promised.
LEMMA PatchesPromise == PatchesInv => F!PatchesWhole
BY DEF PatchesInv, Good, Made, Clean, F!PatchesWhole, F!Decides

\* A set of naturals that is not empty has a first element ...
LEMMA FirstIn ==
    ASSUME NEW X \in SUBSET Nat, X # {}
    PROVE  U!FirstOf(X) \in X /\ \A j \in X : U!FirstOf(X) <= j
<1> DEFINE Less == OpToRel(<, Nat)
<1>1. IsWellFoundedOn(Less, Nat)
  BY NatLessThanWellFounded
<1>2. \A i, j \in Nat : j < i => <<j, i>> \in Less
  BY DEF OpToRel
<1> HIDE DEF Less
<1>3. \E i \in X : \A j \in X : i <= j
  <2>1. PICK i \in X : \A j \in X : ~(<<j, i>> \in Less)
    BY <1>1, WFMin
  <2>2. \A j \in X : ~(j < i)
    BY <1>2, <2>1
  <2> QED
    BY <2>2
<1> QED
  BY <1>3 DEF U!FirstOf

\* ... and, if it has a bound, a last one.
LEMMA LastIn ==
    ASSUME NEW X \in SUBSET Nat, X # {}, NEW n \in Nat, \A i \in X : i <= n
    PROVE  U!LastOf(X) \in X /\ \A j \in X : j <= U!LastOf(X)
<1> DEFINE Above == {m \in Nat : \A i \in X : i <= m}
<1>1. PICK m \in Above : \A k \in Above : m <= k
  <2>1. Above \in SUBSET Nat /\ n \in Above
    OBVIOUS
  <2> QED
    BY <2>1, FirstIn
<1>2. m \in X
  <2>1. SUFFICES ASSUME m \notin X PROVE FALSE
    OBVIOUS
  <2>2. \A i \in X : i < m /\ i \in Nat
    BY <2>1, <1>1
  <2>3. m \in Nat /\ m > 0
    <3>1. m \in Nat
      BY <1>1
    <3>2. PICK i \in X : i \in Nat /\ i < m
      BY <2>2
    <3> QED
      BY <3>1, <3>2
  <2>4. m - 1 \in Nat /\ \A i \in X : i <= m - 1
    BY <2>2, <2>3
  <2> QED
    BY <2>3, <2>4, <1>1
<1>3. \E i \in X : \A j \in X : j <= i
  BY <1>1, <1>2
<1> QED
  BY <1>3 DEF U!LastOf

-----------------------------------------------------------------------------
(* The test runs *)

\* Where an output mentions some words, the first and the last place are among those.
LEMMA Mentioned ==
    ASSUME NEW line \in Lines, NEW words, U!Mentions(line, words) # {}
    PROVE  /\ U!FirstOf(U!Mentions(line, words)) \in U!Mentions(line, words)
           /\ U!LastOf(U!Mentions(line, words)) \in U!Mentions(line, words)
<1>1. /\ line.counts \in Seq(U!Said \X Nat)
      /\ DOMAIN line.counts = 1..Len(line.counts) /\ Len(line.counts) \in Nat
  BY PartAssumptions DEF U!LinesAssumption
<1>2. /\ U!Mentions(line, words) \in SUBSET Nat
      /\ \A i \in U!Mentions(line, words) : i <= Len(line.counts)
  BY <1>1 DEF U!Mentions
<1> QED
  BY <1>1, <1>2, FirstIn, LastIn

\* What is counted in a line is a number that stands in it before one of them, or 0.
LEMMA LineCounts ==
    ASSUME NEW line \in Lines, NEW words
    PROVE  /\ U!First(line, words) \in Nat /\ U!Latest(line, words) \in Nat
           /\ U!First(line, words) > 0 => \E k \in U!Mentions(line, words) : line.counts[k][2] > 0
           /\ U!Latest(line, words) > 0 => \E k \in U!Mentions(line, words) : line.counts[k][2] > 0
<1>1. \A k \in U!Mentions(line, words) : line.counts[k][2] \in Nat
  <2>1. line.counts \in Seq(U!Said \X Nat)
    BY PartAssumptions DEF U!LinesAssumption
  <2> QED
    BY <2>1 DEF U!Mentions
<1> QED
  BY <1>1, Mentioned DEF U!First, U!Latest

\* An output is a sequence of lines.
LEMMA OutputLines ==
    ASSUME NEW output \in U!Outputs
    PROVE  /\ \A i \in DOMAIN output : output[i] \in Lines
           /\ \E n \in Nat : DOMAIN output = 1..n /\ \A i \in DOMAIN output : i <= n
<1>1. PICK n \in 0..MaxLines : output \in [1..n -> Lines]
  BY DEF U!Outputs
<1> QED
  BY <1>1

\* The adapters' counts are numbers; one that is not 0 was read before its word.
LEMMA Counts ==
    ASSUME NEW language \in U!Language, NEW output \in U!Outputs
    PROVE  /\ U!Count(language, output) \in [U!Word -> Nat]
           /\ \A w \in U!Word : U!Count(language, output)[w] > 0 =>
                  \E i \in DOMAIN output : \E k \in U!Mentions(output[i], U!Spelled(w)) :
                      output[i].counts[k][2] > 0
<1>0. PICK n \in Nat : DOMAIN output = 1..n /\ \A i \in DOMAIN output : i <= n
  BY OutputLines
<1>1. ASSUME NEW w \in U!Word, NEW X \in SUBSET DOMAIN output, X # {}
      PROVE  U!LastOf(X) \in DOMAIN output /\ U!FirstOf(X) \in DOMAIN output
  <2>1. X \in SUBSET Nat /\ \A i \in X : i <= n
    BY <1>0
  <2>2. U!FirstOf(X) \in X /\ U!LastOf(X) \in X
    BY <1>1, <2>1, FirstIn, LastIn
  <2> QED
    BY <2>2
<1>2. \A i \in DOMAIN output : output[i] \in Lines
  BY OutputLines
<1>3. ASSUME NEW w \in U!Word
      PROVE  /\ U!Pytest(output)[w] \in Nat
             /\ U!Pytest(output)[w] > 0 =>
                    \E i \in DOMAIN output : \E k \in U!Mentions(output[i], U!Spelled(w)) :
                        output[i].counts[k][2] > 0
  <2> DEFINE lines == {i \in U!Looked(output) : U!Mentions(output[i], U!Spelled(w)) # {}}
  <2>1. lines \in SUBSET DOMAIN output
    BY DEF U!Looked
  <2>2. U!Pytest(output)[w] = IF lines = {} THEN 0 ELSE U!Latest(output[U!LastOf(lines)], U!Spelled(w))
    BY <1>3 DEF U!Pytest
  <2> HIDE DEF lines
  <2>3. CASE lines = {}
    BY <2>2, <2>3
  <2>4. CASE lines # {}
    BY <1>1, <1>2, <1>3, <2>1, <2>2, <2>4, LineCounts
  <2> QED
    BY <2>3, <2>4
<1>4. ASSUME NEW w \in U!Word
      PROVE  /\ U!Vitest(output)[w] \in Nat
             /\ U!Vitest(output)[w] > 0 =>
                    \E i \in DOMAIN output : \E k \in U!Mentions(output[i], U!Spelled(w)) :
                        output[i].counts[k][2] > 0
  <2> DEFINE lines == {i \in DOMAIN output :
                          output[i].counts # <<>> /\ output[i].counts[1][1] = "passed"}
  <2>1. lines \in SUBSET DOMAIN output
    OBVIOUS
  <2>2. U!Vitest(output)[w] = IF lines = {} \/ w = "errors" THEN 0
                              ELSE U!First(output[U!FirstOf(lines)], {w})
    BY <1>4 DEF U!Vitest, U!Zero
  <2> HIDE DEF lines
  <2>3. CASE lines = {} \/ w = "errors"
    BY <2>2, <2>3
  <2>4. CASE lines # {} /\ w # "errors"
    <3>1. U!Spelled(w) = {w}
      BY <2>4 DEF U!Spelled
    <3> QED
      BY <1>1, <1>2, <1>4, <2>1, <2>2, <2>4, <3>1, LineCounts
  <2> QED
    BY <2>3, <2>4
<1>5. /\ U!Pytest(output) = [w \in U!Word |-> U!Pytest(output)[w]]
      /\ U!Vitest(output) = [w \in U!Word |-> U!Vitest(output)[w]]
  BY DEF U!Pytest, U!Vitest, U!Zero
<1> QED
  BY <1>3, <1>4, <1>5 DEF U!Count

\* For a summary that is the whole output, pytest's counts are the line's, if it
\* speaks of more than skips, and so are the tool's; what it mentions is not 0.
LEMMA PlainCounts ==
    ASSUME NEW output \in U!Outputs, U!Plain(output)
    PROVE  /\ output[1] \in Lines
           /\ \A w \in U!Word : U!ToolCount(w, output) = U!First(output[1], {w})
           /\ IF U!Speaks(output[1])
              THEN \A w \in U!Word : U!Pytest(output)[w] = U!First(output[1], U!Spelled(w))
              ELSE \A w \in U!Word : U!Pytest(output)[w] = 0
<1>1. DOMAIN output = {1} /\ output[1] \in Lines
  <2>1. PICK n \in 0..MaxLines : output \in [1..n -> Lines]
    BY DEF U!Outputs
  <2>2. output \in Seq(Lines) /\ Len(output) = 1
    BY <2>1, IsASeq DEF U!Plain
  <2> QED
    BY <2>2
<1>2. U!FirstOf({1}) = 1 /\ U!LastOf({1}) = 1
  BY FirstIn, LastIn
<1>3. ASSUME NEW w \in U!Word
      PROVE  U!Latest(output[1], U!Spelled(w)) = U!First(output[1], U!Spelled(w))
  <2> DEFINE here == U!Mentions(output[1], U!Spelled(w))
  <2>1. \A i, j \in here : i = j
    BY DEF U!Plain
  <2>2. here # {} => U!FirstOf(here) \in here /\ U!LastOf(here) \in here
    BY <1>1, Mentioned
  <2>3. U!Latest(output[1], U!Spelled(w)) =
            IF here = {} THEN 0 ELSE output[1].counts[U!LastOf(here)][2]
    BY DEF U!Latest
  <2>4. U!First(output[1], U!Spelled(w)) =
            IF here = {} THEN 0 ELSE output[1].counts[U!FirstOf(here)][2]
    BY DEF U!First
  <2> HIDE DEF here
  <2>5. here # {} => U!FirstOf(here) = U!LastOf(here)
    BY <2>1, <2>2
  <2> QED
    BY <2>3, <2>4, <2>5
<1>4. ASSUME NEW w \in U!Word PROVE U!ToolCount(w, output) = U!First(output[1], {w})
  <2> DEFINE lines == {i \in DOMAIN output : U!Mentions(output[i], {w}) # {}}
  <2>1. lines = IF U!Mentions(output[1], {w}) = {} THEN {} ELSE {1}
    BY <1>1
  <2>2. U!ToolCount(w, output) = IF lines = {} THEN 0 ELSE U!First(output[U!FirstOf(lines)], {w})
    BY DEF U!ToolCount
  <2> HIDE DEF lines
  <2> QED
    BY <1>2, <2>1, <2>2 DEF U!First
<1>5. U!Looked(output) = IF U!Speaks(output[1]) THEN {1} ELSE {}
  <2>1. \A j \in 1..(1 - 1) : FALSE
    OBVIOUS
  <2> QED
    BY <1>1, <2>1 DEF U!Looked
<1>6. ASSUME NEW w \in U!Word
      PROVE  U!Pytest(output)[w] =
                 IF U!Speaks(output[1]) THEN U!First(output[1], U!Spelled(w)) ELSE 0
  <2> DEFINE lines == {i \in U!Looked(output) : U!Mentions(output[i], U!Spelled(w)) # {}}
  <2>1. lines = IF U!Speaks(output[1]) /\ U!Mentions(output[1], U!Spelled(w)) # {} THEN {1} ELSE {}
    BY <1>5
  <2>2. U!Pytest(output)[w] =
            IF lines = {} THEN 0 ELSE U!Latest(output[U!LastOf(lines)], U!Spelled(w))
    BY <1>6 DEF U!Pytest
  <2> HIDE DEF lines
  <2> QED
    BY <1>2, <1>3, <2>1, <2>2 DEF U!First
<1> QED
  BY <1>1, <1>4, <1>6

\* A summary has a count that is not 0 of exactly what it mentions.
LEMMA PlainMentions ==
    ASSUME NEW output \in U!Outputs, U!Plain(output), NEW words
    PROVE  (U!First(output[1], words) = 0) <=> (U!Mentions(output[1], words) = {})
<1> DEFINE here == U!Mentions(output[1], words)
<1>1. output[1] \in Lines
  BY PlainCounts
<1>2. here # {} => U!FirstOf(here) \in here
  BY <1>1, Mentioned
<1>3. \A i \in here : output[1].counts[i][2] > 0
  BY DEF U!Plain, U!Mentions
<1>4. U!First(output[1], words) = IF here = {} THEN 0 ELSE output[1].counts[U!FirstOf(here)][2]
  BY DEF U!First
<1>5. U!First(output[1], words) \in Nat
  BY <1>1, LineCounts
<1> HIDE DEF here
<1>6. here # {} => U!First(output[1], words) > 0
  BY <1>2, <1>3, <1>4
<1>7. (U!First(output[1], words) = 0) <=> (here = {})
  BY <1>4, <1>5, <1>6
<1> QED
  BY <1>7 DEF here

\* A summary that speaks of more than skips, and not of failures or errors, has passes.
LEMMA SpeaksOfPasses ==
    ASSUME NEW output \in U!Outputs, U!Plain(output), U!Speaks(output[1]),
           U!First(output[1], {"failed"}) = 0, U!First(output[1], U!Spelled("errors")) = 0
    PROVE  U!First(output[1], {"passed"}) # 0
<1>1. /\ output[1] \in Lines
      /\ output[1].counts \in Seq(U!Said \X Nat)
  BY PlainCounts, PartAssumptions DEF U!LinesAssumption
<1>2. PICK i \in DOMAIN output[1].counts : output[1].counts[i][1] # "skipped"
  BY DEF U!Speaks
<1> DEFINE w == output[1].counts[i][1]
<1>3. w \in U!Said /\ w # "skipped" /\ \A words : w \in words => i \in U!Mentions(output[1], words)
  BY <1>1, <1>2 DEF U!Mentions
<1> HIDE DEF w
<1>4. w \notin {"failed"} /\ w \notin {"error", "errors"}
  BY <1>3, PlainMentions DEF U!Spelled
<1>5. w \in {"passed"}
  BY <1>3, <1>4 DEF U!Said, U!Word
<1> QED
  BY <1>3, <1>5, PlainMentions

\* What a summary has of errors is several of them, or one.
LEMMA PlainErrors ==
    ASSUME NEW output \in U!Outputs, U!Plain(output)
    PROVE  (U!First(output[1], U!Spelled("errors")) = 0)
           <=> (U!First(output[1], {"errors"}) = 0 /\ U!Mentions(output[1], {"error"}) = {})
<1>1. U!Mentions(output[1], U!Spelled("errors")) =
          U!Mentions(output[1], {"errors"}) \cup U!Mentions(output[1], {"error"})
  BY DEF U!Mentions, U!Spelled
<1> QED
  BY <1>1, PlainMentions

\* What is stored of a run of pytest that did not end with code 5.
Corrected(n, exit) == IF exit = 0 /\ U!None(n) THEN [n EXCEPT !["errors"] = 1] ELSE n

\* The stored verdict is the tool's, but for one error, and a pass's counts are
\* the summary's.
Agrees(output, exit, c) ==
    /\ U!Verdict("python", U!Pytest(output), exit) = "passed"
           <=> U!ToolPasses(output, exit) /\ U!Mentions(output[1], {"error"}) = {}
    /\ U!Verdict("python", U!Pytest(output), exit) = "passed" =>
           \A w \in U!Word : c[w] = U!First(output[1], U!Spelled(w))

\* They agree where pytest's exit code agrees with the counts stored.
LEMMA VerdictsAgree ==
    ASSUME NEW output \in U!Outputs, U!Plain(output), NEW exit \in U!Exit, exit # 5,
           NEW c, c = Corrected(U!Pytest(output), exit),
           (exit = 0) <=> (c["failed"] + c["errors"] = 0)
    PROVE  Agrees(output, exit, c)
<1> DEFINE n == U!Pytest(output)
<1>0. /\ n \in [U!Word -> Nat] /\ {"passed", "failed", "skipped", "errors"} = U!Word
      /\ "python" \in U!Language
  <2>1. "python" \in U!Language
    BY DEF U!Language
  <2>2. U!Count("python", output) = n
    BY DEF U!Count
  <2> QED
    BY <2>1, <2>2, Counts DEF U!Word
<1>n. /\ c = IF exit = 0 /\ U!None(n) THEN [n EXCEPT !["errors"] = 1] ELSE n
      /\ \A w : n[w] = U!Pytest(output)[w]
      /\ (exit = 0) <=> (c["failed"] + c["errors"] = 0)
  BY DEF n, Corrected
<1> HIDE DEF n
<1>1. U!Speaks(output[1])
  <2>1. SUFFICES ASSUME ~U!Speaks(output[1]) PROVE FALSE
    OBVIOUS
  <2>2. \A w \in U!Word : n[w] = 0
    BY <1>n, <2>1, PlainCounts
  <2>3. U!None(n) /\ n["failed"] = 0 /\ n["errors"] = 0
    BY <1>0, <2>2 DEF U!None
  <2>4. CASE exit = 0
    <3>1. c["failed"] = 0 /\ c["errors"] = 1
      BY <1>0, <1>n, <2>3, <2>4
    <3> QED
      BY <2>4, <3>1
  <2>5. CASE exit # 0
    BY <1>n, <2>3, <2>5
  <2> QED
    BY <2>4, <2>5
<1>2. \A w \in U!Word : /\ n[w] = U!First(output[1], U!Spelled(w))
                        /\ U!ToolCount(w, output) = U!First(output[1], {w})
  BY <1>1, <1>n, PlainCounts
<1>s. U!Spelled("passed") = {"passed"} /\ U!Spelled("failed") = {"failed"}
  BY DEF U!Spelled
<1>3. U!ToolPasses(output, exit) /\ U!Mentions(output[1], {"error"}) = {}
      <=> (n["failed"] = 0 /\ n["errors"] = 0 /\ n["passed"] > 0)
  BY <1>0, <1>2, <1>s, PlainErrors DEF U!ToolPasses
<1>4. n["failed"] = 0 /\ n["errors"] = 0 => n["passed"] > 0
  <2>1. SUFFICES ASSUME n["failed"] = 0, n["errors"] = 0 PROVE n["passed"] > 0
    OBVIOUS
  <2>2. U!First(output[1], {"failed"}) = 0 /\ U!First(output[1], U!Spelled("errors")) = 0
    BY <1>0, <1>2, <1>s, <2>1
  <2>3. U!First(output[1], {"passed"}) # 0
    BY <1>1, <2>2, SpeaksOfPasses
  <2> QED
    BY <1>0, <1>2, <1>s, <2>3
<1>5. ~U!None(n)
  BY <1>0, <1>4 DEF U!None
<1>6. c = n
  BY <1>5, <1>n
<1>7. (U!Verdict("python", n, exit) = "passed")
      <=> (exit = 0 /\ n["failed"] = 0 /\ n["errors"] = 0)
  BY <1>5 DEF U!Verdict
<1>8. n["failed"] \in Nat /\ n["errors"] \in Nat
  BY <1>0
<1>9. (exit = 0) <=> (n["failed"] = 0 /\ n["errors"] = 0)
  BY <1>n, <1>6, <1>8
<1> QED
  BY <1>2, <1>3, <1>4, <1>6, <1>7, <1>9 DEF n, Agrees

\* A stored verdict is the one read off the output.
JudgedBy(t, p) ==
    LET n == U!Count(t.language, p.output)
        empty == (p.exit = 0 /\ U!None(n)) \/ (p.exit = 5 /\ t.language = "python")
    IN  /\ t.status = U!Verdict(t.language, n, p.exit)
        /\ t.count = IF empty THEN [n EXCEPT !["errors"] = 1] ELSE n

\* The row of a run follows its process.
Stage(r) ==
    /\ process[r].at \in {"start", "created", "late", "unstarted"} => process[r].output = <<>>
    /\ \A t, u \in testRun[r] : t = u
    /\ \A t \in testRun[r] :
           /\ process[r].at # "over" => t.status = "running"
           /\ process[r].at \in {"exited", "late", "unstarted", "over"} => t.language \in U!Adapted
           /\ process[r].at = "over" =>
                  \/ t.status \in {"timeout", "errored"} /\ process[r].output = <<>>
                  \/ JudgedBy(t, process[r])

TestRunsInv == U!TypeOK /\ \A r \in Runs : Stage(r)

\* No run has begun.
LEMMA TestRunsInit == U!Init => TestRunsInv
<1> SUFFICES ASSUME U!Init PROVE TestRunsInv
  OBVIOUS
<1>1. /\ testRun = [r \in Runs |-> {}]
      /\ process = [r \in Runs |-> [at |-> "start", output |-> <<>>, exit |-> 0]]
  BY DEF U!Init
<1>2. <<>> \in U!Outputs /\ "start" \in U!At /\ 0 \in U!Exit
  <2>1. <<>> \in [1..0 -> Lines] /\ 0 \in 0..MaxLines
    BY PartAssumptions DEF U!LinesAssumption
  <2> QED
    BY <2>1 DEF U!Outputs, U!At, U!Exit
<1>3. U!TypeOK
  BY <1>1, <1>2 DEF U!TypeOK
<1>4. \A r \in Runs : testRun[r] = {} /\ process[r].at = "start" /\ process[r].output = <<>>
  BY <1>1
<1> QED
  BY <1>3, <1>4 DEF TestRunsInv, Stage

\* Every step of TestRuns keeps TestRunsInv.
LEMMA TestRunsNext == TestRunsInv /\ [U!Next]_(U!vars) => TestRunsInv'
<1> SUFFICES ASSUME TestRunsInv, [U!Next]_(U!vars) PROVE TestRunsInv'
  OBVIOUS
<1> DEFINE Rows == [language : U!Language, status : U!Status, count : [U!Word -> Nat]]
           Request == [at : U!At, output : U!Outputs, exit : U!Exit]
<1>0. /\ U!TypeOK /\ process \in [Runs -> Request]
      /\ testRun \in [Runs -> SUBSET Rows]
      /\ \A r \in Runs : process[r] \in Request /\ testRun[r] \subseteq Rows
      /\ \A r \in Runs : Stage(r)
  BY DEF TestRunsInv, U!TypeOK
\* A request that goes on keeps what its process said.
<1>a. ASSUME NEW r \in Runs, NEW at \in U!At, U!Go(r, at)
      PROVE  /\ process' \in [Runs -> Request]
             /\ process'[r].at = at
             /\ process'[r].output = process[r].output /\ process'[r].exit = process[r].exit
             /\ \A q \in Runs \ {r} : process'[q] = process[q]
  <2>1. process' = [process EXCEPT ![r].at = at] /\ process[r] \in Request
    BY <1>0, <1>a DEF U!Go
  <2>2. [process[r] EXCEPT !.at = at] \in Request
    BY <2>1
  <2> QED
    BY <1>0, <2>1, <2>2
\* A step of one run leaves the others alone.
<1>b. ASSUME NEW r \in Runs, process' \in [Runs -> Request],
             \A q \in Runs \ {r} : process'[q] = process[q],
             \A q \in Runs \ {r} : testRun'[q] = testRun[q],
             testRun' \in [Runs -> SUBSET Rows],
             Stage(r)'
      PROVE  TestRunsInv'
  <2>1. U!TypeOK'
    BY <1>b DEF U!TypeOK
  <2>2. ASSUME NEW q \in Runs \ {r} PROVE Stage(q)'
    <3>1. process'[q] = process[q] /\ testRun'[q] = testRun[q] /\ Stage(q)
      BY <1>0, <1>b, <2>2
    <3> QED
      BY <3>1 DEF Stage, JudgedBy
  <2> QED
    BY <1>b, <2>1, <2>2 DEF TestRunsInv
\* A row that stays as it is.
<1>c. ASSUME NEW r \in Runs, NEW at \in U!At \ {"start", "over"}, U!Go(r, at), UNCHANGED testRun,
             process[r].at # "over",
             at = "created" => process[r].at = "start",
             at \in {"created", "late", "unstarted"} => process[r].output = <<>>,
             at \in {"exited", "late", "unstarted"} =>
                 \A t \in testRun[r] : t.language \in U!Adapted
      PROVE  TestRunsInv'
  <2>1. Stage(r)'
    BY <1>0, <1>a, <1>c DEF Stage
  <2> QED
    BY <1>0, <1>a, <1>b, <1>c, <2>1
<1>1. ASSUME NEW r \in Runs, NEW language \in U!Language, U!Create(r, language)
      PROVE  TestRunsInv'
  <2> DEFINE t == [language |-> language, status |-> "running", count |-> U!Zero]
  <2>1. /\ U!Go(r, "created") /\ process[r].at = "start"
        /\ testRun' = [testRun EXCEPT ![r] = {t}]
    BY <1>1 DEF U!Create
  <2>2. t \in Rows /\ t.status = "running" /\ "created" \in U!At
    BY DEF U!Status, U!Zero, U!At
  <2> HIDE DEF t
  <2>3. /\ testRun' \in [Runs -> SUBSET Rows] /\ testRun'[r] = {t}
        /\ \A q \in Runs \ {r} : testRun'[q] = testRun[q]
    BY <1>0, <2>1, <2>2
  <2>4. Stage(r)'
    BY <1>0, <1>a, <2>1, <2>2, <2>3 DEF Stage
  <2> QED
    BY <1>a, <1>b, <2>1, <2>2, <2>3, <2>4
<1>2. ASSUME NEW r \in Runs, U!Refuse(r) PROVE TestRunsInv'
  BY <1>2, <1>c DEF U!Refuse, U!At
<1>3. ASSUME NEW r \in Runs, U!Ends(r) PROVE TestRunsInv'
  <2>1. PICK output \in U!Outputs, exit \in U!Exit :
            process' = [process EXCEPT ![r] = [at |-> "exited", output |-> output, exit |-> exit]]
    BY <1>3 DEF U!Ends
  <2>2. UNCHANGED testRun /\ U!Of(r, U!Adapted) /\ process[r].at = "created"
    BY <1>3 DEF U!Ends
  <2>3. /\ process' \in [Runs -> Request] /\ process'[r].at = "exited"
        /\ \A q \in Runs \ {r} : process'[q] = process[q]
    <3>1. [at |-> "exited", output |-> output, exit |-> exit] \in Request
      BY DEF U!At
    <3> QED
      BY <1>0, <2>1, <3>1
  <2>4. \A t \in testRun[r] : t.language \in U!Adapted
    BY <1>0, <2>2 DEF U!Of, Stage
  <2>5. Stage(r)'
    BY <1>0, <2>2, <2>3, <2>4 DEF Stage
  <2> QED
    BY <1>0, <1>b, <2>2, <2>3, <2>5
<1>4. ASSUME NEW r \in Runs, U!Late(r) PROVE TestRunsInv'
  <2>1. /\ process[r].at = "created" /\ U!Of(r, U!Adapted) /\ UNCHANGED testRun
        /\ U!Go(r, "late") \/ U!Go(r, "unstarted")
    BY <1>4 DEF U!Late
  <2>2. process[r].output = <<>> /\ \A t \in testRun[r] : t.language \in U!Adapted
    BY <1>0, <2>1 DEF U!Of, Stage
  <2> QED
    BY <1>c, <2>1, <2>2 DEF U!At
<1>5. ASSUME NEW r \in Runs, U!Store(r) PROVE TestRunsInv'
  <2>1. PICK t \in testRun[r] :
            \/ /\ process[r].at = "exited"
               /\ testRun' = [testRun EXCEPT ![r] =
                      {U!Judged(t, process[r].output, process[r].exit)}]
            \/ /\ process[r].at = "late"
               /\ testRun' = [testRun EXCEPT ![r] = {[t EXCEPT !.status = "timeout"]}]
            \/ /\ process[r].at = "unstarted"
               /\ testRun' = [testRun EXCEPT ![r] = {[t EXCEPT !.status = "errored"]}]
    BY <1>5 DEF U!Store
  <2>2. /\ t \in Rows /\ t.language \in U!Adapted
        /\ process[r].at \in {"late", "unstarted"} => process[r].output = <<>>
    BY <1>0, <2>1 DEF Stage
  <2>3. PICK u \in Rows :
            /\ testRun' = [testRun EXCEPT ![r] = {u}]
            /\ u.language = t.language /\ u.status # "running"
            /\ \/ u.status \in {"timeout", "errored"} /\ process[r].output = <<>>
               \/ JudgedBy(u, process[r])
    <3>1. CASE process[r].at = "exited"
      <4> DEFINE n == U!Count(t.language, process[r].output)
                 u == U!Judged(t, process[r].output, process[r].exit)
      <4>1. n \in [U!Word -> Nat] /\ "errors" \in U!Word
        BY <1>0, <2>2, Counts DEF U!Word
      <4>2. [n EXCEPT !["errors"] = 1] \in [U!Word -> Nat]
        BY <4>1
      <4>3. /\ U!Verdict(t.language, n, process[r].exit) \in U!Status
            /\ U!Verdict(t.language, n, process[r].exit) # "running"
        BY DEF U!Verdict, U!Status
      <4>4. u \in Rows /\ u.language = t.language /\ u.status # "running" /\ JudgedBy(u, process[r])
        BY <2>2, <4>1, <4>2, <4>3 DEF U!Judged, JudgedBy
      <4> QED
        BY <2>1, <3>1, <4>4
    <3>2. CASE process[r].at # "exited"
      <4>1. PICK s \in {"timeout", "errored"} :
                testRun' = [testRun EXCEPT ![r] = {[t EXCEPT !.status = s]}]
        BY <2>1, <3>2
      <4>2. [t EXCEPT !.status = s] \in Rows /\ s \in U!Status
        BY <2>2 DEF U!Status
      <4> QED
        BY <2>1, <2>2, <3>2, <4>1, <4>2
    <3> QED
      BY <3>1, <3>2
  <2>4. U!Go(r, "over") /\ "over" \in U!At
    BY <1>5 DEF U!Store, U!At
  <2>5. /\ testRun' \in [Runs -> SUBSET Rows] /\ testRun'[r] = {u}
        /\ \A q \in Runs \ {r} : testRun'[q] = testRun[q]
    BY <1>0, <2>3
  <2>6. JudgedBy(u, process[r]) => JudgedBy(u, process'[r])
    BY <1>a, <2>4 DEF JudgedBy
  <2>7. Stage(r)'
    BY <1>a, <2>2, <2>3, <2>4, <2>5, <2>6 DEF Stage
  <2> QED
    BY <1>a, <1>b, <2>4, <2>5, <2>7
<1>6. ASSUME NEW r \in Runs, U!Dies(r) PROVE TestRunsInv'
  BY <1>6, <1>c DEF U!Dies, U!At
<1>7. CASE UNCHANGED U!vars
  BY <1>0, <1>7 DEF U!vars, TestRunsInv, U!TypeOK, Stage, JudgedBy
<1> QED
  BY <1>1, <1>2, <1>3, <1>4, <1>5, <1>6, <1>7 DEF U!Next

\* What the invariant says of a run that is over is the verdict's truth.
LEMMA TestRunsTrue == TestRunsInv => U!VerdictTrue
<1> SUFFICES ASSUME TestRunsInv, NEW r \in Runs, NEW t \in testRun[r]
             PROVE  LET p == process[r]
                        Read(w) == \E i \in DOMAIN p.output : \E k \in U!Mentions(p.output[i], {w}) :
                                       p.output[i].counts[k][2] > 0
                        OneError == U!Mentions(p.output[1], {"error"}) # {}
                    IN  /\ t.status = "passed" =>
                               /\ p.at = "over" /\ p.exit = 0
                               /\ Read("passed") \/ Read("skipped")
                               /\ t.count["failed"] = 0
                        /\ t.status = "failed" => Read("failed")
                        /\ t.status = "running" => p.at # "over"
                        /\ p.at = "over" /\ t.language = "python" /\ U!Plain(p.output) /\ p.exit # 5
                             /\ ((p.exit = 0) <=> (t.count["failed"] + t.count["errors"] = 0))
                           => /\ t.status = "passed" <=> U!ToolPasses(p.output, p.exit) /\ ~OneError
                              /\ t.status = "passed" =>
                                     \A w \in U!Word : t.count[w] = U!First(p.output[1], U!Spelled(w))
  BY DEF U!VerdictTrue
<1> DEFINE p == process[r]
           n == U!Count(t.language, p.output)
           Read(w) == \E i \in DOMAIN p.output : \E k \in U!Mentions(p.output[i], {w}) :
                          p.output[i].counts[k][2] > 0
           OneError == U!Mentions(p.output[1], {"error"}) # {}
<1>0. /\ Stage(r) /\ p.output \in U!Outputs /\ p.exit \in U!Exit
      /\ t.language \in U!Language
      /\ {"passed", "failed", "skipped", "errors"} = U!Word
  BY DEF TestRunsInv, U!TypeOK, U!Word
<1>1. CASE p.at # "over"
  <2>1. t.status = "running"
    BY <1>0, <1>1 DEF Stage
  <2> QED
    BY <1>1, <2>1
<1>2. CASE p.at = "over" /\ t.status \in {"timeout", "errored"} /\ p.output = <<>>
  <2>1. ~U!Plain(p.output)
    BY <1>2 DEF U!Plain
  <2> QED
    BY <1>2, <2>1
<1>3. CASE p.at = "over" /\ JudgedBy(t, p)
  <2>1. /\ n \in [U!Word -> Nat]
        /\ \A w \in U!Word \ {"errors"} : n[w] > 0 => Read(w)
    <3>1. \A w \in U!Word \ {"errors"} : U!Spelled(w) = {w}
      BY DEF U!Spelled
    <3> QED
      BY <1>0, <3>1, Counts
  <2>2. t.status = U!Verdict(t.language, n, p.exit)
    BY <1>3 DEF JudgedBy
  <2>3. t.status = "passed" => /\ p.exit = 0 /\ ~U!None(n) /\ t.count = n
                               /\ n["failed"] = 0 /\ n["errors"] = 0
    BY <1>3, <2>2 DEF U!Verdict, JudgedBy
  <2>4. t.status = "passed" => n["passed"] > 0 \/ n["skipped"] > 0
    BY <1>0, <2>1, <2>3 DEF U!None
  <2>5. t.status = "failed" => n["failed"] > 0
    BY <2>2 DEF U!Verdict
  <2>6. t.status # "running"
    BY <2>2 DEF U!Verdict
  <2>7. ASSUME t.language = "python", U!Plain(p.output), p.exit # 5,
               (p.exit = 0) <=> (t.count["failed"] + t.count["errors"] = 0)
        PROVE  /\ t.status = "passed" <=> U!ToolPasses(p.output, p.exit) /\ ~OneError
               /\ t.status = "passed" => \A w \in U!Word : t.count[w] = U!First(p.output[1], U!Spelled(w))
    <3>1. n = U!Pytest(p.output)
      BY <2>7 DEF U!Count
    <3>2. t.count = Corrected(U!Pytest(p.output), p.exit)
      BY <1>3, <2>7, <3>1 DEF JudgedBy, Corrected
    <3> HIDE DEF n, p
    <3>3. t.status = U!Verdict("python", U!Pytest(p.output), p.exit)
      BY <2>2, <2>7, <3>1
    <3>4. Agrees(p.output, p.exit, t.count)
      BY <1>0, <2>7, <3>2, VerdictsAgree
    <3> QED
      BY <3>3, <3>4 DEF Agrees
  <2> QED
    BY <1>0, <1>3, <2>1, <2>3, <2>4, <2>5, <2>6, <2>7
<1> QED
  BY <1>0, <1>1, <1>2, <1>3 DEF Stage

-----------------------------------------------------------------------------
(* The conversation *)

\* A loop whose answer's calls are being run.
Busy(l) == loop[l].pc \in {"tools", "gated"}

\* Only results say which answer asked for them, and it stands before them.
Linked ==
    \A i \in DOMAIN rows : IF rows[i].role = "tool" THEN rows[i].of \in 1..(i - 1)
                                                    ELSE rows[i].of = 0

\* What a loop holds of the stored system messages.
Holds(l) ==
    /\ loop[l].list.system \subseteq M!System
    /\ loop[l].known => M!System # {}
    /\ loop[l].approval <= Len(rows)
    /\ loop[l].pc \in {"top", "llm", "tools", "gated"} =>
           loop[l].list.system # {} /\ (loop[l].known => M!Seen(l))

\* Its list is as long as its steps are many, up to where lists are cut.
Ahead(l) ==
    /\ loop[l].pc \in {"idle", "resuming", "entering", "opening"} => loop[l].steps = 0
    /\ loop[l].steps < M!Kept + 3 =>
           IF loop[l].pc = "llm" THEN M!Length(loop[l].list) + 1 >= loop[l].steps
                                 ELSE M!Length(loop[l].list) >= loop[l].steps

\* Its answer is stored, and the list is as long as the number of the last result.
Answered(l) ==
    Busy(l) =>
        /\ loop[l].answer \in DOMAIN rows
        /\ rows[loop[l].answer].role = "assistant"
        /\ rows[loop[l].answer].seq = loop[l].steps
        /\ \A i \in DOMAIN rows :
               rows[i].of = loop[l].answer => rows[i].seq <= M!Length(loop[l].list)

\* No two loops run the calls of one answer.
Apart == \A l, k \in Loops : l # k /\ Busy(l) /\ Busy(k) => loop[l].answer # loop[k].answer

ConversationInv ==
    /\ M!TypeOK
    /\ Linked
    /\ saved => M!System # {}
    /\ \A l \in Loops : Holds(l) /\ Ahead(l) /\ Answered(l)
    /\ Apart
    /\ M!ResultsFollow

\* Conversation counts as its library does.
LEMMA Sizes == \A X : M!Cardinality(X) = Cardinality(X)
BY DEF M!Cardinality, Cardinality

\* A list has a length.
LEMMA Lengths ==
    ASSUME NEW list \in M!List
    PROVE  /\ IsFiniteSet(list.system) /\ Cardinality(list.system) \in Nat
           /\ list.system # {} => Cardinality(list.system) >= 1
           /\ M!Length(list) \in Nat
           /\ M!Length(list) = Cardinality(list.system) + list.summaries + list.talk
<1>1. MaxRows \in Nat /\ list.system \in SUBSET (1..MaxRows)
      /\ list.summaries \in Nat /\ list.talk \in Nat
  BY PartAssumptions DEF M!BoundsAssumption, M!List
<1>2. IsFiniteSet(1..MaxRows)
  BY <1>1, FS_Interval
<1>3. IsFiniteSet(list.system)
  BY <1>1, <1>2, FS_Subset
<1>4. Cardinality(list.system) \in Nat /\ (Cardinality(list.system) = 0 <=> list.system = {})
  BY <1>3, FS_CardinalityType, FS_EmptySet
<1>5. M!Length(list) = Cardinality(list.system) + list.summaries + list.talk
  BY Sizes DEF M!Length
<1> QED
  BY <1>1, <1>3, <1>4, <1>5

\* trim and maybe_summarize keep the stored system messages and, of a list with one,
\* more than Kept messages or all of them.
LEMMA Cut ==
    ASSUME NEW list \in M!List
    PROVE  /\ M!Summarized(M!Trimmed(list)) \in M!List
           /\ M!Summarized(M!Trimmed(list)).system = list.system
           /\ list.system # {} =>
                  \/ M!Length(M!Summarized(M!Trimmed(list))) >= M!Length(list)
                  \/ M!Length(M!Summarized(M!Trimmed(list))) > M!Kept
           /\ M!Kept \in Nat
<1>1. MaxMessages \in Nat \ {0} /\ Threshold \in Nat \ {0}
  BY PartAssumptions DEF M!BoundsAssumption
<1>2. Threshold \div 2 \in Nat /\ Threshold \div 2 <= Threshold
  BY <1>1
<1> DEFINE half == Threshold \div 2
           trimmed == M!Trimmed(list)
           cut == M!Summarized(trimmed)
           c == Cardinality(list.system)
<1>3. c \in Nat /\ (list.system # {} => c >= 1)
      /\ list.summaries \in Nat /\ list.talk \in Nat
      /\ M!Length(list) = c + list.summaries + list.talk
  BY Lengths DEF M!List
<1>4. /\ trimmed \in M!List /\ trimmed.system = list.system
      /\ trimmed.summaries = list.summaries
      /\ trimmed.talk = IF M!Length(list) <= MaxMessages THEN list.talk
                        ELSE M!Least(list.talk, MaxMessages)
  BY <1>1 DEF M!Trimmed, M!Least, M!List
<1> HIDE DEF trimmed, half, c
<1>5. /\ cut \in M!List /\ cut.system = list.system
      /\ M!Length(trimmed) <= Threshold => cut = trimmed
      /\ M!Length(trimmed) > Threshold =>
             /\ cut.summaries = trimmed.summaries + 1
             /\ cut.talk = trimmed.talk - M!Least(trimmed.talk, half)
  <2>1. M!Length(trimmed) \in Nat
    BY <1>4, Lengths
  <2>2. half \in Nat
    BY <1>2 DEF half
  <2>3. trimmed.talk - M!Least(trimmed.talk, half) \in Nat /\ trimmed.summaries + 1 \in Nat
    BY <1>4, <2>2 DEF M!Least, M!List
  <2>4. cut = IF M!Length(trimmed) <= Threshold THEN trimmed
              ELSE [trimmed EXCEPT !.summaries = trimmed.summaries + 1,
                                   !.talk = trimmed.talk - M!Least(trimmed.talk, half)]
    BY DEF M!Summarized, half
  <2>5. CASE M!Length(trimmed) <= Threshold
    BY <1>1, <1>4, <2>1, <2>4, <2>5
  <2>6. CASE ~(M!Length(trimmed) <= Threshold)
    <3>1. cut = [trimmed EXCEPT !.summaries = trimmed.summaries + 1,
                                !.talk = trimmed.talk - M!Least(trimmed.talk, half)]
      BY <2>4, <2>6
    <3> QED
      BY <1>4, <2>3, <2>6, <3>1 DEF M!List
  <2> QED
    BY <2>5, <2>6
<1> HIDE DEF cut
<1>6. /\ M!Length(trimmed) = c + trimmed.summaries + trimmed.talk
      /\ M!Length(cut) = c + cut.summaries + cut.talk
      /\ trimmed.talk \in Nat /\ cut.talk \in Nat
  BY <1>4, <1>5, Lengths DEF M!List, c
<1>7. M!Kept \in Nat /\ M!Kept <= MaxMessages /\ M!Kept <= Threshold + 1 - half
  BY <1>1, <1>2 DEF M!Kept, M!Least, half
<1>8. half \in Nat /\ half <= Threshold
  BY <1>2 DEF half
<1>9. list.system # {} => M!Length(cut) >= M!Length(list) \/ M!Length(cut) > M!Kept
  <2>1. SUFFICES ASSUME c >= 1 PROVE M!Length(cut) >= M!Length(list) \/ M!Length(cut) > M!Kept
    BY <1>3
  <2>2. M!Length(trimmed) >= M!Length(list) \/ M!Length(trimmed) > MaxMessages
    BY <1>1, <1>3, <1>4, <1>6, <2>1 DEF M!Least
  <2>3. M!Length(cut) = M!Length(trimmed) \/ M!Length(cut) > Threshold + 1 - half
    BY <1>1, <1>3, <1>4, <1>5, <1>6, <1>8 DEF M!Least
  <2> QED
    BY <1>1, <1>3, <1>4, <1>5, <1>6, <1>7, <1>8, <2>2, <2>3
<1> QED
  BY <1>5, <1>7, <1>9 DEF cut, trimmed

\* The run does not exist.
LEMMA ConversationInit == M!Init => ConversationInv
<1> SUFFICES ASSUME M!Init PROVE ConversationInv
  OBVIOUS
<1>1. rows = <<>> /\ status = "absent" /\ saved = FALSE /\ loop = [l \in Loops |-> M!Idle]
  BY DEF M!Init
<1>2. {MaxSteps, MaxMessages, Threshold, Every} \subseteq Nat \ {0} /\ MaxBatch \in Nat /\ MaxRows \in Nat
  BY PartAssumptions DEF M!BoundsAssumption
<1>3. M!Idle \in M!LoopState /\ M!Idle.list \in M!List
  BY <1>2 DEF M!Idle, M!LoopState, M!List
<1>4. DOMAIN rows = {} /\ Len(rows) = 0 /\ rows \in Seq(M!Row)
  BY <1>1
<1>5. M!TypeOK
  <2>1. loop \in [Loops -> M!LoopState] /\ "absent" \in M!Status
    BY <1>1, <1>3 DEF M!Status
  <2>2. saved \in BOOLEAN /\ status \in M!Status
    BY <1>1, <2>1
  <2>3. Len(rows) <= MaxRows
    BY <1>2, <1>4
  <2> QED
    BY <1>4, <2>1, <2>2, <2>3 DEF M!TypeOK
<1>6. ASSUME NEW l \in Loops PROVE Holds(l) /\ Ahead(l) /\ Answered(l) /\ ~Busy(l)
  <2>1. loop[l] = M!Idle /\ M!Length(loop[l].list) \in Nat
    BY <1>1, <1>3, Lengths
  <2> QED
    BY <1>4, <2>1 DEF Holds, Ahead, Answered, Busy, M!Idle
<1> QED
  BY <1>1, <1>4, <1>5, <1>6 DEF ConversationInv, Linked, Apart, M!ResultsFollow

\* Rows are added and stay as they are.
Grown ==
    /\ rows' \in Seq(M!Row)
    /\ Len(rows) <= Len(rows')
    /\ \A i \in DOMAIN rows : i \in DOMAIN rows' /\ rows'[i] = rows[i]

\* No stored message is lost then.
LEMMA SystemGrows == Grown => M!System \subseteq M!System'
BY DEF Grown, M!System

\* One row that is added is the last.
LEMMA RowAdded ==
    ASSUME M!TypeOK, NEW r \in M!Row, rows' = Append(rows, r), Len(rows) < MaxRows
    PROVE  /\ Grown
           /\ Len(rows') = Len(rows) + 1 /\ Len(rows') <= MaxRows
           /\ rows'[Len(rows) + 1] = r
           /\ DOMAIN rows' \ DOMAIN rows = {Len(rows) + 1}
           /\ Len(rows) + 1 \in DOMAIN rows' /\ Len(rows) + 1 \notin DOMAIN rows
<1>1. rows \in Seq(M!Row) /\ Len(rows) \in Nat /\ MaxRows \in Nat
  BY PartAssumptions DEF M!TypeOK, M!BoundsAssumption
<1>2. /\ rows' \in Seq(M!Row) /\ Len(rows') = Len(rows) + 1
      /\ \A i \in 1..Len(rows) : rows'[i] = rows[i]
      /\ rows'[Len(rows) + 1] = r
  BY <1>1
<1>3. DOMAIN rows = 1..Len(rows) /\ DOMAIN rows' = 1..(Len(rows) + 1)
  BY <1>1, <1>2
<1> QED
  BY <1>1, <1>2, <1>3 DEF Grown

\* A loop that does not move keeps its part of the invariant when others add rows.
LEMMA Bystander ==
    ASSUME ConversationInv, Grown, NEW k \in Loops, loop'[k] = loop[k],
           \A i \in DOMAIN rows' \ DOMAIN rows : Busy(k) => rows'[i].of # loop[k].answer
    PROVE  Holds(k)' /\ Ahead(k)' /\ Answered(k)'
<1>1. /\ Holds(k) /\ Ahead(k) /\ Answered(k) /\ rows \in Seq(M!Row) /\ rows' \in Seq(M!Row)
      /\ loop[k] \in M!LoopState
  BY DEF ConversationInv, M!TypeOK, Grown
<1>2. Holds(k)'
  <2>1. Len(rows) <= Len(rows') /\ Len(rows) \in Nat /\ Len(rows') \in Nat
        /\ loop[k].approval \in Nat
    BY <1>1 DEF Grown, M!LoopState
  <2>2. \A i \in 1..loop[k].approval : rows'[i] = rows[i]
    BY <1>1, <2>1 DEF Grown, Holds
  <2> QED
    BY <1>1, <2>1, <2>2, SystemGrows DEF Holds, M!Seen
<1>3. Ahead(k)'
  BY <1>1 DEF Ahead
<1>4. Answered(k)'
  BY <1>1 DEF Answered, Busy, Grown
<1> QED
  BY <1>2, <1>3, <1>4

\* A loop that does not run steps.
LEMMA Quiet ==
    ASSUME Grown, NEW l \in Loops, loop'[l] \in M!LoopState,
           loop'[l].pc \in {"idle", "resuming", "entering", "opening"},
           loop'[l].steps = 0,
           loop'[l].list.system \subseteq M!System,
           loop'[l].known => M!System # {},
           loop'[l].approval <= Len(rows')
    PROVE  Holds(l)' /\ Ahead(l)' /\ Answered(l)' /\ ~Busy(l)'
<1>1. M!Length(loop'[l].list) \in Nat
  BY Lengths DEF M!LoopState
<1> QED
  BY <1>1, SystemGrows DEF Holds, Ahead, Answered, Busy

\* A step of one loop keeps the invariant if it keeps the loop's part, and if the rows
\* it adds are results of its answer, one at a time, or ask for nothing.
LEMMA OneMoves ==
    ASSUME ConversationInv, Grown, NEW l \in Loops,
           loop' \in [Loops -> M!LoopState], \A k \in Loops \ {l} : loop'[k] = loop[k],
           Len(rows') <= MaxRows, status' \in M!Status, saved' \in BOOLEAN,
           saved' => M!System' # {},
           \A i \in DOMAIN rows' \ DOMAIN rows :
               \/ rows'[i].role # "tool" /\ rows'[i].of = 0
               \/ /\ rows'[i] = M!Stored("tool", M!Number(l), loop[l].answer)
                  /\ Busy(l) /\ i = Len(rows) + 1,
           Busy(l)' => \/ Busy(l) /\ loop'[l].answer = loop[l].answer
                       \/ loop'[l].answer \notin DOMAIN rows,
           Holds(l)', Ahead(l)', Answered(l)'
    PROVE  ConversationInv'
<1>0. /\ rows \in Seq(M!Row) /\ rows' \in Seq(M!Row) /\ Linked /\ M!ResultsFollow
      /\ DOMAIN rows = 1..Len(rows) /\ Len(rows) \in Nat
      /\ DOMAIN rows' = 1..Len(rows') /\ Len(rows') \in Nat
      /\ \A k \in Loops : Answered(k) /\ Ahead(k)
      /\ M!Length(loop[l].list) \in Nat
  <2>1. loop[l] \in M!LoopState
    BY DEF ConversationInv, M!TypeOK
  <2> QED
    BY <2>1, Lengths DEF ConversationInv, M!TypeOK, Grown, M!LoopState
<1>1. M!TypeOK'
  BY <1>0 DEF M!TypeOK
<1>2. ASSUME NEW i \in DOMAIN rows' \ DOMAIN rows, rows'[i].role = "tool"
      PROVE  /\ Busy(l) /\ i = Len(rows) + 1 /\ rows'[i].of = loop[l].answer
             /\ rows'[i].seq = M!Length(loop[l].list) + 1
             /\ loop[l].answer \in 1..Len(rows)
             /\ rows[loop[l].answer].seq = loop[l].steps
             /\ rows[loop[l].answer].role = "assistant"
  BY <1>0, <1>2 DEF M!Stored, M!Number, Answered
<1>3. Linked'
  <2>1. ASSUME NEW i \in DOMAIN rows
        PROVE  IF rows'[i].role = "tool" THEN rows'[i].of \in 1..(i - 1) ELSE rows'[i].of = 0
    BY <1>0, <2>1 DEF Grown, Linked
  <2>2. ASSUME NEW i \in DOMAIN rows' \ DOMAIN rows
        PROVE  IF rows'[i].role = "tool" THEN rows'[i].of \in 1..(i - 1) ELSE rows'[i].of = 0
    BY <1>0, <1>2, <2>2 DEF M!Stored
  <2> QED
    BY <2>1, <2>2 DEF Linked
<1>4. ASSUME NEW k \in Loops PROVE Holds(k)' /\ Ahead(k)' /\ Answered(k)'
  <2>1. CASE k # l
    <3>1. ASSUME NEW i \in DOMAIN rows' \ DOMAIN rows, Busy(k)
          PROVE  rows'[i].of # loop[k].answer
      <4>1. loop[k].answer \in 1..Len(rows)
        BY <1>0, <3>1 DEF Answered
      <4>2. Busy(l) => loop[l].answer # loop[k].answer
        BY <2>1, <3>1 DEF ConversationInv, Apart
      <4>3. \/ rows'[i].of = 0
            \/ rows'[i].of = loop[l].answer /\ Busy(l)
        BY <3>1 DEF M!Stored
      <4> QED
        BY <4>1, <4>2, <4>3
    <3> QED
      BY <2>1, <3>1, Bystander
  <2> QED
    BY <2>1
<1>5. Apart'
  <2>1. ASSUME NEW k \in Loops \ {l}, Busy(l)', Busy(k)'
        PROVE  loop'[l].answer # loop'[k].answer
    <3>1. Busy(k) /\ loop'[k] = loop[k] /\ loop[k].answer \in DOMAIN rows
      BY <1>0, <2>1 DEF Busy, Answered
    <3>2. CASE Busy(l) /\ loop'[l].answer = loop[l].answer
      BY <3>1, <3>2 DEF ConversationInv, Apart
    <3>3. CASE loop'[l].answer \notin DOMAIN rows
      BY <3>1, <3>3
    <3> QED
      BY <2>1, <3>2, <3>3
  <2>2. ASSUME NEW k \in Loops \ {l}, NEW m \in Loops \ {l}, k # m, Busy(k)', Busy(m)'
        PROVE  loop'[k].answer # loop'[m].answer
    BY <2>2 DEF ConversationInv, Apart, Busy
  <2>3. SUFFICES ASSUME NEW k \in Loops, NEW m \in Loops, k # m, Busy(k)', Busy(m)'
                 PROVE  loop'[k].answer # loop'[m].answer
    BY DEF Apart, Busy
  <2> QED
    BY <2>1, <2>2, <2>3
<1>6. M!ResultsFollow'
  <2>1. SUFFICES ASSUME NEW i \in DOMAIN rows', rows'[i].role = "tool"
                 PROVE  /\ rows'[rows'[i].of].seq < M!Kept + 3 =>
                               rows'[rows'[i].of].seq < rows'[i].seq
                        /\ \A j \in 1..(i - 1) : rows'[j].of = rows'[i].of =>
                               rows'[j].seq < rows'[i].seq
    BY DEF M!ResultsFollow
  <2>2. CASE i \in DOMAIN rows
    <3>1. rows'[i] = rows[i] /\ rows[i].of \in 1..(i - 1)
      BY <1>0, <2>1, <2>2 DEF Grown, Linked
    <3>2. \A j \in 1..(i - 1) : j \in DOMAIN rows /\ rows'[j] = rows[j]
      BY <1>0, <2>2 DEF Grown
    <3> QED
      BY <1>0, <2>1, <2>2, <3>1, <3>2 DEF M!ResultsFollow
  <2>3. CASE i \notin DOMAIN rows
    <3> DEFINE a == loop[l].answer
               n == M!Length(loop[l].list)
    <3>1. /\ Busy(l) /\ i = Len(rows) + 1 /\ rows'[i].of = a /\ rows'[i].seq = n + 1
          /\ a \in DOMAIN rows /\ rows'[a].seq = loop[l].steps
      BY <1>0, <1>2, <2>1, <2>3 DEF Grown
    <3>2. loop[l].steps < M!Kept + 3 => n >= loop[l].steps
      BY <1>0, <3>1 DEF Ahead, Busy
    <3>3. \A j \in 1..(i - 1) : rows'[j] = rows[j] /\ (rows[j].of = a => rows[j].seq <= n)
      BY <1>0, <3>1 DEF Grown, Answered
    <3>4. loop[l].steps \in Nat /\ n \in Nat /\ \A j \in 1..(i - 1) : rows[j].seq \in Nat
      <4>1. loop[l] \in M!LoopState /\ MaxSteps \in Nat
        BY PartAssumptions DEF ConversationInv, M!TypeOK, M!BoundsAssumption
      <4>2. \A j \in 1..Len(rows) : rows[j] \in M!Row
        BY <1>0
      <4>3. \A j \in 1..(i - 1) : rows[j].seq \in Nat
        BY <1>0, <3>1, <4>2 DEF M!Row
      <4> QED
        BY <1>0, <4>1, <4>3 DEF M!LoopState
    <3> HIDE DEF a, n
    <3>5. \A j \in 1..(i - 1) : rows'[j].of = a => rows'[j].seq < rows'[i].seq
      BY <3>1, <3>3, <3>4
    <3>6. rows'[a].seq < M!Kept + 3 => rows'[a].seq < rows'[i].seq
      BY <3>1, <3>2, <3>4
    <3> QED
      BY <3>1, <3>5, <3>6
  <2> QED
    BY <2>2, <2>3
<1> QED
  BY <1>1, <1>3, <1>4, <1>5, <1>6 DEF ConversationInv

\* A loop's new state is the only one.
LEMMA OneLoop ==
    ASSUME M!TypeOK, NEW l \in Loops, NEW x \in M!LoopState, loop' = [loop EXCEPT ![l] = x]
    PROVE  /\ loop' \in [Loops -> M!LoopState] /\ loop'[l] = x
           /\ \A k \in Loops \ {l} : loop'[k] = loop[k]
BY DEF M!TypeOK

\* A step without a new row.
LEMMA NoRow ==
    ASSUME M!TypeOK, UNCHANGED rows
    PROVE  Grown /\ DOMAIN rows' \ DOMAIN rows = {} /\ Len(rows') <= MaxRows
BY DEF M!TypeOK, Grown

\* A step with a new system message.
LEMMA SystemRow ==
    ASSUME M!TypeOK, NEW n \in Nat, rows' = Append(rows, M!Stored("system", n, 0)),
           Len(rows) < MaxRows
    PROVE  /\ Grown /\ Len(rows') = Len(rows) + 1 /\ Len(rows') <= MaxRows
           /\ \A i \in DOMAIN rows' \ DOMAIN rows : rows'[i].role # "tool" /\ rows'[i].of = 0
           /\ Len(rows) + 1 \in M!System'
<1>1. M!Stored("system", n, 0) \in M!Row
  BY DEF M!Stored, M!Row
<1>2. /\ Grown /\ Len(rows') = Len(rows) + 1 /\ Len(rows') <= MaxRows
      /\ rows'[Len(rows) + 1] = M!Stored("system", n, 0)
      /\ DOMAIN rows' \ DOMAIN rows = {Len(rows) + 1}
      /\ Len(rows) + 1 \in DOMAIN rows'
  BY <1>1, RowAdded
<1>3. /\ M!Stored("system", n, 0).role = "system" /\ M!Stored("system", n, 0).of = 0
  BY DEF M!Stored
<1> QED
  BY <1>2, <1>3 DEF M!System

\* The steps of a loop that does not run steps afterwards.
LEMMA QuietMoves ==
    ASSUME ConversationInv, NEW l \in Loops, NEW x \in M!LoopState,
           loop' = [loop EXCEPT ![l] = x],
           x.pc \in {"idle", "resuming", "entering", "opening"}, x.steps = 0,
           x.list.system \subseteq M!System, x.known => M!System # {},
           x.approval <= Len(rows'),
           \/ UNCHANGED rows
           \/ Len(rows) < MaxRows /\ \E n \in Nat : rows' = Append(rows, M!Stored("system", n, 0)),
           status' \in M!Status, saved' = saved
    PROVE  ConversationInv'
<1>1. M!TypeOK /\ (saved => M!System # {}) /\ saved \in BOOLEAN
  BY DEF ConversationInv, M!TypeOK
<1>2. /\ loop' \in [Loops -> M!LoopState] /\ loop'[l] = x
      /\ \A k \in Loops \ {l} : loop'[k] = loop[k]
  BY <1>1, OneLoop
<1>3. /\ Grown /\ Len(rows') <= MaxRows
      /\ \A i \in DOMAIN rows' \ DOMAIN rows : rows'[i].role # "tool" /\ rows'[i].of = 0
  <2>1. CASE UNCHANGED rows
    BY <1>1, <2>1, NoRow
  <2>2. CASE Len(rows) < MaxRows /\ \E n \in Nat : rows' = Append(rows, M!Stored("system", n, 0))
    BY <1>1, <2>2, SystemRow
  <2> QED
    BY <2>1, <2>2
<1>4. Holds(l)' /\ Ahead(l)' /\ Answered(l)' /\ ~Busy(l)'
  BY <1>2, <1>3, Quiet
<1>5. saved' \in BOOLEAN /\ (saved' => M!System' # {})
  BY <1>1, <1>3, SystemGrows
<1> QED
  BY <1>2, <1>3, <1>4, <1>5, OneMoves

\* Every step of Conversation keeps ConversationInv.
LEMMA ConversationNext == ConversationInv /\ [M!Next]_(M!vars) => ConversationInv'
<1> SUFFICES ASSUME ConversationInv, [M!Next]_(M!vars) PROVE ConversationInv'
  OBVIOUS
<1>0. /\ M!TypeOK /\ (saved => M!System # {}) /\ saved \in BOOLEAN /\ status \in M!Status
      /\ rows \in Seq(M!Row) /\ Len(rows) \in Nat /\ DOMAIN rows = 1..Len(rows)
      /\ Len(rows) <= MaxRows
      /\ {"absent", "running", "resumable", "over"} = M!Status
      /\ MaxRows \in Nat /\ MaxSteps \in Nat /\ MaxBatch \in Nat
      /\ \A l \in Loops : /\ loop[l] \in M!LoopState /\ loop[l].list \in M!List
                          /\ loop[l].approval \in 0..MaxRows /\ loop[l].steps \in 0..MaxSteps
                          /\ Holds(l) /\ Ahead(l) /\ Answered(l)
      /\ M!Idle \in M!LoopState /\ M!Idle.list.system = {} /\ M!Idle.known = FALSE
      /\ M!Idle.steps = 0 /\ M!Idle.approval = 0 /\ M!Idle.pc = "idle"
  <2>1. M!TypeOK /\ rows \in Seq(M!Row) /\ \A l \in Loops : loop[l] \in M!LoopState
    BY DEF ConversationInv, M!TypeOK
  <2>2. MaxRows \in Nat /\ MaxSteps \in Nat /\ MaxBatch \in Nat
    BY PartAssumptions DEF M!BoundsAssumption
  <2>3. M!Idle \in M!LoopState
    BY <2>2 DEF M!Idle, M!LoopState, M!List
  <2>4. \A l \in Loops : /\ loop[l].list \in M!List /\ loop[l].approval \in 0..MaxRows
                          /\ loop[l].steps \in 0..MaxSteps
    BY <2>1 DEF M!LoopState
  <2>5. M!Idle.list.system = {} /\ M!Idle.known = FALSE
      /\ M!Idle.steps = 0 /\ M!Idle.approval = 0 /\ M!Idle.pc = "idle"
    BY DEF M!Idle
  <2> QED
    BY <2>1, <2>2, <2>3, <2>4, <2>5 DEF ConversationInv, M!TypeOK, M!Status
<1>1. ASSUME NEW l \in Loops, M!Start(l) PROVE ConversationInv'
  <2> DEFINE x == [M!Idle EXCEPT !.pc = "opening"]
  <2>1. x \in M!LoopState /\ x.pc = "opening" /\ x.steps = 0 /\ x.list.system = {} /\ ~x.known
        /\ x.approval = 0
    BY <1>0 DEF M!LoopState
  <2>2. loop' = [loop EXCEPT ![l] = x] /\ UNCHANGED rows /\ saved' = saved /\ status' \in M!Status
    BY <1>0, <1>1 DEF M!Start
  <2> HIDE DEF x
  <2>3. x.list.system \subseteq M!System /\ x.approval <= Len(rows')
    BY <1>0, <2>1, <2>2
  <2> QED
    BY <1>0, <2>1, <2>2, <2>3, QuietMoves
<1>2. ASSUME NEW l \in Loops, M!ResumeRead(l) PROVE ConversationInv'
  <2>1. PICK n \in M!Highest :
            loop' = [loop EXCEPT ![l] = [M!Idle EXCEPT !.pc = "resuming", !.next = n + 1]]
    BY <1>2 DEF M!ResumeRead
  <2>2. n \in Nat /\ n + 1 \in Nat
    <3>1. \A i \in DOMAIN rows : rows[i] \in M!Row
      BY <1>0
    <3>2. \A i \in DOMAIN rows : rows[i].seq \in Nat
      BY <3>1 DEF M!Row
    <3> QED
      BY <3>2 DEF M!Highest
  <2> DEFINE x == [M!Idle EXCEPT !.pc = "resuming", !.next = n + 1]
  <2>3. x \in M!LoopState /\ x.pc = "resuming" /\ x.steps = 0 /\ x.list.system = {} /\ ~x.known
        /\ x.approval = 0
    BY <1>0, <2>2 DEF M!LoopState
  <2>4. loop' = [loop EXCEPT ![l] = x] /\ UNCHANGED rows /\ saved' = saved /\ status' \in M!Status
    BY <1>0, <1>2, <2>1 DEF M!ResumeRead
  <2> HIDE DEF x
  <2>5. x.list.system \subseteq M!System /\ x.approval <= Len(rows')
    BY <1>0, <2>3, <2>4
  <2> QED
    BY <1>0, <2>3, <2>4, <2>5, QuietMoves
<1>3. ASSUME NEW l \in Loops, M!ResumeCommit(l) PROVE ConversationInv'
  <2> DEFINE x == [loop[l] EXCEPT !.pc = "entering", !.next = 0, !.approval = Len(rows) + 1]
  <2>1. /\ Len(rows) < MaxRows /\ loop[l].pc = "resuming"
        /\ rows' = Append(rows, M!Stored("system", loop[l].next, 0))
        /\ loop' = [loop EXCEPT ![l] = x]
        /\ saved' = saved /\ status' \in M!Status
    BY <1>0, <1>3 DEF M!ResumeCommit, M!TypeOK
  <2>2. /\ x \in M!LoopState /\ x.pc = "entering" /\ x.steps = loop[l].steps
        /\ x.list = loop[l].list /\ x.known = loop[l].known /\ x.approval = Len(rows) + 1
        /\ loop[l].next \in Nat
    <3>1. Len(rows) + 1 \in 0..MaxRows
      BY <1>0, <2>1
    <3> QED
      BY <1>0, <3>1 DEF M!LoopState
  <2>3. Len(rows') = Len(rows) + 1
    BY <1>0, <2>1, <2>2, SystemRow
  <2> HIDE DEF x
  <2>4. x.steps = 0 /\ x.list.system \subseteq M!System /\ (x.known => M!System # {})
    BY <1>0, <2>1, <2>2 DEF Ahead, Holds
  <2>5. x.approval <= Len(rows') /\ Len(rows') <= MaxRows
    BY <1>0, <2>1, <2>2, <2>3
  <2>6. Len(rows) < MaxRows /\ \E n \in Nat : rows' = Append(rows, M!Stored("system", n, 0))
    BY <2>1, <2>2
  <2> QED
    BY <2>1, <2>2, <2>4, <2>5, <2>6, QuietMoves
<1>4. ASSUME NEW l \in Loops, M!Converse(l) PROVE ConversationInv'
  <2> DEFINE x == [M!Idle EXCEPT !.pc = "entering"]
  <2>1. x \in M!LoopState /\ x.pc = "entering" /\ x.steps = 0 /\ x.list.system = {} /\ ~x.known
        /\ x.approval = 0
    BY <1>0 DEF M!LoopState
  <2>2. loop' = [loop EXCEPT ![l] = x] /\ UNCHANGED rows /\ saved' = saved /\ status' \in M!Status
    BY <1>0, <1>4 DEF M!Converse
  <2> HIDE DEF x
  <2>3. x.list.system \subseteq M!System /\ x.approval <= Len(rows')
    BY <1>0, <2>1, <2>2
  <2> QED
    BY <1>0, <2>1, <2>2, <2>3, QuietMoves
<1>5. ASSUME NEW l \in Loops, M!Enter(l) PROVE ConversationInv'
  <2> DEFINE x == [loop[l] EXCEPT !.pc = "opening", !.known = saved]
  <2>1. /\ loop[l].pc = "entering" /\ loop' = [loop EXCEPT ![l] = x] /\ UNCHANGED rows
        /\ saved' = saved /\ status' \in M!Status
    BY <1>0, <1>5 DEF M!Enter, M!TypeOK
  <2>2. /\ x \in M!LoopState /\ x.pc = "opening" /\ x.steps = loop[l].steps
        /\ x.list = loop[l].list /\ x.known = saved /\ x.approval = loop[l].approval
    BY <1>0 DEF M!LoopState
  <2> HIDE DEF x
  <2>3. x.steps = 0 /\ x.list.system \subseteq M!System /\ (x.known => M!System # {})
        /\ x.approval <= Len(rows')
    BY <1>0, <2>1, <2>2 DEF Ahead, Holds
  <2> QED
    BY <1>0, <2>1, <2>2, <2>3, QuietMoves
\* A loop that ends.
<1>a. ASSUME NEW l \in Loops, loop' = [loop EXCEPT ![l] = M!Idle],
             \/ UNCHANGED rows
             \/ Len(rows) < MaxRows /\ rows' = Append(rows, M!Stored("system", M!Number(l), 0)),
             status' \in M!Status, saved' = saved
      PROVE  ConversationInv'
  <2>1. M!Number(l) \in Nat
    BY <1>0, Lengths DEF M!Number
  <2>2. M!Idle.approval <= Len(rows')
    BY <1>0, <1>a, <2>1, SystemRow
  <2>3. \/ UNCHANGED rows
        \/ Len(rows) < MaxRows /\ \E n \in Nat : rows' = Append(rows, M!Stored("system", n, 0))
    BY <1>a, <2>1
  <2>4. M!Idle.list.system \subseteq M!System /\ (M!Idle.known => M!System # {})
    BY <1>0
  <2> QED
    BY <1>0, <1>a, <2>2, <2>3, <2>4, QuietMoves
<1>6. ASSUME NEW l \in Loops, M!Trip(l) PROVE ConversationInv'
  BY <1>0, <1>6, <1>a DEF M!Trip
<1>7. ASSUME NEW l \in Loops, M!Finish(l) PROVE ConversationInv'
  BY <1>0, <1>7, <1>a DEF M!Finish
<1>8. ASSUME NEW l \in Loops, M!Dies(l) PROVE ConversationInv'
  BY <1>0, <1>8, <1>a DEF M!Dies
<1>9. ASSUME NEW l \in Loops, M!Open(l) PROVE ConversationInv'
  <2> DEFINE one == M!Stored("system", 0, 0)
             two == M!Stored("user", 1, 0)
             list == [system |-> {Len(rows) + 1}, summaries |-> 0, talk |-> 1]
             x == [loop[l] EXCEPT !.pc = "top", !.list = list]
  <2>1. /\ loop[l].pc = "opening" /\ ~loop[l].known /\ Len(rows) + 2 <= MaxRows
        /\ rows' = rows \o <<one, two>>
        /\ loop' = [loop EXCEPT ![l] = x] /\ saved' = saved /\ status' = status
    BY <1>0, <1>9 DEF M!Open, M!TypeOK
  <2>2. list \in M!List /\ list.system = {Len(rows) + 1}
    BY <1>0, <2>1 DEF M!List
  <2>3. /\ x \in M!LoopState /\ x.pc = "top" /\ x.steps = loop[l].steps /\ x.list = list
        /\ ~x.known /\ x.approval = loop[l].approval
    BY <1>0, <2>1, <2>2 DEF M!LoopState
  <2>4. /\ one \in M!Row /\ two \in M!Row /\ one.role = "system" /\ two.role = "user"
        /\ one.of = 0 /\ two.of = 0
    BY DEF M!Stored, M!Row
  <2> HIDE DEF x, list, one, two
  <2>5. /\ rows' \in Seq(M!Row) /\ Len(rows') = Len(rows) + 2
        /\ \A i \in 1..Len(rows) : rows'[i] = rows[i]
        /\ rows'[Len(rows) + 1] = one /\ rows'[Len(rows) + 2] = two
    <3>1. <<one, two>> \in Seq(M!Row) /\ Len(<<one, two>>) = 2
          /\ <<one, two>>[1] = one /\ <<one, two>>[2] = two
      BY <2>4
    <3> QED
      BY <1>0, <2>1, <3>1, ConcatProperties
  <2>6. Grown /\ DOMAIN rows' = 1..(Len(rows) + 2)
    BY <1>0, <2>5 DEF Grown
  <2>7. \A i \in DOMAIN rows' \ DOMAIN rows : rows'[i].role # "tool" /\ rows'[i].of = 0
    <3>1. \A i \in DOMAIN rows' \ DOMAIN rows : i = Len(rows) + 1 \/ i = Len(rows) + 2
      BY <1>0, <2>6
    <3> QED
      BY <2>4, <2>5, <3>1
  <2>8. /\ loop' \in [Loops -> M!LoopState] /\ loop'[l] = x
        /\ \A k \in Loops \ {l} : loop'[k] = loop[k]
    BY <1>0, <2>1, <2>3, OneLoop
  <2>9. Len(rows) + 1 \in M!System'
    <3>1. Len(rows) + 1 \in DOMAIN rows'
      BY <1>0, <2>6
    <3> QED
      BY <2>4, <2>5, <3>1 DEF M!System
  <2>10. Holds(l)'
    <3>1. loop[l].approval <= Len(rows)
      BY <1>0 DEF Holds
    <3>2. loop[l].approval <= Len(rows')
      BY <1>0, <2>5, <3>1
    <3> QED
      BY <2>2, <2>3, <2>8, <2>9, <3>2 DEF Holds
  <2>11. Ahead(l)' /\ Answered(l)' /\ ~Busy(l)'
    <3>1. loop[l].steps = 0 /\ M!Length(list) \in Nat
      BY <1>0, <2>1, <2>2, Lengths DEF Ahead
    <3> QED
      BY <2>3, <2>8, <3>1 DEF Ahead, Answered, Busy
  <2>12. saved' \in BOOLEAN /\ (saved' => M!System' # {}) /\ status' \in M!Status
    BY <1>0, <2>1, <2>6, SystemGrows
  <2>13. Len(rows') <= MaxRows
    BY <1>0, <2>1, <2>5
  <2> QED
    BY <2>6, <2>7, <2>8, <2>10, <2>11, <2>12, <2>13, OneMoves
\* A step without a new row.
<1>b. ASSUME NEW l \in Loops, NEW x \in M!LoopState, loop' = [loop EXCEPT ![l] = x],
             UNCHANGED <<rows, status>>, saved' \in BOOLEAN, saved' => M!System # {},
             x.known = loop[l].known, x.approval = loop[l].approval,
             x.list.system \subseteq M!System, x.pc \in {"top", "llm"},
             x.list.system # {} /\ (x.known => \A i \in 1..x.approval :
                                        rows[i].role = "system" => i \in x.list.system),
             x.steps < M!Kept + 3 =>
                 IF x.pc = "llm" THEN M!Length(x.list) + 1 >= x.steps
                                 ELSE M!Length(x.list) >= x.steps
      PROVE  ConversationInv'
  <2>1. /\ loop' \in [Loops -> M!LoopState] /\ loop'[l] = x
        /\ \A k \in Loops \ {l} : loop'[k] = loop[k]
    BY <1>0, <1>b, OneLoop
  <2>2. Grown /\ DOMAIN rows' \ DOMAIN rows = {} /\ Len(rows') <= MaxRows
    BY <1>0, <1>b, NoRow
  <2>3. M!System' = M!System /\ rows' = rows
    BY <1>b DEF M!System
  <2>4. Holds(l)'
    <3>1. loop[l].approval <= Len(rows) /\ (loop[l].known => M!System # {})
      BY <1>0 DEF Holds
    <3> QED
      BY <1>b, <2>1, <2>3, <3>1 DEF Holds, M!Seen
  <2>5. Ahead(l)' /\ Answered(l)' /\ ~Busy(l)'
    BY <1>b, <2>1 DEF Ahead, Answered, Busy
  <2>6. saved' => M!System' # {}
    BY <1>b, <2>3
  <2> QED
    BY <1>0, <1>b, <2>1, <2>2, <2>4, <2>5, <2>6, OneMoves
<1>10. ASSUME NEW l \in Loops, M!Reload(l) PROVE ConversationInv'
  <2> DEFINE x == [loop[l] EXCEPT !.pc = "top", !.list = M!Reading]
  <2>1. /\ loop[l].pc = "opening" /\ loop[l].known /\ loop' = [loop EXCEPT ![l] = x]
        /\ UNCHANGED <<rows, status>> /\ saved' = saved
    BY <1>0, <1>10 DEF M!Reload, M!TypeOK
  <2>2. M!Reading \in M!List /\ M!Reading.system = M!System
    <3>1. M!System \in SUBSET (1..MaxRows)
      BY <1>0 DEF M!System
    <3>2. IsFiniteSet(DOMAIN rows) /\ DOMAIN rows \ M!System \in SUBSET DOMAIN rows
      BY <1>0, FS_Interval
    <3>3. IsFiniteSet(DOMAIN rows \ M!System)
      BY <3>2, FS_Subset
    <3>4. Cardinality(DOMAIN rows \ M!System) \in Nat
      BY <3>3, FS_CardinalityType
    <3>5. M!Cardinality(DOMAIN rows \ M!System) \in Nat
      BY <3>4, Sizes
    <3> QED
      BY <3>1, <3>5 DEF M!Reading, M!List
  <2>3. /\ x \in M!LoopState /\ x.pc = "top" /\ x.steps = loop[l].steps
        /\ x.list = M!Reading /\ x.known = loop[l].known /\ x.approval = loop[l].approval
    BY <1>0, <2>2 DEF M!LoopState
  <2> HIDE DEF x
  <2>4. x.steps = 0 /\ M!Length(x.list) \in Nat /\ M!System # {}
        /\ loop[l].approval <= Len(rows)
    BY <1>0, <2>1, <2>2, <2>3, Lengths DEF Ahead, Holds
  <2>5. \A i \in 1..x.approval : rows[i].role = "system" => i \in x.list.system
    BY <1>0, <2>2, <2>3, <2>4 DEF M!System
  <2>6. x.steps < M!Kept + 3 => M!Length(x.list) >= x.steps
    BY <2>4
  <2>7. x.list.system # {} /\ x.list.system \subseteq M!System
    BY <2>2, <2>3, <2>4
  <2> QED
    BY <1>0, <1>b, <2>1, <2>3, <2>5, <2>6, <2>7
<1>11. ASSUME NEW l \in Loops, M!NextStep(l) PROVE ConversationInv'
  <2> DEFINE list == M!Summarized(M!Trimmed(loop[l].list))
             x == [loop[l] EXCEPT !.pc = "llm", !.steps = loop[l].steps + 1, !.list = list]
  <2>1. /\ loop[l].pc = "top" /\ loop[l].steps < MaxSteps /\ loop' = [loop EXCEPT ![l] = x]
        /\ UNCHANGED <<rows, status>>
        /\ saved' = (saved \/ (loop[l].steps + 1) % Every = 0)
    BY <1>0, <1>11 DEF M!NextStep, M!More, M!TypeOK
  <2>2. /\ list \in M!List /\ list.system = loop[l].list.system
        /\ list.system # {} => \/ M!Length(list) >= M!Length(loop[l].list)
                               \/ M!Length(list) > M!Kept
        /\ M!Kept \in Nat
    BY <1>0, Cut
  <2> HIDE DEF list
  <2>3. /\ x \in M!LoopState /\ x.pc = "llm" /\ x.steps = loop[l].steps + 1
        /\ x.list = list /\ x.known = loop[l].known /\ x.approval = loop[l].approval
    <3>1. loop[l].steps + 1 \in 0..MaxSteps
      BY <1>0, <2>1
    <3> QED
      BY <1>0, <2>2, <3>1 DEF M!LoopState
  <2> HIDE DEF x
  <2>4. /\ loop[l].list.system # {} /\ loop[l].list.system \subseteq M!System
        /\ loop[l].known => M!Seen(l)
        /\ loop[l].steps < M!Kept + 3 => M!Length(loop[l].list) >= loop[l].steps
    BY <1>0, <2>1 DEF Holds, Ahead
  <2>5. loop[l].steps \in Nat /\ M!Length(list) \in Nat /\ M!Length(loop[l].list) \in Nat
    BY <1>0, <2>2, Lengths
  <2>6. x.steps < M!Kept + 3 => M!Length(x.list) + 1 >= x.steps
    BY <2>2, <2>3, <2>4, <2>5
  <2>7. saved' \in BOOLEAN /\ (saved' => M!System # {})
    BY <2>1, <2>4
  <2> QED
    BY <1>b, <2>1, <2>2, <2>3, <2>4, <2>6, <2>7 DEF M!Seen
\* A step that adds one row while an answer's calls are run, or starts that.
<1>c. ASSUME NEW l \in Loops, NEW x \in M!LoopState, loop' = [loop EXCEPT ![l] = x],
             NEW r \in M!Row, rows' = Append(rows, r), Len(rows) < MaxRows,
             status' \in M!Status, saved' = saved,
             x.known = loop[l].known, x.approval = loop[l].approval, x.steps = loop[l].steps,
             x.pc \in {"tools", "gated"}, loop[l].pc \in {"llm", "tools", "gated"},
             loop[l].list.system \subseteq x.list.system, x.list.system \subseteq M!System',
             x.steps < M!Kept + 3 => M!Length(x.list) >= x.steps,
             \/ r.role # "tool" /\ r.of = 0
             \/ r = M!Stored("tool", M!Number(l), loop[l].answer) /\ Busy(l),
             \/ Busy(l) /\ x.answer = loop[l].answer
             \/ x.answer = Len(rows) + 1,
             Answered(l)'
      PROVE  ConversationInv'
  <2>1. /\ loop' \in [Loops -> M!LoopState] /\ loop'[l] = x
        /\ \A k \in Loops \ {l} : loop'[k] = loop[k]
    BY <1>0, <1>c, OneLoop
  <2>2. /\ Grown /\ Len(rows') = Len(rows) + 1 /\ Len(rows') <= MaxRows
        /\ rows'[Len(rows) + 1] = r
        /\ DOMAIN rows' \ DOMAIN rows = {Len(rows) + 1}
        /\ Len(rows) + 1 \notin DOMAIN rows
    BY <1>0, <1>c, RowAdded
  <2>3. \A i \in DOMAIN rows' \ DOMAIN rows :
            \/ rows'[i].role # "tool" /\ rows'[i].of = 0
            \/ /\ rows'[i] = M!Stored("tool", M!Number(l), loop[l].answer)
               /\ Busy(l) /\ i = Len(rows) + 1
    BY <1>c, <2>2
  <2>4. Busy(l)' => \/ Busy(l) /\ loop'[l].answer = loop[l].answer
                    \/ loop'[l].answer \notin DOMAIN rows
    BY <1>c, <2>1, <2>2
  <2>5. M!System \subseteq M!System'
    BY <2>2, SystemGrows
  <2>6. Holds(l)'
    <3>1. /\ loop[l].known => M!System # {}
          /\ loop[l].approval <= Len(rows) /\ loop[l].list.system # {}
          /\ loop[l].known => M!Seen(l)
      BY <1>0, <1>c DEF Holds
    <3>2. x.approval <= Len(rows')
      BY <1>0, <1>c, <2>2, <3>1
    <3>3. \A i \in 1..x.approval : rows'[i] = rows[i]
      BY <1>0, <1>c, <2>2, <3>1 DEF Grown
    <3>4. loop'[l].known => M!Seen(l)'
      BY <1>c, <2>1, <3>1, <3>3 DEF M!Seen
    <3> QED
      BY <1>c, <2>1, <2>5, <3>1, <3>2, <3>4 DEF Holds
  <2>7. Ahead(l)'
    BY <1>c, <2>1 DEF Ahead
  <2>8. saved' \in BOOLEAN /\ (saved' => M!System' # {})
    BY <1>0, <1>c, <2>5
  <2> QED
    BY <1>c, <2>1, <2>2, <2>3, <2>4, <2>6, <2>7, <2>8, OneMoves
\* What the list is after one more message.
<1>d. ASSUME NEW l \in Loops, NEW list \in M!List,
             \/ list = [loop[l].list EXCEPT !.talk = loop[l].list.talk + 1]
             \/ \E i : list = [loop[l].list EXCEPT !.system = loop[l].list.system \cup {i}]
      PROVE  /\ loop[l].list.system \subseteq list.system
             /\ M!Length(list) >= M!Length(loop[l].list)
             /\ M!Length(list) \in Nat /\ M!Length(loop[l].list) \in Nat
             /\ list = [loop[l].list EXCEPT !.talk = loop[l].list.talk + 1] =>
                    /\ list.system = loop[l].list.system
                    /\ M!Length(list) = M!Length(loop[l].list) + 1
  <2> DEFINE old == loop[l].list
  <2>1. /\ old \in M!List /\ old.summaries \in Nat /\ old.talk \in Nat
        /\ IsFiniteSet(old.system) /\ Cardinality(old.system) \in Nat
        /\ M!Length(old) = Cardinality(old.system) + old.summaries + old.talk
        /\ M!Length(list) = Cardinality(list.system) + list.summaries + list.talk
        /\ M!Length(old) \in Nat /\ M!Length(list) \in Nat
    <3>1. old \in M!List
      BY <1>0
    <3> QED
      BY <3>1, Lengths DEF M!List
  <2> HIDE DEF old
  <2>2. ASSUME list = [old EXCEPT !.talk = old.talk + 1]
        PROVE  list.system = old.system /\ M!Length(list) = M!Length(old) + 1
    <3>1. list.system = old.system /\ list.summaries = old.summaries /\ list.talk = old.talk + 1
      BY <2>1, <2>2 DEF M!List
    <3> QED
      BY <2>1, <3>1
  <2>3. ASSUME NEW i, list = [old EXCEPT !.system = old.system \cup {i}]
        PROVE  old.system \subseteq list.system /\ M!Length(list) >= M!Length(old)
    <3>1. /\ list.system = old.system \cup {i} /\ list.summaries = old.summaries
          /\ list.talk = old.talk
      BY <2>1, <2>3 DEF M!List
    <3>2. Cardinality(list.system) >= Cardinality(old.system)
      <4>1. IsFiniteSet(old.system)
        BY <2>1
      <4>2. Cardinality(old.system \cup {i}) = IF i \in old.system THEN Cardinality(old.system)
                                               ELSE Cardinality(old.system) + 1
        BY ONLY <4>1, FS_AddElement
      <4> QED
        BY <2>1, <3>1, <4>2
    <3>3. Cardinality(list.system) \in Nat
      BY Lengths
    <3> QED
      BY <2>1, <3>1, <3>2, <3>3
  <2>4. M!Length(old) + 1 >= M!Length(old) /\ M!Length(old) >= M!Length(old)
    BY <2>1
  <2>5. \/ list = [old EXCEPT !.talk = old.talk + 1]
        \/ \E i : list = [old EXCEPT !.system = old.system \cup {i}]
    BY <1>d DEF old
  <2> QED
    BY <2>1, <2>2, <2>3, <2>4, <2>5 DEF old
<1>12. ASSUME NEW l \in Loops, M!Answer(l) PROVE ConversationInv'
  <2>1. PICK n \in 1..MaxBatch :
            loop' = [loop EXCEPT ![l].pc = "tools", ![l].asked = n,
                                 ![l].answer = Len(rows) + 1, ![l].list.talk = @ + 1]
    BY <1>12 DEF M!Answer
  <2> DEFINE list == [loop[l].list EXCEPT !.talk = loop[l].list.talk + 1]
             x == [loop[l] EXCEPT !.pc = "tools", !.asked = n, !.answer = Len(rows) + 1,
                                  !.list = list]
             r == M!Stored("assistant", loop[l].steps, 0)
  <2>2. /\ loop[l].pc = "llm" /\ Len(rows) < MaxRows /\ rows' = Append(rows, r)
        /\ status' \in M!Status /\ saved' = saved
        /\ loop' = [loop EXCEPT ![l] = x]
    <3>1. loop' = [loop EXCEPT ![l] = x]
      BY <1>0, <2>1 DEF M!TypeOK, M!LoopState
    <3>2. status' = status
      BY <1>12 DEF M!Answer
    <3> QED
      BY <1>0, <1>12, <3>1, <3>2 DEF M!Answer
  <2>3. list \in M!List
    BY <1>0 DEF M!List
  <2>4. /\ M!Length(list) = M!Length(loop[l].list) + 1 /\ M!Length(loop[l].list) \in Nat
        /\ list.system = loop[l].list.system
    BY <2>3, <1>d
  <2> HIDE DEF list
  <2>5. /\ x \in M!LoopState /\ x.pc = "tools" /\ x.steps = loop[l].steps
        /\ x.list = list /\ x.known = loop[l].known /\ x.approval = loop[l].approval
        /\ x.answer = Len(rows) + 1
    <3>1. Len(rows) + 1 \in 0..MaxRows /\ n \in 0..MaxBatch
      BY <1>0, <2>2
    <3> QED
      BY <1>0, <2>3, <3>1 DEF M!LoopState
  <2>6. /\ r \in M!Row /\ r.role = "assistant" /\ r.of = 0 /\ r.seq = loop[l].steps
    BY <1>0 DEF M!Stored, M!Row
  <2> HIDE DEF x, r
  <2>7. /\ Grown /\ rows'[Len(rows) + 1] = r /\ Len(rows) + 1 \in DOMAIN rows'
        /\ DOMAIN rows' \ DOMAIN rows = {Len(rows) + 1}
    BY <1>0, <2>2, <2>6, RowAdded
  <2>8. loop'[l] = x
    BY <1>0, <2>2, <2>5, OneLoop
  <2>9. Answered(l)'
    <3>1. \A i \in DOMAIN rows : rows[i].of # Len(rows) + 1
      BY <1>0 DEF ConversationInv, Linked
    <3>2. \A i \in DOMAIN rows' : rows'[i].of # Len(rows) + 1
      BY <1>0, <2>6, <2>7, <3>1 DEF Grown
    <3> QED
      BY <2>5, <2>6, <2>7, <2>8, <3>2 DEF Answered
  <2>10. x.steps < M!Kept + 3 => M!Length(x.list) >= x.steps
    BY <1>0, <2>2, <2>4, <2>5 DEF Ahead
  <2>11. x.list.system \subseteq M!System' /\ loop[l].list.system \subseteq x.list.system
    BY <1>0, <2>4, <2>5, <2>7, SystemGrows DEF Holds
  <2> QED
    BY <1>c, <2>2, <2>5, <2>6, <2>9, <2>10, <2>11
<1>13. ASSUME NEW l \in Loops, M!Result(l) PROVE ConversationInv'
  <2>1. PICK pc \in {"tools", "gated"} :
            loop' = [loop EXCEPT ![l].pc = pc, ![l].asked = @ - 1, ![l].list.talk = @ + 1]
    BY <1>13 DEF M!Result
  <2> DEFINE list == [loop[l].list EXCEPT !.talk = loop[l].list.talk + 1]
             x == [loop[l] EXCEPT !.pc = pc, !.asked = loop[l].asked - 1, !.list = list]
             r == M!Stored("tool", M!Number(l), loop[l].answer)
  <2>2. /\ loop[l].pc = "tools" /\ loop[l].asked > 0 /\ Len(rows) < MaxRows
        /\ rows' = Append(rows, r)
        /\ status' \in M!Status /\ saved' = saved
        /\ loop' = [loop EXCEPT ![l] = x]
    <3>1. loop' = [loop EXCEPT ![l] = x]
      BY <1>0, <2>1 DEF M!TypeOK, M!LoopState
    <3>2. status' = status
      BY <1>13 DEF M!Result
    <3> QED
      BY <1>0, <1>13, <3>1, <3>2 DEF M!Result
  <2>3. list \in M!List
    BY <1>0 DEF M!List
  <2>4. /\ M!Length(list) = M!Length(loop[l].list) + 1 /\ M!Length(loop[l].list) \in Nat
        /\ list.system = loop[l].list.system
    BY <2>3, <1>d
  <2> HIDE DEF list
  <2>5. /\ x \in M!LoopState /\ x.pc = pc /\ x.steps = loop[l].steps
        /\ x.list = list /\ x.known = loop[l].known /\ x.approval = loop[l].approval
        /\ x.answer = loop[l].answer /\ loop[l].answer \in Nat
    <3>1. loop[l].asked \in 0..MaxBatch /\ loop[l].answer \in 0..MaxRows
      BY <1>0 DEF M!LoopState
    <3>2. loop[l].asked - 1 \in 0..MaxBatch /\ loop[l].answer \in Nat
      BY <1>0, <2>2, <3>1
    <3> QED
      BY <1>0, <2>1, <2>3, <3>2 DEF M!LoopState
  <2>6. /\ r \in M!Row /\ r.role = "tool" /\ r.of = loop[l].answer
        /\ r.seq = M!Length(loop[l].list) + 1
    BY <2>4, <2>5 DEF M!Stored, M!Row, M!Number
  <2> HIDE DEF x
  <2>7. /\ Grown /\ rows'[Len(rows) + 1] = r
        /\ DOMAIN rows' \ DOMAIN rows = {Len(rows) + 1}
    BY <1>0, <2>2, <2>6, RowAdded
  <2>8. loop'[l] = x
    BY <1>0, <2>2, <2>5, OneLoop
  <2>9. Busy(l) /\ loop[l].answer \in DOMAIN rows
    BY <1>0, <2>2 DEF Busy, Answered
  <2>10. Answered(l)'
    <3>1. ASSUME NEW i \in DOMAIN rows', rows'[i].of = loop[l].answer
          PROVE  rows'[i].seq <= M!Length(list)
      <4>1. CASE i \in DOMAIN rows
        <5>1. rows[i].seq <= M!Length(loop[l].list) /\ rows'[i] = rows[i] /\ rows[i] \in M!Row
          BY <1>0, <2>7, <2>9, <3>1, <4>1 DEF Answered, Grown
        <5> QED
          BY <2>4, <5>1 DEF M!Row
      <4>2. CASE i \notin DOMAIN rows
        BY <2>4, <2>6, <2>7, <3>1, <4>2
      <4> QED
        BY <4>1, <4>2
    <3> QED
      BY <1>0, <2>5, <2>7, <2>8, <2>9, <3>1 DEF Answered, Grown
  <2>11. x.steps < M!Kept + 3 => M!Length(x.list) >= x.steps
    BY <1>0, <2>2, <2>4, <2>5 DEF Ahead
  <2>12. x.list.system \subseteq M!System' /\ loop[l].list.system \subseteq x.list.system
    BY <1>0, <2>4, <2>5, <2>7, SystemGrows DEF Holds
  <2> QED
    BY <1>c, <2>1, <2>2, <2>5, <2>6, <2>9, <2>10, <2>11, <2>12
<1>14. ASSUME NEW l \in Loops, M!Gate(l) PROVE ConversationInv'
  <2> DEFINE list == [loop[l].list EXCEPT !.system = loop[l].list.system \cup {Len(rows) + 1}]
             x == [loop[l] EXCEPT !.pc = "tools", !.asked = 0, !.waits = TRUE, !.list = list]
             r == M!Stored("system", M!Number(l), 0)
  <2>1. /\ loop[l].pc = "gated" /\ Len(rows) < MaxRows
        /\ rows' = Append(rows, r) /\ status' \in M!Status /\ saved' = saved
        /\ loop' = [loop EXCEPT ![l] = x]
    <3>1. loop' = [loop EXCEPT ![l] = x]
      BY <1>0, <1>14 DEF M!Gate, M!TypeOK, M!LoopState
    <3> QED
      BY <1>0, <1>14, <3>1 DEF M!Gate
  <2>2. list \in M!List /\ list.system = loop[l].list.system \cup {Len(rows) + 1}
    <3>1. Len(rows) + 1 \in 1..MaxRows
      BY <1>0, <2>1
    <3>2. loop[l].list.system \cup {Len(rows) + 1} \in SUBSET (1..MaxRows)
      BY <1>0, <3>1 DEF M!List
    <3> QED
      BY <1>0, <3>2 DEF M!List
  <2>3. /\ M!Length(list) >= M!Length(loop[l].list)
        /\ M!Length(loop[l].list) \in Nat /\ M!Length(list) \in Nat
    BY <2>2, <1>d
  <2> HIDE DEF list
  <2>4. /\ x \in M!LoopState /\ x.pc = "tools" /\ x.steps = loop[l].steps
        /\ x.list = list /\ x.known = loop[l].known /\ x.approval = loop[l].approval
        /\ x.answer = loop[l].answer
    <3>1. 0 \in 0..MaxBatch
      BY <1>0
    <3> QED
      BY <1>0, <2>2, <3>1 DEF M!LoopState
  <2>5. /\ M!Number(l) \in Nat /\ r \in M!Row /\ r.role = "system" /\ r.of = 0
    BY <2>3 DEF M!Stored, M!Row, M!Number
  <2>6. /\ Grown /\ DOMAIN rows' \ DOMAIN rows = {Len(rows) + 1}
        /\ Len(rows) + 1 \in M!System' /\ rows'[Len(rows) + 1] = r
    BY <1>0, <2>1, <2>5, RowAdded, SystemRow
  <2> HIDE DEF x, r
  <2>7. loop'[l] = x
    BY <1>0, <2>1, <2>4, OneLoop
  <2>8. Busy(l) /\ loop[l].answer \in DOMAIN rows
    BY <1>0, <2>1 DEF Busy, Answered
  <2>9. Answered(l)'
    <3>1. ASSUME NEW i \in DOMAIN rows', rows'[i].of = loop[l].answer
          PROVE  rows'[i].seq <= M!Length(list)
      <4>1. CASE i \in DOMAIN rows
        <5>1. rows[i].seq <= M!Length(loop[l].list) /\ rows'[i] = rows[i] /\ rows[i] \in M!Row
          BY <1>0, <2>6, <2>8, <3>1, <4>1 DEF Answered, Grown
        <5> QED
          BY <2>3, <5>1 DEF M!Row
      <4>2. CASE i \notin DOMAIN rows
        BY <1>0, <2>5, <2>6, <2>8, <3>1, <4>2
      <4> QED
        BY <4>1, <4>2
    <3> QED
      BY <1>0, <2>4, <2>6, <2>7, <2>8, <3>1 DEF Answered, Grown
  <2>10. x.steps < M!Kept + 3 => M!Length(x.list) >= x.steps
    <3>1. loop[l].steps < M!Kept + 3 => M!Length(loop[l].list) >= loop[l].steps
      BY <1>0, <2>1 DEF Ahead
    <3> QED
      BY <1>0, <2>3, <2>4, <3>1
  <2>11. x.list.system \subseteq M!System' /\ loop[l].list.system \subseteq x.list.system
    BY <1>0, <2>2, <2>4, <2>6, SystemGrows DEF Holds
  <2> QED
    BY <1>c, <2>1, <2>4, <2>5, <2>8, <2>9, <2>10, <2>11
<1>15. ASSUME NEW l \in Loops, M!StepEnds(l) PROVE ConversationInv'
  <2> DEFINE x == [loop[l] EXCEPT !.pc = "top", !.asked = 0, !.answer = 0]
  <2>1. /\ loop[l].pc = "tools" /\ loop' = [loop EXCEPT ![l] = x]
        /\ UNCHANGED <<rows, status>> /\ saved' = saved
    BY <1>0, <1>15 DEF M!StepEnds, M!TypeOK
  <2>2. /\ x \in M!LoopState /\ x.pc = "top" /\ x.steps = loop[l].steps
        /\ x.list = loop[l].list /\ x.known = loop[l].known /\ x.approval = loop[l].approval
    <3>1. 0 \in 0..MaxBatch /\ 0 \in 0..MaxRows
      BY <1>0
    <3> QED
      BY <1>0, <3>1 DEF M!LoopState
  <2> HIDE DEF x
  <2>3. /\ x.list.system # {} /\ x.list.system \subseteq M!System
        /\ x.known => M!Seen(l)
        /\ x.steps < M!Kept + 3 => M!Length(x.list) >= x.steps
    BY <1>0, <2>1, <2>2 DEF Holds, Ahead
  <2> QED
    BY <1>0, <1>b, <2>1, <2>2, <2>3 DEF M!Seen
<1>16. ASSUME M!MarkStuck PROVE ConversationInv'
  <2>1. UNCHANGED <<rows, saved, loop>> /\ status' \in M!Status
    BY <1>0, <1>16 DEF M!MarkStuck
  <2> QED
    BY <1>0, <2>1 DEF ConversationInv, M!TypeOK, Linked, Holds, Ahead, Answered, Apart, Busy,
                      M!System, M!Seen, M!ResultsFollow
<1>17. CASE UNCHANGED M!vars
  BY <1>0, <1>17 DEF M!vars, ConversationInv, M!TypeOK, Linked, Holds, Ahead, Answered, Apart,
                     Busy, M!System, M!Seen, M!ResultsFollow
<1> QED
  BY <1>1, <1>2, <1>3, <1>4, <1>5, <1>6, <1>7, <1>8, <1>9, <1>10, <1>11, <1>12, <1>13,
     <1>14, <1>15, <1>16, <1>17 DEF M!Next

\* A loop that shows the LLM its list holds what it was resumed with.
LEMMA ConversationPromise == ConversationInv => M!ApprovalKept
BY DEF ConversationInv, Holds, M!ApprovalKept

-----------------------------------------------------------------------------
(* The budget *)

\* The alerts are those of checks that are over, each once.
Rows == /\ \A i \in DOMAIN alerts : check[alerts[i]].at = "recorded"
        /\ \A i, j \in DOMAIN alerts : alerts[i] = alerts[j] => i = j

\* What a check of today has seen is still reached.
StillReached == \A c \in Calls : check[c].day = today => D!Reached(check[c].kind)

Overlapping == \A c, d \in Calls : c # d /\ D!InFlight(c) /\ D!InFlight(d) => {c, d} \in abreast

\* An alert that was there before a check began is not of a higher kind, and not of
\* the same one if the check has looked.
Below(c) ==
    \A i \in DOMAIN alerts :
        check[alerts[i]].day = check[c].day /\ {alerts[i], c} \notin abreast =>
            /\ check[alerts[i]].kind <= check[c].kind
            /\ check[c].at = "looked" => check[alerts[i]].kind # check[c].kind

BudgetInv ==
    /\ D!TypeOK
    /\ \A c \in Calls : check[c].day <= today
    /\ Rows
    /\ StillReached
    /\ Overlapping
    /\ \A c \in Calls : D!InFlight(c) => Below(c)
    /\ D!AlertsOnce

\* No check has begun.
LEMMA BudgetInit == D!Init => BudgetInv
<1> SUFFICES ASSUME D!Init PROVE BudgetInv
  OBVIOUS
<1>1. /\ check = [c \in Calls |-> [at |-> "start", kind |-> 0, day |-> 0]]
      /\ alerts = <<>> /\ today = 1 /\ used = 0 /\ abreast = {}
  BY DEF D!Init
<1>2. /\ \A c \in Calls : check[c].at = "start" /\ check[c].day = 0 /\ check[c].kind = 0
      /\ DOMAIN alerts = {} /\ alerts \in Seq(Calls)
  BY <1>1
<1>3. D!TypeOK
  BY <1>1, <1>2 DEF D!TypeOK, D!At, D!Thresholds
<1> QED
  BY <1>1, <1>2, <1>3 DEF BudgetInv, Rows, StillReached, Overlapping, D!InFlight, D!AlertsOnce

\* What is reached stays reached when more is used.
LEMMA MoreReaches ==
    ASSUME NEW least \in Nat, NEW m \in Nat, NEW n \in Nat, 100 * m >= least, n >= m
    PROVE  100 * n >= least
OBVIOUS

\* A check that goes on keeps its kind and its day.
LEMMA CheckGoesOn ==
    ASSUME D!TypeOK, NEW c \in Calls, NEW at \in D!At, D!Go(c, at)
    PROVE  /\ check' \in [Calls -> [at : D!At, kind : {0} \cup D!Thresholds, day : Nat]]
           /\ check'[c].at = at
           /\ \A d \in Calls \ {c} : check'[d] = check[d]
           /\ \A d \in Calls : check'[d].kind = check[d].kind /\ check'[d].day = check[d].day
<1> DEFINE Check == [at : D!At, kind : {0} \cup D!Thresholds, day : Nat]
<1>1. check \in [Calls -> Check] /\ check[c] \in Check /\ check' = [check EXCEPT ![c].at = at]
  BY DEF D!TypeOK, D!Go
<1>2. /\ [check[c] EXCEPT !.at = at] \in Check /\ [check[c] EXCEPT !.at = at].at = at
      /\ [check[c] EXCEPT !.at = at].kind = check[c].kind
      /\ [check[c] EXCEPT !.at = at].day = check[c].day
  BY <1>1
<1> HIDE DEF Check
<1>3. /\ check' \in [Calls -> Check] /\ check'[c] = [check[c] EXCEPT !.at = at]
      /\ \A d \in Calls \ {c} : check'[d] = check[d]
  BY <1>1, <1>2
<1> QED
  BY <1>2, <1>3 DEF Check

\* Every step of Budget keeps BudgetInv.
LEMMA BudgetNext == BudgetInv /\ [D!Next]_(D!vars) => BudgetInv'
<1> SUFFICES ASSUME BudgetInv, [D!Next]_(D!vars) PROVE BudgetInv'
  OBVIOUS
<1>0. /\ D!TypeOK /\ used \in Nat /\ today \in Nat /\ alerts \in Seq(Calls)
      /\ abreast \subseteq SUBSET Calls /\ Cap \in Nat \ {0} /\ Amounts \subseteq Nat
      /\ {"start", "none", "summed", "looked", "known", "recorded", "failed", "died"} = D!At
      /\ \A i \in DOMAIN alerts : alerts[i] \in Calls
      /\ \A c \in Calls : /\ check[c].at \in D!At /\ check[c].day \in Nat
                          /\ check[c].kind \in {0, 50, 90, 100} /\ check[c].kind \in Nat
  <2>1. D!TypeOK /\ Cap \in Nat \ {0} /\ Amounts \subseteq Nat
    BY PartAssumptions DEF BudgetInv, D!CapAssumption
  <2>2. \A c \in Calls : check[c] \in [at : D!At, kind : {0} \cup D!Thresholds, day : Nat]
    BY <2>1 DEF D!TypeOK
  <2>3. \A c \in Calls : /\ check[c].at \in D!At /\ check[c].day \in Nat
                         /\ check[c].kind \in {0, 50, 90, 100} /\ check[c].kind \in Nat
    BY <2>2 DEF D!Thresholds
  <2> QED
    BY <2>1, <2>3 DEF D!TypeOK, D!At
<1>p. /\ \A i \in DOMAIN alerts : check[alerts[i]].at = "recorded"
      /\ \A i, j \in DOMAIN alerts : alerts[i] = alerts[j] => i = j
      /\ \A c \in Calls : check[c].day = today => D!Reached(check[c].kind)
      /\ \A c \in Calls : check[c].day <= today
  BY DEF BudgetInv, Rows, StillReached
<1>q. used' = used => \A x : D!Reached(x)' <=> D!Reached(x)
  BY DEF D!Reached
<1>1. CASE D!Use
  <2>1. PICK n \in Amounts : used' = used + n /\ UNCHANGED <<today, check, alerts, abreast>>
    BY <1>1 DEF D!Use
  <2>2. StillReached'
    <3>1. used' \in Nat /\ used' >= used
      BY <1>0, <2>1
    <3>2. ASSUME NEW t \in Nat, D!Reached(t) PROVE D!Reached(t)'
      <4>1. t * Cap \in Nat /\ 100 * used >= t * Cap /\ Cap' = Cap
        BY <1>0, <3>2 DEF D!Reached
      <4>2. used \in Nat /\ used' \in Nat /\ used' >= used
        BY <1>0, <3>1
      <4>3. 100 * used' >= t * Cap
        BY <4>1, <4>2, MoreReaches
      <4> QED
        BY <4>1, <4>3 DEF D!Reached
    <3> QED
      BY <1>0, <2>1, <3>2 DEF BudgetInv, StillReached
  <2>3. D!TypeOK'
    BY <1>0, <2>1 DEF D!TypeOK
  <2> QED
    BY <2>1, <2>2, <2>3
       DEF BudgetInv, Rows, Overlapping, Below, D!InFlight, D!AlertsOnce, D!Same
<1>2. CASE D!NewDay
  <2>1. today' = today + 1 /\ used' = 0 /\ UNCHANGED <<check, alerts, abreast>>
    BY <1>2 DEF D!NewDay
  <2>2. \A c \in Calls : check[c].day < today'
    BY <1>0, <2>1 DEF BudgetInv
  <2>3. StillReached' /\ \A c \in Calls : check'[c].day <= today'
    BY <1>0, <2>1, <2>2 DEF StillReached
  <2>4. D!TypeOK'
    BY <1>0, <2>1 DEF D!TypeOK
  <2> QED
    BY <2>1, <2>3, <2>4
       DEF BudgetInv, Rows, Overlapping, Below, D!InFlight, D!AlertsOnce, D!Same
\* A check that goes on, or is over, without an alert.
<1>g. ASSUME NEW c \in Calls, NEW at \in {"none", "looked", "known", "failed", "died"},
             D!Go(c, at), UNCHANGED <<used, today, alerts, abreast>>,
             check[c].at \in {"start", "summed", "looked"},
             at = "looked" => D!InFlight(c) /\ D!Alike(c) = {},
             at = "failed" => \E i, j \in D!Alike(c) : i # j
      PROVE  BudgetInv'
  <2>1. /\ check' \in [Calls -> [at : D!At, kind : {0} \cup D!Thresholds, day : Nat]]
        /\ check'[c].at = at
        /\ \A d \in Calls \ {c} : check'[d] = check[d]
        /\ \A d \in Calls : check'[d].kind = check[d].kind /\ check'[d].day = check[d].day
    BY <1>0, <1>g, CheckGoesOn
  <2>2. D!TypeOK'
    BY <1>0, <1>g, <2>1 DEF D!TypeOK
  <2>3. Rows' /\ \A i \in DOMAIN alerts : alerts[i] # c
    <3>2. check[c].at # "recorded" /\ alerts' = alerts
      BY <1>g
    <3>3. \A i \in DOMAIN alerts : alerts[i] # c
      BY <1>p, <3>2
    <3>4. \A i \in DOMAIN alerts : check'[alerts[i]] = check[alerts[i]]
      BY <1>0, <2>1, <3>3
    <3>5. \A i \in DOMAIN alerts : check'[alerts[i]].at = "recorded"
      BY <1>p, <3>4
    <3> QED
      BY <1>p, <3>2, <3>5 DEF Rows
  <2>4. StillReached' /\ \A d \in Calls : check'[d].day <= today'
    BY <1>g, <1>p, <1>q, <2>1 DEF StillReached
  <2>5. \A d \in Calls : D!InFlight(d)' => D!InFlight(d)
    BY <1>g, <2>1 DEF D!InFlight
  <2>6. Overlapping'
    BY <1>g, <2>5 DEF BudgetInv, Overlapping
  <2>7. ASSUME NEW d \in Calls, D!InFlight(d)' PROVE Below(d)'
    <3>1. Below(d)
      BY <2>5, <2>7 DEF BudgetInv
    <3>2. CASE d # c
      <4>1. check'[d] = check[d]
        BY <2>1, <3>2
      <4>2. \A i \in DOMAIN alerts : alerts[i] \in Calls
        BY <1>0
      <4> QED
        BY <1>g, <2>1, <3>1, <4>1, <4>2 DEF Below
    <3>3. CASE d = c
      <4>1. at = "looked"
        BY <1>g, <2>1, <2>7, <3>3 DEF D!InFlight
      <4>2. \A i \in DOMAIN alerts : check[alerts[i]].day = check[c].day =>
                check[alerts[i]].kind # check[c].kind
        BY <1>g, <4>1 DEF D!Alike, D!Same
      <4> QED
        BY <1>0, <1>g, <2>1, <3>1, <3>3, <4>2 DEF Below
    <3> QED
      BY <3>2, <3>3
  <2>8. D!AlertsOnce'
    <3>1. \A i, j \in DOMAIN alerts' :
              i < j /\ check'[alerts'[i]].day = check'[alerts'[j]].day
                    /\ {alerts'[i], alerts'[j]} \notin abreast' =>
                  check'[alerts'[i]].kind < check'[alerts'[j]].kind
      <4>1. \A i \in DOMAIN alerts : /\ check'[alerts[i]].day = check[alerts[i]].day
                                     /\ check'[alerts[i]].kind = check[alerts[i]].kind
        BY <1>0, <2>1
      <4> QED
        BY <1>g, <4>1 DEF BudgetInv, D!AlertsOnce
    <3>2. ASSUME NEW d \in Calls, check'[d].at = "failed"
          PROVE  \E i, j \in DOMAIN alerts' :
                     i # j /\ D!Same(d, alerts[i])' /\ D!Same(d, alerts[j])'
                           /\ {alerts'[i], alerts'[j]} \in abreast'
      <4>1. \A i \in DOMAIN alerts : D!Same(d, alerts[i]) => D!Same(d, alerts[i])'
        BY <1>0, <1>g, <2>1 DEF D!Same
      <4>2. CASE d # c
        BY <1>g, <2>1, <3>2, <4>1, <4>2 DEF BudgetInv, D!AlertsOnce
      <4>3. CASE d = c
        <5>1. PICK i, j \in D!Alike(c) : i # j
          BY <1>g, <2>1, <3>2, <4>3
        <5>2. /\ i \in DOMAIN alerts /\ j \in DOMAIN alerts
              /\ D!Same(c, alerts[i]) /\ D!Same(c, alerts[j])
          BY DEF D!Alike
        <5>3. /\ check[alerts[i]].day = check[alerts[j]].day
              /\ check[alerts[i]].kind = check[alerts[j]].kind
          BY <5>2 DEF D!Same
        <5>4. {alerts[i], alerts[j]} \in abreast
          <6>1. i \in Nat /\ j \in Nat /\ {alerts[i], alerts[j]} = {alerts[j], alerts[i]}
            BY <1>0, <5>2
          <6>2. i < j \/ j < i
            BY <5>1, <6>1
          <6>3. check[alerts[i]].kind \in Nat
            BY <1>0, <5>2
          <6> QED
            BY <5>2, <5>3, <6>1, <6>2, <6>3 DEF BudgetInv, D!AlertsOnce
        <5> QED
          BY <1>g, <4>1, <4>3, <5>1, <5>2, <5>4
      <4> QED
        BY <4>2, <4>3
    <3> QED
      BY <3>1, <3>2 DEF D!AlertsOnce
  <2> QED
    BY <2>2, <2>3, <2>4, <2>6, <2>7, <2>8 DEF BudgetInv
<1>3. ASSUME NEW c \in Calls, D!Sum(c) PROVE BudgetInv'
  <2>1. check[c].at = "start" /\ UNCHANGED <<used, today, alerts>>
    BY <1>3 DEF D!Sum
  <2>2. CASE D!Go(c, "none") /\ UNCHANGED abreast
    BY <1>g, <2>1, <2>2
  <2>3. ASSUME NEW t \in D!Thresholds, D!Crossed(t),
               check' = [check EXCEPT ![c] = [at |-> "summed", kind |-> t, day |-> today]],
               abreast' = abreast \cup {{c, d} : d \in {e \in Calls : D!InFlight(e)}}
        PROVE  BudgetInv'
    <3>1. /\ check' \in [Calls -> [at : D!At, kind : {0} \cup D!Thresholds, day : Nat]]
          /\ check'[c] = [at |-> "summed", kind |-> t, day |-> today]
          /\ \A d \in Calls \ {c} : check'[d] = check[d]
      <4>1. [at |-> "summed", kind |-> t, day |-> today]
                \in [at : D!At, kind : {0} \cup D!Thresholds, day : Nat]
        BY <1>0
      <4> QED
        BY <1>0, <2>3, <4>1 DEF D!TypeOK
    <3>2. t \in Nat /\ D!Reached(t) /\ \A u \in {0, 50, 90, 100} : D!Reached(u) => u <= t
      BY <2>3 DEF D!Crossed, D!Thresholds
    <3>3. D!TypeOK'
      <4>1. abreast' \subseteq SUBSET Calls
        BY <1>0, <2>3
      <4> QED
        BY <1>0, <2>1, <3>1, <4>1 DEF D!TypeOK
    <3>4. Rows' /\ \A i \in DOMAIN alerts : alerts[i] \in Calls \ {c}
      <4>1. \A i \in DOMAIN alerts : alerts[i] \in Calls \ {c}
        BY <1>0, <1>p, <2>1
      <4>2. \A i \in DOMAIN alerts : check'[alerts[i]].at = "recorded"
        BY <1>p, <3>1, <4>1
      <4> QED
        BY <1>p, <2>1, <4>1, <4>2 DEF Rows
    <3>5. StillReached' /\ \A d \in Calls : check'[d].day <= today'
      <4>1. \A x : D!Reached(x) => D!Reached(x)'
        BY <2>1 DEF D!Reached
      <4>2. \A d \in Calls : check'[d].day = today => D!Reached(check'[d].kind)
        BY <3>1, <3>2 DEF BudgetInv, StillReached
      <4>3. \A d \in Calls : check'[d].day <= today
        BY <1>0, <3>1 DEF BudgetInv
      <4> QED
        BY <2>1, <4>1, <4>2, <4>3 DEF StillReached
    <3>6. \A d \in Calls \ {c} : D!InFlight(d)' <=> D!InFlight(d)
      BY <3>1 DEF D!InFlight
    <3>7. Overlapping'
      <4>1. \A d \in Calls \ {c} : D!InFlight(d) => {c, d} \in abreast' /\ {d, c} = {c, d}
        BY <2>3
      <4> QED
        BY <2>3, <3>6, <4>1 DEF BudgetInv, Overlapping
    <3>8. ASSUME NEW d \in Calls, D!InFlight(d)' PROVE Below(d)'
      <4>1. CASE d = c
        <5>1. \A i \in DOMAIN alerts : check[alerts[i]].day = today => check[alerts[i]].kind <= t
          <6> SUFFICES ASSUME NEW i \in DOMAIN alerts, check[alerts[i]].day = today
                       PROVE  check[alerts[i]].kind <= t
            OBVIOUS
          <6>1. alerts[i] \in Calls
            BY <1>0
          <6>2. check[alerts[i]].kind \in {0, 50, 90, 100} /\ D!Reached(check[alerts[i]].kind)
            BY <1>0, <1>p, <6>1
          <6> QED
            BY <3>2, <6>2
        <5> QED
          BY <2>1, <3>1, <3>4, <4>1, <5>1 DEF Below
      <4>2. CASE d # c
        <5>1. Below(d)
          BY <3>6, <3>8, <4>2 DEF BudgetInv
        <5> QED
          BY <2>1, <2>3, <3>1, <3>4, <4>2, <5>1 DEF Below
      <4> QED
        BY <4>1, <4>2
    <3>9. D!AlertsOnce'
      <4>1. \A i, j \in DOMAIN alerts' :
                i < j /\ check'[alerts'[i]].day = check'[alerts'[j]].day
                      /\ {alerts'[i], alerts'[j]} \notin abreast' =>
                    check'[alerts'[i]].kind < check'[alerts'[j]].kind
        BY <2>1, <2>3, <3>1, <3>4 DEF BudgetInv, D!AlertsOnce
      <4>2. ASSUME NEW d \in Calls, check'[d].at = "failed"
            PROVE  \E i, j \in DOMAIN alerts' :
                       i # j /\ D!Same(d, alerts[i])' /\ D!Same(d, alerts[j])'
                             /\ {alerts'[i], alerts'[j]} \in abreast'
        <5>1. d # c /\ check'[d] = check[d]
          BY <3>1, <4>2
        <5>2. PICK i, j \in DOMAIN alerts :
                  i # j /\ D!Same(d, alerts[i]) /\ D!Same(d, alerts[j])
                        /\ {alerts[i], alerts[j]} \in abreast
          BY <4>2, <5>1 DEF BudgetInv, D!AlertsOnce
        <5>3. D!Same(d, alerts[i])' /\ D!Same(d, alerts[j])'
          BY <2>1, <3>1, <3>4, <5>1, <5>2 DEF D!Same
        <5> QED
          BY <2>1, <2>3, <5>2, <5>3
      <4> QED
        BY <4>1, <4>2 DEF D!AlertsOnce
    <3> QED
      BY <3>3, <3>4, <3>5, <3>7, <3>8, <3>9 DEF BudgetInv
  <2> QED
    BY <1>3, <2>2, <2>3 DEF D!Sum
<1>4. ASSUME NEW c \in Calls, D!Look(c) PROVE BudgetInv'
  <2>1. check[c].at = "summed" /\ D!InFlight(c) /\ UNCHANGED <<used, today, alerts, abreast>>
    BY <1>4 DEF D!Look, D!InFlight
  <2>2. CASE D!Alike(c) = {}
    BY <1>4, <1>g, <2>1, <2>2 DEF D!Look
  <2>3. CASE D!Alike(c) # {} /\ \E i \in D!Alike(c) : D!Alike(c) = {i}
    BY <1>4, <1>g, <2>1, <2>3 DEF D!Look
  <2>4. CASE D!Alike(c) # {} /\ ~\E i \in D!Alike(c) : D!Alike(c) = {i}
    <3>1. \E i, j \in D!Alike(c) : i # j
      BY <2>4
    <3>2. D!Go(c, "failed")
      BY <1>4, <2>4 DEF D!Look
    <3> QED
      BY <1>g, <2>1, <3>1, <3>2
  <2> QED
    BY <2>2, <2>3, <2>4
\* What is inserted is above every alert of the day that the check did not overlap.
<1>5. ASSUME NEW c \in Calls, D!Insert(c) PROVE BudgetInv'
  <2> DEFINE n == Len(alerts) + 1
  <2>1. /\ check[c].at = "looked" /\ alerts' = Append(alerts, c) /\ D!Go(c, "recorded")
        /\ UNCHANGED <<used, today, abreast>> /\ D!InFlight(c)
    BY <1>5 DEF D!Insert, D!InFlight
  <2>2. /\ check' \in [Calls -> [at : D!At, kind : {0} \cup D!Thresholds, day : Nat]]
        /\ check'[c].at = "recorded"
        /\ \A d \in Calls \ {c} : check'[d] = check[d]
        /\ \A d \in Calls : check'[d].kind = check[d].kind /\ check'[d].day = check[d].day
    BY <1>0, <2>1, CheckGoesOn
  <2>3. /\ alerts' \in Seq(Calls) /\ DOMAIN alerts' = 1..n /\ DOMAIN alerts = 1..(n - 1)
        /\ n \in Nat /\ alerts'[n] = c /\ n \in DOMAIN alerts'
        /\ \A i \in DOMAIN alerts : alerts'[i] = alerts[i] /\ i \in DOMAIN alerts' /\ i < n /\ i \in Nat
        /\ \A i \in DOMAIN alerts' : i \in DOMAIN alerts \/ i = n
    BY <1>0, <2>1
  <2>4. \A i \in DOMAIN alerts : alerts[i] \in Calls \ {c}
    BY <1>0, <1>p, <2>1
  <2> HIDE DEF n
  <2>5. D!TypeOK'
    BY <1>0, <2>1, <2>2, <2>3 DEF D!TypeOK
  <2>6. Rows'
    <3>1. \A i \in DOMAIN alerts : alerts'[i] = alerts[i] /\ alerts'[i] # c
                                   /\ check'[alerts'[i]].at = "recorded"
      BY <1>p, <2>2, <2>3, <2>4
    <3>2. \A i \in DOMAIN alerts' : check'[alerts'[i]].at = "recorded"
      BY <2>2, <2>3, <3>1
    <3>3. ASSUME NEW i \in DOMAIN alerts', NEW j \in DOMAIN alerts', alerts'[i] = alerts'[j]
          PROVE  i = j
      <4>1. CASE i \in DOMAIN alerts /\ j \in DOMAIN alerts
        BY <1>p, <3>1, <3>3, <4>1
      <4>2. CASE i = n \/ j = n
        BY <2>3, <3>1, <3>3, <4>2
      <4> QED
        BY <2>3, <4>1, <4>2
    <3> QED
      BY <3>2, <3>3 DEF Rows
  <2>7. StillReached' /\ \A d \in Calls : check'[d].day <= today'
    BY <1>p, <1>q, <2>1, <2>2 DEF StillReached
  <2>8. \A d \in Calls : D!InFlight(d)' => D!InFlight(d) /\ d # c
    BY <2>2 DEF D!InFlight
  <2>9. Overlapping'
    BY <2>1, <2>8 DEF BudgetInv, Overlapping
  <2>10. ASSUME NEW d \in Calls, D!InFlight(d)' PROVE Below(d)'
    <3>1. Below(d) /\ d # c /\ {c, d} \in abreast /\ check'[d] = check[d]
      BY <2>1, <2>2, <2>8, <2>10 DEF BudgetInv, Overlapping
    <3>2. ASSUME NEW i \in DOMAIN alerts', check'[alerts'[i]].day = check'[d].day,
                 {alerts'[i], d} \notin abreast'
          PROVE  /\ check'[alerts'[i]].kind <= check'[d].kind
                 /\ check'[d].at = "looked" => check'[alerts'[i]].kind # check'[d].kind
      <4>1. i # n
        BY <2>1, <2>3, <3>1, <3>2
      <4>2. i \in DOMAIN alerts /\ alerts'[i] = alerts[i] /\ check'[alerts[i]] = check[alerts[i]]
        BY <2>2, <2>3, <2>4, <4>1
      <4> QED
        BY <2>1, <3>1, <3>2, <4>2 DEF Below
    <3> QED
      BY <3>2 DEF Below
  <2>11. D!AlertsOnce'
    <3>1. ASSUME NEW i \in DOMAIN alerts', NEW j \in DOMAIN alerts', i < j,
                 check'[alerts'[i]].day = check'[alerts'[j]].day,
                 {alerts'[i], alerts'[j]} \notin abreast'
          PROVE  check'[alerts'[i]].kind < check'[alerts'[j]].kind
      <4>1. i \in DOMAIN alerts
        BY <2>3, <3>1
      <4>2. CASE j \in DOMAIN alerts
        <5>1. /\ alerts'[i] = alerts[i] /\ alerts'[j] = alerts[j]
              /\ check'[alerts[i]] = check[alerts[i]] /\ check'[alerts[j]] = check[alerts[j]]
          BY <2>2, <2>3, <2>4, <4>1, <4>2
        <5> QED
          BY <2>1, <3>1, <4>1, <4>2, <5>1 DEF BudgetInv, D!AlertsOnce
      <4>3. CASE j = n
        <5>1. Below(c)
          BY <2>1 DEF BudgetInv
        <5>2. alerts'[j] = c /\ alerts'[i] = alerts[i] /\ alerts[i] \in Calls \ {c}
          BY <2>3, <2>4, <4>1, <4>3
        <5>3. /\ check[alerts[i]].kind <= check[c].kind
              /\ check[alerts[i]].kind # check[c].kind
          BY <2>1, <2>2, <3>1, <4>1, <5>1, <5>2 DEF Below
        <5>4. check[alerts[i]].kind \in Nat /\ check[c].kind \in Nat
          BY <1>0, <5>2
        <5> QED
          BY <2>2, <5>2, <5>3, <5>4
      <4> QED
        BY <2>3, <4>2, <4>3
    <3>2. ASSUME NEW d \in Calls, check'[d].at = "failed"
          PROVE  \E i, j \in DOMAIN alerts' :
                     i # j /\ D!Same(d, alerts[i])' /\ D!Same(d, alerts[j])'
                           /\ {alerts'[i], alerts'[j]} \in abreast'
      <4>1. d # c /\ check'[d] = check[d]
        BY <2>2, <3>2
      <4>2. PICK i, j \in DOMAIN alerts :
                i # j /\ D!Same(d, alerts[i]) /\ D!Same(d, alerts[j])
                      /\ {alerts[i], alerts[j]} \in abreast
        BY <3>2, <4>1 DEF BudgetInv, D!AlertsOnce
      <4>3. D!Same(d, alerts[i])' /\ D!Same(d, alerts[j])'
        <5>1. check'[alerts[i]] = check[alerts[i]] /\ check'[alerts[j]] = check[alerts[j]]
          BY <2>2, <2>4, <4>2
        <5>2. alerts'[i] = alerts[i] /\ alerts'[j] = alerts[j]
          BY <2>3, <4>2
        <5> QED
          BY <4>1, <4>2, <5>1, <5>2 DEF D!Same
      <4> QED
        BY <2>1, <2>3, <4>2, <4>3
    <3> QED
      BY <3>1, <3>2 DEF D!AlertsOnce
  <2> QED
    BY <2>5, <2>6, <2>7, <2>9, <2>10, <2>11 DEF BudgetInv
<1>6. ASSUME NEW c \in Calls, D!Dies(c) PROVE BudgetInv'
  BY <1>6, <1>g DEF D!Dies, D!InFlight
<1>7. CASE UNCHANGED D!vars
  <2>1. UNCHANGED <<used, today, check, alerts, abreast>>
    BY <1>7 DEF D!vars
  <2>2. D!TypeOK' /\ Rows' /\ StillReached' /\ \A c \in Calls : check'[c].day <= today'
    BY <1>p, <1>q, <2>1 DEF BudgetInv, D!TypeOK, Rows, StillReached
  <2>3. \A c \in Calls : D!InFlight(c)' <=> D!InFlight(c)
    BY <2>1 DEF D!InFlight
  <2>4. Overlapping'
    BY <2>1, <2>3 DEF BudgetInv, Overlapping
  <2>6. ASSUME NEW c \in Calls, D!InFlight(c)' PROVE Below(c)'
    <3>1. Below(c)
      BY <2>3, <2>6 DEF BudgetInv
    <3> QED
      BY <2>1, <3>1 DEF Below
  <2>5. D!AlertsOnce'
    BY <2>1 DEF BudgetInv, D!AlertsOnce, D!Same
  <2> QED
    BY <2>2, <2>4, <2>5, <2>6 DEF BudgetInv
<1> QED
  BY <1>1, <1>2, <1>3, <1>4, <1>5, <1>6, <1>7 DEF D!Next

-----------------------------------------------------------------------------
(* The parts in Services *)

\* A step of the services is one of Templates, or leaves it alone.
LEMMA TemplatesMoves == [Next]_vars => [T!Next]_(T!vars)
BY DEF Next, vars, RestT, RestUtoR, T!vars, templates

\* In every state that Services reaches, TemplatesInv holds.
LEMMA TemplatesInvariance == Spec => []TemplatesInv
<1>1. Init => TemplatesInv
  BY TemplatesInit DEF Init
<1>2. TemplatesInv /\ [Next]_vars => TemplatesInv'
  BY TemplatesMoves, TemplatesNext
<1> QED
  BY <1>1, <1>2, PTL DEF Spec

\* A step of the services is one of Todos, or leaves it alone.
LEMMA TodosMoves == [Next]_vars => [L!Next]_(L!vars)
BY DEF Next, vars, RestL, RestMtoB, L!vars, todos

\* In every state that Services reaches, TodosInv holds.
LEMMA TodosInvariance == Spec => []TodosInv
<1>1. Init => TodosInv
  BY TodosInit DEF Init
<1>2. TodosInv /\ [Next]_vars => TodosInv'
  BY TodosMoves, TodosNext
<1> QED
  BY <1>1, <1>2, PTL DEF Spec

\* A step of the services is one of Schedules, or leaves it alone.
LEMMA SchedulesMoves == [Next]_vars => [J!Next]_(J!vars)
BY DEF Next, vars, RestJ, RestAtoN, J!vars, schedules

\* In every state that Services reaches, SchedulesInv holds.
LEMMA SchedulesInvariance == Spec => []SchedulesInv
<1>1. Init => SchedulesInv
  BY SchedulesInit DEF Init
<1>2. SchedulesInv /\ [Next]_vars => SchedulesInv'
  BY SchedulesMoves, SchedulesNext
<1> QED
  BY <1>1, <1>2, PTL DEF Spec

\* A step of the services is one of Broadcast, or leaves it alone.
LEMMA BroadcastMoves == [Next]_vars => [B!Next]_(B!vars)
BY DEF Next, vars, RestB, RestMtoB, B!vars, broadcast

\* In every state that Services reaches, BroadcastInv holds.
LEMMA BroadcastInvariance == Spec => []BroadcastInv
<1>1. Init => BroadcastInv
  BY BroadcastInit DEF Init
<1>2. BroadcastInv /\ [Next]_vars => BroadcastInv'
  BY BroadcastMoves, BroadcastNext
<1> QED
  BY <1>1, <1>2, PTL DEF Spec

\* A step of the services is one of Cache, or leaves it alone.
LEMMA CacheMoves == [Next]_vars => [C!Next]_(C!vars)
BY DEF Next, vars, RestC, RestAtoN, C!vars, cache

\* In every state that Services reaches, CacheInv holds.
LEMMA CacheInvariance == Spec => []CacheInv
<1>1. Init => CacheInv
  BY CacheInit DEF Init
<1>2. CacheInv /\ [Next]_vars => CacheInv'
  BY CacheMoves, CacheNext
<1> QED
  BY <1>1, <1>2, PTL DEF Spec

\* A step of the services is one of Notices, or leaves it alone.
LEMMA NoticesMoves == [Next]_vars => [N!Next]_(N!vars)
BY DEF Next, vars, RestN, RestAtoN, N!vars, notices

\* In every state that Services reaches, NoticesInv holds.
LEMMA NoticesInvariance == Spec => []NoticesInv
<1>1. Init => NoticesInv
  BY NoticesInit DEF Init
<1>2. NoticesInv /\ [Next]_vars => NoticesInv'
  BY NoticesMoves, NoticesNext
<1> QED
  BY <1>1, <1>2, PTL DEF Spec

\* A step of the services is one of Patches, or leaves it alone.
LEMMA PatchesMoves == [Next]_vars => [F!Next]_(F!vars)
BY DEF Next, vars, RestF, RestUtoR, F!vars, patches

\* In every state that Services reaches, PatchesInv holds.
LEMMA PatchesInvariance == Spec => []PatchesInv
<1>1. Init => PatchesInv
  BY PatchesInit DEF Init
<1>2. PatchesInv /\ [Next]_vars => PatchesInv'
  BY PatchesMoves, PatchesNext
<1> QED
  BY <1>1, <1>2, PTL DEF Spec

\* A step of the services is one of TestRuns, or leaves it alone.
LEMMA TestRunsMoves == [Next]_vars => [U!Next]_(U!vars)
BY DEF Next, vars, RestU, RestUtoR, U!vars, testRuns

\* In every state that Services reaches, TestRunsInv holds.
LEMMA TestRunsInvariance == Spec => []TestRunsInv
<1>1. Init => TestRunsInv
  BY TestRunsInit DEF Init
<1>2. TestRunsInv /\ [Next]_vars => TestRunsInv'
  BY TestRunsMoves, TestRunsNext
<1> QED
  BY <1>1, <1>2, PTL DEF Spec

\* A step of the services is one of Conversation, or leaves it alone.
LEMMA ConversationMoves == [Next]_vars => [M!Next]_(M!vars)
BY DEF Next, vars, RestM, RestMtoB, M!vars, conversation

\* In every state that Services reaches, ConversationInv holds.
LEMMA ConversationInvariance == Spec => []ConversationInv
<1>1. Init => ConversationInv
  BY ConversationInit DEF Init
<1>2. ConversationInv /\ [Next]_vars => ConversationInv'
  BY ConversationMoves, ConversationNext
<1> QED
  BY <1>1, <1>2, PTL DEF Spec

\* A step of the services is one of Budget, or leaves it alone.
LEMMA BudgetMoves == [Next]_vars => [D!Next]_(D!vars)
BY DEF Next, vars, RestD, RestMtoB, D!vars, budget

\* In every state that Services reaches, BudgetInv holds.
LEMMA BudgetInvariance == Spec => []BudgetInv
<1>1. Init => BudgetInv
  BY BudgetInit DEF Init
<1>2. BudgetInv /\ [Next]_vars => BudgetInv'
  BY BudgetMoves, BudgetNext
<1> QED
  BY <1>1, <1>2, PTL DEF Spec

-----------------------------------------------------------------------------

\* The vault and its rows, the jobs and theirs, agree once nobody is at work on them,
\* up to what a death or two overlapping requests left (keys.py, scheduler.py).
THEOREM StoresStayAgreed == Spec => []StoresAgree
<1>1. VaultInv /\ SchedulesInv => StoresAgree
  BY VaultPromise, SchedulesPromise DEF StoresAgree
<1> QED
  BY <1>1, VaultInvariance, SchedulesInvariance, PTL

\* A default template, a password reset, a todo's number and a day's budget alert are
\* made once, unless two requests overlapped (templates.py, auth.py, update_todo.py,
\* budget.py).
THEOREM DoneOnce == Spec => []OnceEach
<1>1. TemplatesInv /\ ResetsInv /\ TodosInv /\ BudgetInv => OnceEach
  BY TemplatesPromise, TodosPromise DEF OnceEach, ResetsInv, BudgetInv
<1> QED
  BY <1>1, TemplatesInvariance, ResetsInvariance, TodosInvariance, BudgetInvariance, PTL

\* A cached answer is that of a call the provider answered and that is over, and is no
\* older than its time, in the shared store and in every server's memory (cache.py).
THEOREM HitsSound == Spec => []HitsAreSound
<1>1. CacheInv => HitsAreSound
  BY CachePromise DEF HitsAreSound
<1> QED
  BY <1>1, CacheInvariance, PTL

\* Whoever holds a task that another gave him has been told so, but for a subtask and a
\* creation that is or died between its two commits; and what was put in the queue of
\* an open socket is forwarded once and in order, where a full queue is passed over
\* (task_service.py, websocket.py).
THEOREM AllAreTold == Spec => []EveryoneTold
<1>1. NoticesInv /\ BroadcastInv => EveryoneTold
  BY NoticesPromise, BroadcastPromise DEF EveryoneTold
<1> QED
  BY <1>1, NoticesInvariance, BroadcastInvariance, PTL

\* A call that writes several files has made all of its edits or none, and later calls
\* keep them (apply_patch.py, edit_file.py: _run).
THEOREM PatchesAllOrNothing == Spec => []PatchesWhole
<1>1. PatchesInv => PatchesWhole
  BY PatchesPromise DEF PatchesWhole
<1> QED
  BY <1>1, PatchesInvariance, PTL

\* Whatever a test process prints, a run is "passed" only if it ended with code 0 and
\* reported a pass or a skip and no failure, is "failed" only if it reported one, and of
\* pytest's plain summary the agent's tool says the same, unless it says "1 error"
\* (service.py: run; adapters: parse_output; run_tests.py: _run).
THEOREM VerdictsTrue == Spec => []VerdictTrue
<1>1. TestRunsInv => VerdictTrue
  BY TestRunsTrue DEF VerdictTrue
<1> QED
  BY <1>1, TestRunsInvariance, PTL

\* However many loops write to one conversation, and whatever a reload, trim or
\* maybe_summarize does to their lists, the results of an answer are numbered in the
\* order its calls ran and, up to Kept + 3 steps, after the answer (runtime.py: _persist).
THEOREM ResultsInOrder == Spec => []ResultsFollow
<1>1. ConversationInv => ResultsFollow
  BY DEF ConversationInv, ResultsFollow
<1> QED
  BY <1>1, ConversationInvariance, PTL

\* A loop that resumed from a checkpoint shows the LLM, in every step, each stored
\* system message up to its approval (memory.py: trim, load_conversation).
THEOREM ApprovalsStay == Spec => []ApprovalKept
<1>1. ConversationInv => ApprovalKept
  BY ConversationPromise DEF ApprovalKept
<1> QED
  BY <1>1, ConversationInvariance, PTL

\* The rows of every part are of their types, as long as the part moves.
THEOREM ServicesTyped == Spec => []TypeOK
<1> DEFINE Moves == moves \in {"A", "S", "V", "P", "J", "C", "N", "U", "F", "T", "R", "M", "L", "D", "B"}
           Invs == /\ AccountsInv /\ SessionsInv /\ VaultInv /\ SettingsInv /\ ResetsInv
                   /\ TemplatesInv /\ TodosInv /\ SchedulesInv
                   /\ BroadcastInv /\ CacheInv /\ NoticesInv /\ PatchesInv /\ BudgetInv
                   /\ TestRunsInv /\ ConversationInv
<1>1. Init => Moves
  BY DEF Init
<1>2. Moves /\ [Next]_vars => Moves'
  BY DEF Next, vars
<1>3. Moves /\ Invs => TypeOK
  BY DEF TypeOK, AccountsInv, SessionsInv, VaultInv, SettingsInv, ResetsInv, TemplatesInv,
         TodosInv, SchedulesInv, BroadcastInv, CacheInv, NoticesInv, PatchesInv, BudgetInv,
         TestRunsInv, ConversationInv
<1> QED
  BY <1>1, <1>2, <1>3, AccountsInvariance, SessionsInvariance, VaultInvariance,
     SettingsInvariance, ResetsInvariance, TemplatesInvariance, TodosInvariance,
     SchedulesInvariance, BroadcastInvariance, CacheInvariance, NoticesInvariance,
     PatchesInvariance, BudgetInvariance, TestRunsInvariance, ConversationInvariance,
     PTL DEF Spec

=============================================================================
