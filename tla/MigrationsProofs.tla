--------------------------- MODULE MigrationsProofs -------------------------
(***************************************************************************)
(* Theorems of Migrations, for any number of runners and any set of tools: *)
(* the Migrator's own table always has its record, a recorded version has  *)
(* its table while no up and down have overlapped and no schema has been   *)
(* dropped, and run_migrations.sh succeeds with both tables there unless   *)
(* it was disturbed.                                                       *)
(*                                                                         *)
(* The argument is about the order of the statements: up creates a table   *)
(* immediately before its record, down drops it immediately before.  Job   *)
(* says so of what each runner has still to send, Changes and Paired say   *)
(* what has become of what it has sent.                                    *)
(***************************************************************************)
EXTENDS Migrations, Integers, SequenceTheorems, TLAPS

Versions == {"m1", "m2"}

MakesTable(s, v) == s.do = "create if not exists" /\ s.what = TableOf(v)
Records(s, v) == s.do = "create" /\ s.what = Record(v)
DropsTable(s, v) == s.do = "drop" /\ s.what = TableOf(v)
Unrecords(s, v) == s.do = "delete" /\ s.what = Record(v)

\* Which tool sends which statements.
Fits(tool, s) ==
  /\ s \in Statements
  /\ s.do \in {"drop", "delete"} <=> tool = "down"
  /\ s.do = "drop" => s.what \in {TableOf(v) : v \in Versions}
  /\ s.do = "delete" => s.what \in {Record(v) : v \in Versions}
  /\ s.do = "drop schema" => tool = "reset" /\ s.what \in {Schema(x) : x \in Schemas}
  /\ s.do = "create" => s.what \notin Tables
  /\ s.do = "create if not exists" => \A v \in Versions : s.what # Record(v)
  /\ s.do = "create" => \A v \in Versions : s.what = Record(v) => tool = "up"

\* t may be sent immediately after s.
Follows(s, t) ==
  /\ \A v \in Versions : Records(t, v) => MakesTable(s, v)
  /\ \A v \in Versions : Unrecords(t, v) => DropsTable(s, v)
  /\ MakesTable(s, "m2") => Records(t, "m2")
  /\ \A v \in Versions : DropsTable(s, v) => Unrecords(t, v)

MayEnd(s) == ~MakesTable(s, "m2") /\ \A v \in Versions : ~DropsTable(s, v)

\* What is left of a plan.
Job(tool, statements) ==
  \A k \in 1 .. Len(statements) :
    /\ Fits(tool, statements[k])
    /\ k < Len(statements) => Follows(statements[k], statements[k + 1])
    /\ k = Len(statements) => MayEnd(statements[k])

Jobs == \A r \in Runner : Job(running[r], todo[r])

\* The next statement records version v, or deletes its record.
ToRecord(statements, v) == statements # <<>> /\ Records(Head(statements), v)
ToUnrecord(statements, v) == statements # <<>> /\ Unrecords(Head(statements), v)

\* What a transaction has changed so far.
Changes ==
  \A r \in Runner :
    /\ gone[r] # {} => running[r] = "down"
    /\ running[r] = "down" => made[r] = {}
    /\ \A x \in gone[r] : x \in {TableOf(v) : v \in Versions} \cup {Record(v) : v \in Versions}
    /\ \A v \in Versions : Record(v) \in made[r] => running[r] = "up"
    /\ TableOf("m2") \in made[r] => Record("m2") \in made[r] \/ ToRecord(todo[r], "m2")
    /\ ToUnrecord(todo[r], "m2") \/ Record("m2") \in gone[r] => TableOf("m2") \in gone[r]

\* No up is under way while a down is.
Apart == \A q, r \in Runner : ~ (running[q] = "up" /\ running[r] = "down")

\* The table of what is being recorded is there, and the record of a table that is being
\* dropped is deleted with it.
Paired ==
  \A r \in Runner, v \in Versions :
    /\ Record(v) \in made[r] \/ ToRecord(todo[r], v) => TableOf(v) \in there \cup made[r]
    /\ TableOf(v) \in gone[r] /\ Record(v) \in there => Record(v) \in gone[r] \/ ToUnrecord(todo[r], v)

Inv ==
  /\ TypeOK /\ Jobs /\ Changes /\ ThereIsRecorded
  /\ ~crossed => Apart /\ Paired
  /\ RecordedIsThere
-----------------------------------------------------------------------------
(***************************************************************************)
(* Names and sequences.                                                    *)
(***************************************************************************)
LEMMA Names ==
  /\ \A v \in Versions : /\ TableOf(v) \in Tables /\ TableOf(v) \in Things
                         /\ Record(v) \in Things /\ Record(v) \notin Tables
                         /\ Record(v)[1] = "seaql_migrations"
                         /\ TableOf(v)[1] = "poc_for_sea_orm"
  /\ TableOf("m1") # TableOf("m2") /\ Record("m1") # Record("m2")
  /\ \A v, w \in Versions : TableOf(v) # Record(w)
  /\ \A s \in Schemas : /\ Schema(s) \in Things /\ Schema(s) \notin Tables
                        /\ Schema(s)[1] = s
                        /\ \A v \in Versions : Schema(s) # Record(v) /\ Schema(s) # TableOf(v)
<1>1. \A x \in Tables : x[1] \in Schemas /\ x[2] \in {"inventory", "orders", "order"}
  BY DEF Tables
<1>2. \A v \in Versions : /\ TableOf(v) \in Tables
                          /\ TableOf(v)[1] = "poc_for_sea_orm"
                          /\ TableOf(v)[2] = IF v = "m1" THEN "inventory" ELSE "order"
  BY DEF TableOf, Tables, Schemas, Versions
<1>3. \A v : Record(v)[1] = "seaql_migrations" /\ Record(v)[2] = v
  BY DEF Record
<1>4. \A s : Schema(s)[1] = s /\ Schema(s)[2] = "schema"
  BY DEF Schema
<1>5. Things = Tables \cup {Schema(s) : s \in Schemas} \cup {Record(v) : v \in Versions}
  BY DEF Things, Versions
<1>6. "seaql_migrations" \notin Schemas
  BY DEF Schemas
<1>7. \A v \in Versions : /\ TableOf(v) \in Things /\ Record(v) \in Things
                          /\ Record(v) \notin Tables
  BY <1>1, <1>2, <1>3, <1>5, <1>6
<1>8. TableOf("m1")[2] # TableOf("m2")[2] /\ Record("m1")[2] # Record("m2")[2]
  BY <1>2, <1>3 DEF Versions
<1>9. \A v, w \in Versions : TableOf(v)[1] # Record(w)[1]
  BY <1>2, <1>3
<1>10. \A s \in Schemas : Schema(s) \in Things /\ Schema(s) \notin Tables
  BY <1>1, <1>4, <1>5
<1>11. \A s \in Schemas, v \in Versions : Schema(s) # Record(v) /\ Schema(s) # TableOf(v)
  BY <1>2, <1>3, <1>4, <1>6, <1>10
<1>12. QED
  BY <1>2, <1>3, <1>4, <1>7, <1>8, <1>9, <1>10, <1>11

LEMMA Concatenated ==
  ASSUME NEW S, NEW s \in Seq(S), NEW t \in Seq(S), NEW w \in Seq(S),
         Len(w) = Len(s) + Len(t),
         \A i \in 1 .. Len(s) : w[i] = s[i],
         \A i \in 1 .. Len(t) : w[Len(s) + i] = t[i]
  PROVE  s \o t = w
<1> DEFINE x == s \o t
<1>1. /\ x \in Seq(S) /\ Len(x) = Len(s) + Len(t)
      /\ \A i \in 1 .. Len(s) + Len(t) : x[i] = IF i <= Len(s) THEN s[i] ELSE t[i - Len(s)]
  BY ConcatProperties
<1> HIDE DEF x
<1>2. Len(s) \in Nat /\ Len(t) \in Nat
  BY LenProperties
<1>3. \A i \in 1 .. Len(x) : x[i] = w[i]
  <2> SUFFICES ASSUME NEW i \in 1 .. Len(x) PROVE x[i] = w[i]
    OBVIOUS
  <2>1. CASE i <= Len(s)
    BY <1>1, <1>2, <2>1
  <2>2. CASE i > Len(s)
    <3>1. PICK j \in 1 .. Len(t) : j = i - Len(s) /\ Len(s) + j = i
      BY <1>1, <1>2, <2>2
    <3>2. x[i] = t[j]
      BY <1>1, <1>2, <2>2, <3>1
    <3>3. w[Len(s) + j] = t[j]
      BY <3>1
    <3>4. QED
      BY <3>1, <3>2, <3>3
  <2>3. QED
    BY <1>1, <1>2, <2>1, <2>2
<1>4. x = w
  BY <1>1, <1>3, SeqEqual
<1>5. QED
  BY <1>4 DEF x

LEMMA OneAndTwo ==
  ASSUME NEW a, NEW b, NEW c
  PROVE  <<a>> \o <<b, c>> = <<a, b, c>>
<1> DEFINE S == {a, b, c}
           s == <<a>>
           t == <<b, c>>
           w == <<a, b, c>>
<1>1. s \in Seq(S) /\ t \in Seq(S) /\ w \in Seq(S)
  OBVIOUS
<1>2. Len(s) = 1 /\ Len(t) = 2 /\ Len(w) = 3
  OBVIOUS
<1>3. s[1] = a /\ t[1] = b /\ t[2] = c /\ w[1] = a /\ w[2] = b /\ w[3] = c
  OBVIOUS
<1> HIDE DEF s, t, w, S
<1>4. Len(w) = Len(s) + Len(t)
  BY <1>2
<1>5. \A i \in 1 .. Len(s) : w[i] = s[i]
  BY <1>2, <1>3
<1>6. \A i \in 1 .. Len(t) : w[Len(s) + i] = t[i]
  BY <1>2, <1>3
<1>7. s \o t = w
  BY <1>1, <1>4, <1>5, <1>6, Concatenated
<1>8. QED
  BY <1>7 DEF s, t, w

LEMMA ThreeAndTwo ==
  ASSUME NEW a, NEW b, NEW c, NEW d, NEW e
  PROVE  <<a, b, c>> \o <<d, e>> = <<a, b, c, d, e>>
<1> DEFINE S == {a, b, c, d, e}
           s == <<a, b, c>>
           t == <<d, e>>
           w == <<a, b, c, d, e>>
<1>1. s \in Seq(S) /\ t \in Seq(S) /\ w \in Seq(S)
  OBVIOUS
<1>2. Len(s) = 3 /\ Len(t) = 2 /\ Len(w) = 5
  OBVIOUS
<1>3. /\ s[1] = a /\ s[2] = b /\ s[3] = c /\ t[1] = d /\ t[2] = e
      /\ w[1] = a /\ w[2] = b /\ w[3] = c /\ w[4] = d /\ w[5] = e
  OBVIOUS
<1> HIDE DEF s, t, w, S
<1>4. Len(w) = Len(s) + Len(t)
  BY <1>2
<1>5. \A i \in 1 .. Len(s) : w[i] = s[i]
  BY <1>2, <1>3
<1>6. \A i \in 1 .. Len(t) : w[Len(s) + i] = t[i]
  BY <1>2, <1>3
<1>7. s \o t = w
  BY <1>1, <1>4, <1>5, <1>6, Concatenated
<1>8. QED
  BY <1>7 DEF s, t, w

LEMMA Two ==
  ASSUME NEW tool, NEW a, NEW b, Fits(tool, a), Fits(tool, b), Follows(a, b), MayEnd(b)
  PROVE  <<a, b>> \in Seq(Statements) /\ Job(tool, <<a, b>>) /\ Head(<<a, b>>) = a
<1>1. a \in Statements /\ b \in Statements
  BY DEF Fits
<1>2. <<a, b>> \in Seq(Statements) /\ Head(<<a, b>>) = a
  BY <1>1
<1>3. Len(<<a, b>>) = 2 /\ <<a, b>>[1] = a /\ <<a, b>>[2] = b
  OBVIOUS
<1>4. QED
  BY <1>2, <1>3 DEF Job

LEMMA Three ==
  ASSUME NEW tool, NEW a, NEW b, NEW c, Fits(tool, a), Fits(tool, b), Fits(tool, c),
         Follows(a, b), Follows(b, c), MayEnd(c)
  PROVE  <<a, b, c>> \in Seq(Statements) /\ Job(tool, <<a, b, c>>) /\ Head(<<a, b, c>>) = a
<1>1. a \in Statements /\ b \in Statements /\ c \in Statements
  BY DEF Fits
<1>2. <<a, b, c>> \in Seq(Statements) /\ Head(<<a, b, c>>) = a
  BY <1>1
<1>3. /\ Len(<<a, b, c>>) = 3
      /\ <<a, b, c>>[1] = a /\ <<a, b, c>>[2] = b /\ <<a, b, c>>[3] = c
  OBVIOUS
<1> DEFINE s == <<a, b, c>>
<1> HIDE DEF s
<1>4. Job(tool, s)
  BY <1>3 DEF Job, s
<1>5. QED
  BY <1>2, <1>4 DEF s

LEMMA Four ==
  ASSUME NEW tool, NEW a, NEW b, NEW c, NEW d,
         Fits(tool, a), Fits(tool, b), Fits(tool, c), Fits(tool, d),
         Follows(a, b), Follows(b, c), Follows(c, d), MayEnd(d)
  PROVE  /\ <<a, b, c, d>> \in Seq(Statements) /\ Job(tool, <<a, b, c, d>>)
         /\ Head(<<a, b, c, d>>) = a
<1>1. a \in Statements /\ b \in Statements /\ c \in Statements /\ d \in Statements
  BY DEF Fits
<1>2. <<a, b, c, d>> \in Seq(Statements) /\ Head(<<a, b, c, d>>) = a
  BY <1>1
<1> DEFINE s == <<a, b, c, d>>
<1>3. Len(s) = 4 /\ s[1] = a /\ s[2] = b /\ s[3] = c /\ s[4] = d
  OBVIOUS
<1> HIDE DEF s
<1>4. Job(tool, s)
  BY <1>3 DEF Job
<1>5. QED
  BY <1>2, <1>4 DEF s

LEMMA Five ==
  ASSUME NEW tool, NEW a, NEW b, NEW c, NEW d, NEW e,
         Fits(tool, a), Fits(tool, b), Fits(tool, c), Fits(tool, d), Fits(tool, e),
         Follows(a, b), Follows(b, c), Follows(c, d), Follows(d, e), MayEnd(e)
  PROVE  /\ <<a, b, c, d, e>> \in Seq(Statements) /\ Job(tool, <<a, b, c, d, e>>)
         /\ Head(<<a, b, c, d, e>>) = a
<1>1. a \in Statements /\ b \in Statements /\ c \in Statements /\ d \in Statements
      /\ e \in Statements
  BY DEF Fits
<1>2. <<a, b, c, d, e>> \in Seq(Statements) /\ Head(<<a, b, c, d, e>>) = a
  BY <1>1
<1> DEFINE s == <<a, b, c, d, e>>
<1>3. Len(s) = 5 /\ s[1] = a /\ s[2] = b /\ s[3] = c /\ s[4] = d /\ s[5] = e
  OBVIOUS
<1> HIDE DEF s
<1>4. Job(tool, s)
  BY <1>3 DEF Job
<1>5. QED
  BY <1>2, <1>4 DEF s

LEMMA Nothing == <<>> \in Seq(Statements) /\ \A tool : Job(tool, <<>>)
<1>1. <<>> \in Seq(Statements) /\ Len(<<>>) = 0
  OBVIOUS
<1>2. QED
  BY <1>1 DEF Job

\* What is left of a job when its first statement has been sent.
LEMMA Tails ==
  ASSUME NEW tool, NEW s \in Seq(Statements), s # <<>>, Job(tool, s)
  PROVE  /\ Head(s) \in Statements /\ Fits(tool, Head(s))
         /\ Tail(s) \in Seq(Statements) /\ Job(tool, Tail(s))
         /\ Tail(s) # <<>> => Follows(Head(s), Head(Tail(s)))
         /\ Tail(s) = <<>> => MayEnd(Head(s))
<1> DEFINE t == Tail(s)
<1>1. /\ Head(s) \in Statements /\ Head(s) = s[1]
      /\ t \in Seq(Statements) /\ Len(t) = Len(s) - 1
      /\ \A k \in 1 .. Len(t) : t[k] = s[k + 1]
  BY HeadTailProperties
<1> HIDE DEF t
<1>2. Len(s) \in Nat /\ Len(t) \in Nat
  BY <1>1, LenProperties
<1>3. t # <<>> => Len(t) > 0 /\ Head(t) = t[1]
  BY <1>1, <1>2, EmptySeq
<1>4. t = <<>> => Len(t) = 0
  BY <1>1, EmptySeq
<1>5. \A k \in 1 .. Len(t) : Fits(tool, t[k])
  BY <1>1, <1>2 DEF Job
<1>6. \A k \in 1 .. Len(t) : k < Len(t) => Follows(t[k], t[k + 1])
  <2> SUFFICES ASSUME NEW k \in 1 .. Len(t), k < Len(t) PROVE Follows(t[k], t[k + 1])
    OBVIOUS
  <2>1. /\ k + 1 \in 1 .. Len(t) /\ k + 1 \in 1 .. Len(s) /\ k + 1 < Len(s)
    BY <1>1, <1>2
  <2>2. Follows(s[k + 1], s[(k + 1) + 1])
    BY <2>1 DEF Job
  <2>3. QED
    BY <1>1, <2>1, <2>2
<1>7. \A k \in 1 .. Len(t) : k = Len(t) => MayEnd(t[k])
  <2> SUFFICES ASSUME NEW k \in 1 .. Len(t), k = Len(t) PROVE MayEnd(t[k])
    OBVIOUS
  <2>1. k + 1 \in 1 .. Len(s) /\ k + 1 = Len(s)
    BY <1>1, <1>2
  <2>2. MayEnd(s[k + 1])
    BY <2>1 DEF Job
  <2>3. QED
    BY <1>1, <2>2
<1>8. Job(tool, t)
  BY <1>5, <1>6, <1>7 DEF Job
<1>9. 1 \in 1 .. Len(s)
  BY <1>1, <1>2
<1>10. Fits(tool, s[1]) /\ (1 < Len(s) => Follows(s[1], s[1 + 1])) /\ (1 = Len(s) => MayEnd(s[1]))
  BY <1>9 DEF Job
<1>11. t # <<>> => Follows(s[1], Head(t))
  <2>1. Len(t) > 0 => 1 < Len(s) /\ t[1] = s[1 + 1]
    BY <1>1, <1>2
  <2>2. QED
    BY <1>3, <1>10, <2>1
<1>12. t = <<>> => MayEnd(s[1])
  BY <1>1, <1>2, <1>4, <1>10
<1>13. QED
  BY <1>1, <1>8, <1>10, <1>11, <1>12 DEF t
-----------------------------------------------------------------------------
(***************************************************************************)
(* Every plan is a job, and none begins with a record.                     *)
(***************************************************************************)
Opens(s) == \A v \in Versions : ~Records(s, v) /\ ~Unrecords(s, v)

LEMMA Kinds ==
  /\ \A x : /\ Create(x).do = "create" /\ Create(x).what = x
            /\ CreateIfNotExists(x).do = "create if not exists" /\ CreateIfNotExists(x).what = x
            /\ Drop(x).do = "drop" /\ Drop(x).what = x
            /\ Delete(x).do = "delete" /\ Delete(x).what = x
  /\ \A x \in Things : /\ Create(x) \in Statements /\ CreateIfNotExists(x) \in Statements
                       /\ Drop(x) \in Statements /\ Delete(x) \in Statements
  /\ \A s : DropSchema(s).do = "drop schema" /\ DropSchema(s).what = Schema(s)
  /\ \A s \in Schemas : DropSchema(s) \in Statements
<1>1. \A s \in Schemas : Schema(s) \in Things
  BY Names
<1>2. QED
  BY <1>1 DEF Create, CreateIfNotExists, Drop, Delete, DropSchema, Statements

LEMMA TableFits ==
  ASSUME NEW tool, tool # "down", NEW x \in Tables
  PROVE  /\ Fits(tool, CreateIfNotExists(x)) /\ Opens(CreateIfNotExists(x))
         /\ x # TableOf("m2") => MayEnd(CreateIfNotExists(x))
<1>1. x \in Things /\ \A v \in Versions : x # Record(v)
  BY Names DEF Things
<1> DEFINE s == CreateIfNotExists(x)
<1>2. s \in Statements /\ s.do = "create if not exists" /\ s.what = x
  BY <1>1, Kinds
<1> HIDE DEF s
<1>3. QED
  BY <1>1, <1>2 DEF Fits, Opens, MayEnd, Records, Unrecords, MakesTable, DropsTable, s

LEMMA SchemaFits ==
  ASSUME NEW tool, tool # "down", NEW x \in Schemas
  PROVE  /\ Fits(tool, CreateIfNotExists(Schema(x))) /\ Opens(CreateIfNotExists(Schema(x)))
         /\ MayEnd(CreateIfNotExists(Schema(x)))
         /\ Fits(tool, Create(Schema(x))) /\ Opens(Create(Schema(x))) /\ MayEnd(Create(Schema(x)))
         /\ tool = "reset" => Fits(tool, DropSchema(x))
         /\ Opens(DropSchema(x)) /\ MayEnd(DropSchema(x))
<1>1. /\ Schema(x) \in Things /\ Schema(x) \notin Tables
      /\ \A v \in Versions : Schema(x) # Record(v) /\ Schema(x) # TableOf(v)
      /\ "m2" \in Versions
  BY Names DEF Versions
<1> DEFINE s == CreateIfNotExists(Schema(x))
           c == Create(Schema(x))
           d == DropSchema(x)
<1>2. /\ s \in Statements /\ s.do = "create if not exists" /\ s.what = Schema(x)
      /\ c \in Statements /\ c.do = "create" /\ c.what = Schema(x)
      /\ d \in Statements /\ d.do = "drop schema" /\ d.what = Schema(x)
  BY <1>1, Kinds
<1> HIDE DEF s, c, d
<1>3. Fits(tool, s) /\ Opens(s) /\ MayEnd(s)
  BY <1>1, <1>2 DEF Fits, Opens, MayEnd, Records, Unrecords, MakesTable, DropsTable
<1>4. Fits(tool, c) /\ Opens(c) /\ MayEnd(c)
  BY <1>1, <1>2 DEF Fits, Opens, MayEnd, Records, Unrecords, MakesTable, DropsTable
<1>5. (tool = "reset" => Fits(tool, d)) /\ Opens(d) /\ MayEnd(d)
  BY <1>1, <1>2 DEF Fits, Opens, MayEnd, Records, Unrecords, MakesTable, DropsTable
<1>6. QED
  BY <1>3, <1>4, <1>5 DEF s, c, d

\* The statements of one version.
LEMMA VersionFits ==
  ASSUME NEW v \in Versions
  PROVE  /\ Fits("up", Create(Record(v))) /\ MayEnd(Create(Record(v)))
         /\ Follows(CreateIfNotExists(TableOf(v)), Create(Record(v)))
         /\ Fits("down", Drop(TableOf(v))) /\ Opens(Drop(TableOf(v)))
         /\ Fits("down", Delete(Record(v))) /\ MayEnd(Delete(Record(v)))
         /\ Follows(Drop(TableOf(v)), Delete(Record(v)))
<1>1. /\ \A w \in Versions : /\ TableOf(w) \in Things /\ Record(w) \in Things
                             /\ Record(w) \notin Tables
      /\ \A w, u \in Versions : /\ TableOf(w) # Record(u)
                                /\ TableOf(w) = TableOf(u) <=> w = u
                                /\ Record(w) = Record(u) <=> w = u
      /\ "m2" \in Versions
  BY Names DEF Versions
<1> DEFINE a == CreateIfNotExists(TableOf(v))
           b == Create(Record(v))
           c == Drop(TableOf(v))
           d == Delete(Record(v))
<1>2. /\ a \in Statements /\ a.do = "create if not exists" /\ a.what = TableOf(v)
      /\ b \in Statements /\ b.do = "create" /\ b.what = Record(v)
      /\ c \in Statements /\ c.do = "drop" /\ c.what = TableOf(v)
      /\ d \in Statements /\ d.do = "delete" /\ d.what = Record(v)
  BY <1>1, Kinds
<1> HIDE DEF a, b, c, d
<1>3. Fits("up", b) /\ MayEnd(b)
  BY <1>1, <1>2 DEF Fits, MayEnd, MakesTable, DropsTable
<1>5. Follows(a, b)
  <2>1. \A w \in Versions : MakesTable(a, w) <=> w = v
    <3>1. \A w \in Versions : TableOf(v) = TableOf(w) <=> w = v
      BY <1>1
    <3>2. QED
      BY <1>2, <3>1 DEF MakesTable
  <2>2. \A w \in Versions : Records(b, w) <=> w = v
    <3>1. \A w \in Versions : Record(v) = Record(w) <=> w = v
      BY <1>1
    <3>2. QED
      BY <1>2, <3>1 DEF Records
  <2>3. \A w \in Versions : ~Unrecords(b, w) /\ ~DropsTable(a, w)
    BY <1>2 DEF Unrecords, DropsTable
  <2>4. QED
    BY <1>1, <2>1, <2>2, <2>3 DEF Follows
<1>4. Fits("down", c) /\ Opens(c) /\ Fits("down", d) /\ MayEnd(d)
  BY <1>1, <1>2 DEF Fits, MayEnd, Opens, Records, Unrecords, MakesTable, DropsTable
<1>6. Follows(c, d)
  <2>1. \A w \in Versions : DropsTable(c, w) <=> w = v
    <3>1. \A w \in Versions : TableOf(v) = TableOf(w) <=> w = v
      BY <1>1
    <3>2. QED
      BY <1>2, <3>1 DEF DropsTable
  <2>2. \A w \in Versions : Unrecords(d, w) <=> w = v
    <3>1. \A w \in Versions : Record(v) = Record(w) <=> w = v
      BY <1>1
    <3>2. QED
      BY <1>2, <3>1 DEF Unrecords
  <2>3. \A w \in Versions : ~Records(d, w) /\ ~MakesTable(c, w)
    BY <1>2 DEF Records, MakesTable
  <2>4. QED
    BY <1>1, <2>1, <2>2, <2>3 DEF Follows
<1>7. QED
  BY <1>3, <1>4, <1>5, <1>6 DEF a, b, c, d

LEMMA Unpaired ==
  ASSUME NEW s, NEW t, MayEnd(s), Opens(t)
  PROVE  Follows(s, t)
BY DEF MayEnd, Opens, Follows

LEMMA PlansFit ==
  ASSUME NEW tool \in Tools, NEW plan \in Plans(tool)
  PROVE  /\ plan \in Seq(Statements) /\ Job(tool, plan)
         /\ plan # <<>> => Opens(Head(plan))
<1> DEFINE Good(p) == p \in Seq(Statements) /\ Job(tool, p) /\ (p # <<>> => Opens(Head(p)))
<1>1. "poc_for_sqlx" \in Schemas /\ "poc_for_sea_orm" \in Schemas
  BY DEF Schemas
<1>2. Schemas \X {"inventory", "orders"} \subseteq Tables
  BY DEF Tables
<1>3. /\ <<"poc_for_sqlx", "inventory">> \in Tables /\ <<"poc_for_sqlx", "orders">> \in Tables
      /\ <<"poc_for_sea_orm", "inventory">> \in Tables
      /\ <<"poc_for_sea_orm", "orders">> \in Tables
  BY <1>1, <1>2
<1>4. /\ <<"poc_for_sqlx", "inventory">> # TableOf("m2")
      /\ <<"poc_for_sqlx", "orders">> # TableOf("m2")
      /\ <<"poc_for_sea_orm", "inventory">> # TableOf("m2")
      /\ <<"poc_for_sea_orm", "orders">> # TableOf("m2")
  BY DEF TableOf
<1>5. Good(<<>>)
  BY Nothing
<1> DEFINE a == CreateIfNotExists(<<"poc_for_sqlx", "inventory">>)
           b == CreateIfNotExists(<<"poc_for_sqlx", "orders">>)
           c == CreateIfNotExists(<<"poc_for_sea_orm", "inventory">>)
           d == CreateIfNotExists(<<"poc_for_sea_orm", "orders">>)
<1>6. ASSUME tool # "down"
      PROVE  /\ Fits(tool, a) /\ Opens(a) /\ MayEnd(a) /\ Fits(tool, b) /\ Opens(b) /\ MayEnd(b)
             /\ Fits(tool, c) /\ Opens(c) /\ MayEnd(c) /\ Fits(tool, d) /\ Opens(d) /\ MayEnd(d)
  BY <1>3, <1>4, <1>6, TableFits
<1> HIDE DEF a, b, c, d, Good
<1>7. CASE tool = "script"
  <2> DEFINE z == CreateIfNotExists(Schema("poc_for_sqlx"))
  <2>1. Fits(tool, z) /\ Opens(z) /\ MayEnd(z)
    BY <1>1, <1>7, SchemaFits
  <2>2. Files = <<z, a, b>>
    BY DEF Files, a, b
  <2> HIDE DEF z
  <2>3. Good(<<z, a, b>>)
    BY <1>6, <1>7, <2>1, Three, Unpaired DEF Good
  <2>4. plan = <<>> \/ plan = Files
    BY <1>7 DEF Plans
  <2>5. QED
    BY <1>5, <2>2, <2>3, <2>4 DEF Good
<1>8. CASE tool = "make"
  <2>1. plan = <<a, b, c, d>>
    BY <1>8 DEF Plans, MakeTables, a, b, c, d
  <2>2. Good(<<a, b, c, d>>)
    BY <1>6, <1>8, Four, Unpaired DEF Good
  <2>3. QED
    BY <2>1, <2>2 DEF Good
<1>9. CASE tool = "reset"
  <2> DEFINE e == DropSchema("poc_for_sea_orm")
             f == DropSchema("poc_for_sqlx")
             g == Create(Schema("poc_for_sea_orm"))
             h == Create(Schema("poc_for_sqlx"))
  <2>1. plan = <<e, f, g, h>>
    BY <1>9 DEF Plans, DbReset
  <2>2. /\ Fits(tool, e) /\ Opens(e) /\ MayEnd(e) /\ Fits(tool, f) /\ Opens(f) /\ MayEnd(f)
        /\ Fits(tool, g) /\ Opens(g) /\ MayEnd(g) /\ Fits(tool, h) /\ Opens(h) /\ MayEnd(h)
    BY <1>1, <1>9, SchemaFits
  <2> HIDE DEF e, f, g, h
  <2>3. Good(<<e, f, g, h>>)
    BY <2>2, Four, Unpaired DEF Good
  <2>4. QED
    BY <2>1, <2>3 DEF Good
<1>10. "m1" \in Versions /\ "m2" \in Versions
  BY DEF Versions
<1>11. CASE tool = "up"
  <2> DEFINE z == CreateIfNotExists(Schema("poc_for_sea_orm"))
             t1 == CreateIfNotExists(TableOf("m1"))
             r1 == Create(Record("m1"))
             t2 == CreateIfNotExists(TableOf("m2"))
             r2 == Create(Record("m2"))
  <2>1. /\ Fits(tool, z) /\ Opens(z) /\ MayEnd(z)
        /\ Fits(tool, t1) /\ Opens(t1) /\ Fits(tool, t2) /\ Opens(t2)
    <3>1. TableOf("m1") \in Tables /\ TableOf("m2") \in Tables
      BY <1>10, Names
    <3>2. QED
      BY <1>1, <1>11, <3>1, SchemaFits, TableFits
  <2>2. /\ Fits(tool, r1) /\ MayEnd(r1) /\ Follows(t1, r1)
        /\ Fits(tool, r2) /\ MayEnd(r2) /\ Follows(t2, r2)
    BY <1>10, <1>11, VersionFits
  <2>3. Up("m1") = <<z, t1, r1>> /\ Up("m2") = <<t2, r2>>
    <3>1. <<t2, r2>> \in Seq({t2, r2})
      OBVIOUS
    <3>2. <<z>> \o <<t1, r1>> = <<z, t1, r1>> /\ <<>> \o <<t2, r2>> = <<t2, r2>>
      BY <3>1, OneAndTwo, ConcatEmptySeq
    <3>3. QED
      BY <3>2 DEF Up
  <2>4. plan = (IF Applied("m1") THEN <<>> ELSE Up("m1")) \o (IF Applied("m2") THEN <<>> ELSE Up("m2"))
    BY <1>11 DEF Plans, Migrate
  <2> HIDE DEF z, t1, r1, t2, r2
  <2>5. /\ <<z, t1, r1>> \o <<t2, r2>> = <<z, t1, r1, t2, r2>>
        /\ <<z, t1, r1>> \o <<>> = <<z, t1, r1>>
        /\ <<>> \o <<t2, r2>> = <<t2, r2>>
        /\ <<>> \o <<>> = <<>>
    <3>1. <<z, t1, r1>> \o <<t2, r2>> = <<z, t1, r1, t2, r2>>
      BY ThreeAndTwo, Zenon
    <3>2. /\ <<z, t1, r1>> \in Seq({z, t1, r1, t2, r2}) /\ <<t2, r2>> \in Seq({z, t1, r1, t2, r2})
          /\ <<>> \in Seq({z, t1, r1, t2, r2})
      OBVIOUS
    <3>3. QED
      BY <3>1, <3>2, ConcatEmptySeq
  <2>6. plan \in {<<>>, <<z, t1, r1>>, <<t2, r2>>, <<z, t1, r1, t2, r2>>}
    BY <2>3, <2>4, <2>5
  <2>7. Good(<<t2, r2>>)
    BY <2>1, <2>2, Two DEF Good
  <2>8. Good(<<z, t1, r1>>)
    BY <2>1, <2>2, Three, Unpaired DEF Good
  <2>9. Good(<<z, t1, r1, t2, r2>>)
    BY <2>1, <2>2, Five, Unpaired DEF Good
  <2>10. QED
    BY <1>5, <2>6, <2>7, <2>8, <2>9 DEF Good
<1>12. CASE tool = "down"
  <2>1. \A v \in Versions : Good(Down(v))
    BY <1>12, VersionFits, Two DEF Good, Down
  <2>2. plan \in {<<>>, Down("m1"), Down("m2")}
    BY <1>12 DEF Plans, Migrate
  <2>3. QED
    BY <1>5, <1>10, <2>1, <2>2 DEF Good
<1>13. QED
  BY <1>7, <1>8, <1>9, <1>11, <1>12, MigrationsAssumption
-----------------------------------------------------------------------------
(***************************************************************************)
(* One lemma for each thing a runner does.                                 *)
(***************************************************************************)
\* The first statement of what is left, and what is left after it.
LEMMA First ==
  ASSUME TypeOK, Jobs, NEW r \in Runner, todo[r] # <<>>
  PROVE  /\ Head(todo[r]) \in Statements /\ Fits(running[r], Head(todo[r]))
         /\ Tail(todo[r]) \in Seq(Statements) /\ Job(running[r], Tail(todo[r]))
         /\ Tail(todo[r]) # <<>> => Follows(Head(todo[r]), Head(Tail(todo[r])))
         /\ Tail(todo[r]) = <<>> => MayEnd(Head(todo[r]))
<1>1. todo[r] \in Seq(Statements) /\ Job(running[r], todo[r])
  BY DEF TypeOK, Jobs
<1>2. QED
  BY <1>1, Tails

\* Only up records a version, only down deletes a record.
LEMMA Owners ==
  ASSUME TypeOK, Jobs, NEW r \in Runner, NEW v \in Versions
  PROVE  /\ ToRecord(todo[r], v) => running[r] = "up"
         /\ ToUnrecord(todo[r], v) => running[r] = "down"
BY First DEF ToRecord, ToUnrecord, Records, Unrecords, Fits

LEMMA InitInv == Init => Inv
<1> SUFFICES ASSUME Init PROVE Inv
  OBVIOUS
<1>1. TypeOK
  BY Nothing, Names DEF Init, TypeOK
<1>2. Jobs
  BY Nothing DEF Init, Jobs
<1>3. Changes /\ Apart /\ Paired
  BY DEF Init, Changes, Apart, Paired, ToRecord, ToUnrecord
<1>4. \A v \in Versions : Record(v) \notin there /\ TableOf(v) \notin there
  BY Names DEF Init
<1>5. ThereIsRecorded /\ RecordedIsThere
  BY <1>4 DEF ThereIsRecorded, RecordedIsThere, Applied, Versions
<1>6. QED
  BY <1>1, <1>2, <1>3, <1>5 DEF Inv

\* A tool ends, and has committed what it has changed or has not.
LEMMA Ended ==
  ASSUME Inv, NEW r \in Runner, NEW how \in {"ok", "err"}, Ends(r, how),
         UNCHANGED there \/ (todo[r] = <<>> /\ Commits(r))
  PROVE  Inv'
<1> USE DEF Inv
<1>1. \A q \in Runner : /\ running'[q] = IF q = r THEN "none" ELSE running[q]
                        /\ todo'[q] = IF q = r THEN <<>> ELSE todo[q]
                        /\ made'[q] = IF q = r THEN {} ELSE made[q]
                        /\ gone'[q] = IF q = r THEN {} ELSE gone[q]
  BY DEF Ends, TypeOK
<1>2. crossed' = crossed /\ disturbed' = disturbed \ {r}
  BY DEF Ends
<1>3. TypeOK'
  <2>1. there' \subseteq Things
    BY DEF TypeOK, Commits
  <2>2. /\ running' \in [Runner -> Tools \cup {"none"}]
        /\ todo' \in [Runner -> Seq(Statements)]
        /\ made' \in [Runner -> SUBSET Things] /\ gone' \in [Runner -> SUBSET Things]
        /\ exit' \in [Runner -> {"none", "ok", "err"}]
    BY Nothing DEF Ends, TypeOK
  <2>3. \A q \in Runner :
          /\ running'[q] = "none" => todo'[q] = <<>> /\ q \notin disturbed'
          /\ running'[q] \notin Transactional => made'[q] = {} /\ gone'[q] = {}
    BY <1>1, <1>2 DEF TypeOK
  <2>4. QED
    BY <1>2, <2>1, <2>2, <2>3 DEF TypeOK
<1>4. Jobs'
  BY <1>1, Nothing DEF Jobs
<1>5. \A q \in Runner, v \in Versions :
        /\ ToRecord(todo'[q], v) => q # r /\ ToRecord(todo[q], v)
        /\ ToUnrecord(todo'[q], v) => q # r /\ ToUnrecord(todo[q], v)
        /\ q # r => (ToRecord(todo[q], v) => ToRecord(todo'[q], v)) /\ (ToUnrecord(todo[q], v) => ToUnrecord(todo'[q], v))
  BY <1>1 DEF ToRecord, ToUnrecord
<1>6. "m1" \in Versions /\ "m2" \in Versions
  BY DEF Versions
<1>7. Changes'
  BY <1>1, <1>5, <1>6 DEF Changes
<1>8. Apart => Apart'
  BY <1>1 DEF Apart
<1>9. CASE UNCHANGED there
  <2>1. Paired => Paired'
    BY <1>1, <1>5, <1>9 DEF Paired
  <2>2. QED
    BY <1>2, <1>3, <1>4, <1>7, <1>8, <1>9, <2>1 DEF ThereIsRecorded, RecordedIsThere, Applied
<1>10. CASE todo[r] = <<>> /\ Commits(r)
  <2>1. there' = (there \ gone[r]) \cup made[r]
    BY <1>10 DEF Commits
  <2>2. \A v \in Versions : ~ToRecord(todo[r], v) /\ ~ToUnrecord(todo[r], v)
    BY <1>10 DEF ToRecord, ToUnrecord
  <2>3. ThereIsRecorded'
    <3>1. TableOf("m2") \in made[r] => Record("m2") \in made[r]
      BY <1>6, <2>2 DEF Changes
    <3>2. Record("m2") \in gone[r] => TableOf("m2") \in gone[r]
      BY DEF Changes
    <3>3. QED
      BY <2>1, <3>1, <3>2 DEF ThereIsRecorded, Applied
  <2>4. ASSUME Apart, Paired PROVE Paired'
    <3> SUFFICES ASSUME NEW q \in Runner, q # r, NEW v \in Versions
                 PROVE  /\ Record(v) \in made[q] \/ ToRecord(todo[q], v) => TableOf(v) \in there' \cup made[q]
                        /\ TableOf(v) \in gone[q] /\ Record(v) \in there'
                             => Record(v) \in gone[q] \/ ToUnrecord(todo[q], v)
      BY <1>1, <1>5 DEF Paired
    <3>1. ASSUME Record(v) \in made[q] \/ ToRecord(todo[q], v)
          PROVE  TableOf(v) \in there' \cup made[q]
      <4>1. running[q] = "up"
        BY <3>1, Owners DEF Changes
      <4>2. TableOf(v) \notin gone[r]
        BY <2>4, <4>1 DEF Changes, Apart
      <4>3. QED
        BY <2>1, <2>4, <3>1, <4>2 DEF Paired
    <3>2. ASSUME TableOf(v) \in gone[q], Record(v) \in there'
          PROVE  Record(v) \in gone[q] \/ ToUnrecord(todo[q], v)
      <4>1. running[q] = "down"
        BY <3>2 DEF Changes
      <4>2. Record(v) \notin made[r]
        BY <2>4, <4>1 DEF Changes, Apart
      <4>3. QED
        BY <2>1, <2>4, <3>2, <4>2 DEF Paired
    <3>3. QED
      BY <3>1, <3>2
  <2>5. ASSUME ~crossed PROVE RecordedIsThere'
    <3> SUFFICES ASSUME NEW v \in Versions, Record(v) \in there' PROVE TableOf(v) \in there'
      BY DEF RecordedIsThere, Applied, Versions
    <3>1. CASE Record(v) \in made[r]
      <4>1. running[r] = "up" /\ gone[r] = {}
        BY <3>1 DEF Changes
      <4>2. TableOf(v) \in there \cup made[r]
        BY <2>5, <3>1 DEF Paired
      <4>3. QED
        BY <2>1, <4>1, <4>2
    <3>2. CASE Record(v) \in there /\ Record(v) \notin gone[r]
      <4>1. TableOf(v) \in there
        BY <2>5, <3>2 DEF RecordedIsThere, Applied, Versions
      <4>2. TableOf(v) \notin gone[r]
        BY <2>2, <2>5, <3>2 DEF Paired
      <4>3. QED
        BY <2>1, <4>1, <4>2
    <3>3. QED
      BY <2>1, <3>1, <3>2
  <2>6. crossed => RecordedIsThere'
    BY <1>2 DEF RecordedIsThere
  <2>7. QED
    BY <1>2, <1>3, <1>4, <1>7, <1>8, <2>3, <2>4, <2>5, <2>6
<1>11. QED
  BY <1>9, <1>10

\* A tool starts: its plan does not begin with a record.
LEMMA Started ==
  ASSUME Inv, NEW r \in Runner, NEW tool \in Tools, Start(r, tool)
  PROVE  Inv'
<1> USE DEF Inv
<1>1. PICK plan \in Plans(tool) :
        /\ todo' = [todo EXCEPT ![r] = plan]
        /\ disturbed' = IF tool = "script" /\ plan = <<>> THEN disturbed \cup {r} ELSE disturbed
  BY DEF Start
<1>2. /\ plan \in Seq(Statements) /\ Job(tool, plan)
      /\ plan # <<>> => Opens(Head(plan))
  BY PlansFit
<1>3. \A q \in Runner : /\ running'[q] = IF q = r THEN tool ELSE running[q]
                        /\ todo'[q] = IF q = r THEN plan ELSE todo[q]
  BY <1>1 DEF Start, TypeOK
<1>4. /\ running[r] = "none" /\ made[r] = {} /\ gone[r] = {}
      /\ UNCHANGED <<there, made, gone>>
  BY DEF Start, TypeOK, Transactional
<1>5. TypeOK'
  <2>1. /\ running' \in [Runner -> Tools \cup {"none"}]
        /\ todo' \in [Runner -> Seq(Statements)]
        /\ exit' \in [Runner -> {"none", "ok", "err"}]
        /\ disturbed' \subseteq Runner
    BY <1>1, <1>2 DEF Start, TypeOK
  <2>2. crossed' \in BOOLEAN
    BY DEF Start, TypeOK
  <2>3. tool # "none"
    BY MigrationsAssumption
  <2>4. \A q \in Runner :
          /\ running'[q] = "none" => todo'[q] = <<>> /\ q \notin disturbed'
          /\ running'[q] \notin Transactional => made'[q] = {} /\ gone'[q] = {}
    BY <1>1, <1>3, <1>4, <2>3 DEF TypeOK
  <2>5. QED
    BY <1>4, <2>1, <2>2, <2>4 DEF TypeOK
<1>6. Jobs'
  BY <1>2, <1>3 DEF Jobs
<1>7. \A q \in Runner, v \in Versions :
        /\ ToRecord(todo'[q], v) => q # r /\ ToRecord(todo[q], v)
        /\ ToUnrecord(todo'[q], v) => q # r /\ ToUnrecord(todo[q], v)
        /\ q # r => (ToRecord(todo[q], v) => ToRecord(todo'[q], v)) /\ (ToUnrecord(todo[q], v) => ToUnrecord(todo'[q], v))
  BY <1>2, <1>3 DEF ToRecord, ToUnrecord, Opens
<1>8. "m2" \in Versions
  BY DEF Versions
<1>9. Changes'
  BY <1>3, <1>4, <1>7, <1>8 DEF Changes
<1>10. Paired => Paired'
  BY <1>4, <1>7 DEF Paired
<1>11. ~crossed' => ~crossed /\ Apart'
  <2> SUFFICES ASSUME ~crossed' PROVE ~crossed /\ Apart'
    OBVIOUS
  <2>1. ~crossed /\ \A q \in Runner : {tool, running[q]} # {"up", "down"}
    BY DEF Start
  <2>2. \A q \in Runner : /\ tool = "up" => running[q] # "down"
                         /\ tool = "down" => running[q] # "up"
    BY <2>1
  <2>3. QED
    BY <1>3, <1>4, <2>1, <2>2 DEF Apart
<1>12. QED
  BY <1>4, <1>5, <1>6, <1>9, <1>10, <1>11 DEF ThereIsRecorded, RecordedIsThere, Applied

\* The type of what a step leaves that sends or skips the first statement of a runner.
LEMMA TailsTyped ==
  ASSUME TypeOK, Jobs, NEW r \in Runner, todo[r] # <<>>, todo' = [todo EXCEPT ![r] = Tail(@)],
         UNCHANGED <<running, exit>>
  PROVE  /\ todo' \in [Runner -> Seq(Statements)] /\ Jobs'
         /\ \A q \in Runner : /\ todo'[q] = IF q = r THEN Tail(todo[r]) ELSE todo[q]
                              /\ running'[q] = "none" => todo'[q] = <<>>
<1>1. \A q \in Runner : todo'[q] = IF q = r THEN Tail(todo[r]) ELSE todo[q]
  BY DEF TypeOK
<1>2. todo' \in [Runner -> Seq(Statements)]
  BY First DEF TypeOK
<1>3. Jobs'
  BY <1>1, First DEF Jobs
<1>4. running[r] # "none"
  BY DEF TypeOK
<1>5. QED
  BY <1>1, <1>2, <1>3, <1>4 DEF TypeOK

\* The script goes on after a statement that has failed.
LEMMA Skipped ==
  ASSUME Inv, NEW r \in Runner, running[r] = "script", todo[r] # <<>>,
         todo' = [todo EXCEPT ![r] = Tail(@)],
         UNCHANGED <<there, running, made, gone, exit, crossed>>,
         disturbed' = disturbed \/ disturbed' = disturbed \cup {r}
  PROVE  Inv'
<1> USE DEF Inv
<1>1. /\ todo' \in [Runner -> Seq(Statements)] /\ Jobs'
      /\ \A q \in Runner : /\ todo'[q] = IF q = r THEN Tail(todo[r]) ELSE todo[q]
                           /\ running'[q] = "none" => todo'[q] = <<>>
  BY TailsTyped
<1>2. TypeOK'
  BY <1>1 DEF TypeOK
<1>3. \A v \in Versions : ~ToRecord(todo'[r], v) /\ ~ToUnrecord(todo'[r], v)
  <2>1. Fits("script", Head(todo'[r])) \/ todo'[r] = <<>>
    <3>1. todo'[r] \in Seq(Statements) /\ Job("script", todo'[r])
      BY <1>1 DEF Jobs
    <3>2. QED
      BY <3>1, Tails
  <2>2. QED
    BY <2>1 DEF ToRecord, ToUnrecord, Records, Unrecords, Fits
<1>4. \A q \in Runner, v \in Versions : q # r => /\ ToRecord(todo'[q], v) <=> ToRecord(todo[q], v)
                                               /\ ToUnrecord(todo'[q], v) <=> ToUnrecord(todo[q], v)
  BY <1>1 DEF ToRecord, ToUnrecord
<1>5. made'[r] = {} /\ gone'[r] = {} /\ running'[r] = "script"
  BY DEF TypeOK, Transactional
<1>6. "m2" \in Versions
  BY DEF Versions
<1> DEFINE C(q) == /\ gone[q] # {} => running[q] = "down"
                   /\ running[q] = "down" => made[q] = {}
                   /\ \A x \in gone[q] :
                        x \in {TableOf(v) : v \in Versions} \cup {Record(v) : v \in Versions}
                   /\ \A v \in Versions : Record(v) \in made[q] => running[q] = "up"
                   /\ TableOf("m2") \in made[q] => Record("m2") \in made[q] \/ ToRecord(todo[q], "m2")
                   /\ ToUnrecord(todo[q], "m2") \/ Record("m2") \in gone[q] => TableOf("m2") \in gone[q]
<1>7. Changes'
  <2>1. \A q \in Runner : q # r /\ C(q) => C(q)'
    BY <1>4, <1>6
  <2>2. C(r)'
    BY <1>3, <1>5, <1>6
  <2>3. \A q \in Runner : C(q)
    BY DEF Changes
  <2> HIDE DEF C
  <2>4. \A q \in Runner : C(q)'
    BY <2>1, <2>2, <2>3
  <2>5. QED
    BY <2>4 DEF Changes, C
<1>8. Paired => Paired'
  <2> SUFFICES ASSUME Paired, NEW q \in Runner, NEW v \in Versions
               PROVE  /\ Record(v) \in made'[q] \/ ToRecord(todo'[q], v)
                           => TableOf(v) \in there' \cup made'[q]
                      /\ TableOf(v) \in gone'[q] /\ Record(v) \in there'
                           => Record(v) \in gone'[q] \/ ToUnrecord(todo'[q], v)
    BY DEF Paired
  <2>1. CASE q = r
    BY <1>3, <1>5, <2>1
  <2>2. CASE q # r
    BY <1>4, <2>2 DEF Paired
  <2>3. QED
    BY <2>1, <2>2
<1>9. QED
  BY <1>1, <1>2, <1>7, <1>8 DEF ThereIsRecorded, RecordedIsThere, Applied, Apart

\* What a statement adds and removes.
Affects(r, s) ==
  /\ s.do \in {"create", "create if not exists"}
       => Adds(r, s) = {s.what} \ Sees(r) /\ Removes(r, s) = {}
  /\ s.do \in {"drop", "delete"} => Adds(r, s) = {} /\ Removes(r, s) = {s.what} \cap Sees(r)
  /\ s.do = "drop schema" => Adds(r, s) = {} /\ Removes(r, s) = {x \in there : x[1] = s.what[1]}

LEMMA Effects ==
  ASSUME NEW r \in Runner, Head(todo[r]) \in Statements
  PROVE  Affects(r, Head(todo[r]))
<1> DEFINE s == Head(todo[r])
<1>1. s.do \in {"create", "create if not exists", "drop", "delete", "drop schema"}
  BY DEF Statements
<1> HIDE DEF s
<1>2. ASSUME s.do \in {"create", "create if not exists"} PROVE Affects(r, s)
  BY <1>2 DEF Affects, Adds, Removes
<1>3. ASSUME s.do \in {"drop", "delete"} PROVE Affects(r, s)
  BY <1>3 DEF Affects, Adds, Removes
<1>4. ASSUME s.do = "drop schema" PROVE Affects(r, s)
  BY <1>4 DEF Affects, Adds, Removes
<1>5. Affects(r, s)
  BY <1>1, <1>2, <1>3, <1>4
<1>6. QED
  BY <1>5 DEF s

\* A transaction sends a statement.
LEMMA SentInTransaction ==
  ASSUME Inv, NEW r \in Runner, SendStatement(r), running[r] \in Transactional
  PROVE  Inv'
<1> USE DEF Inv
<1> DEFINE s == Head(todo[r])
           t == Tail(todo[r])
<1>1. /\ todo[r] # <<>> /\ ~Refused(r, s)
      /\ made' = [made EXCEPT ![r] = @ \cup Adds(r, s)]
      /\ gone' = [gone EXCEPT ![r] = @ \cup Removes(r, s)]
      /\ UNCHANGED <<there, running, exit>>
      /\ todo' = [todo EXCEPT ![r] = t]
  BY DEF SendStatement
<1>2. /\ s \in Statements /\ Fits(running[r], s)
      /\ t # <<>> => Follows(s, Head(t)) /\ Fits(running[r], Head(t))
      /\ t = <<>> => MayEnd(s)
  <2>1. t \in Seq(Statements) /\ Job(running[r], t)
    BY <1>1, First
  <2>2. QED
    BY <1>1, <2>1, First, Tails
<1>3. /\ todo' \in [Runner -> Seq(Statements)] /\ Jobs'
      /\ \A q \in Runner : /\ todo'[q] = IF q = r THEN t ELSE todo[q]
                           /\ running'[q] = "none" => todo'[q] = <<>>
  BY <1>1, TailsTyped
<1>4. UNCHANGED <<crossed, disturbed>>
  <2>1. s.do # "drop schema"
    BY <1>2 DEF Fits, Transactional
  <2>2. QED
    BY <2>1 DEF SendStatement
<1>5. \A q \in Runner : /\ made'[q] = IF q = r THEN made[r] \cup Adds(r, s) ELSE made[q]
                        /\ gone'[q] = IF q = r THEN gone[r] \cup Removes(r, s) ELSE gone[q]
  BY <1>1 DEF TypeOK
<1>6. /\ s.do \in {"create", "create if not exists", "drop", "delete", "drop schema"}
      /\ s.what \in Things /\ "m2" \in Versions
  BY <1>2 DEF Statements, Versions
<1>7. Sees(r) = (there \ gone[r]) \cup made[r] /\ Sees(r) \subseteq Things
  BY DEF Sees, TypeOK
<1>effect. Affects(r, s)
  BY <1>2, Effects
<1> HIDE DEF s, t
<1>names. \A v, w \in Versions : TableOf(v) # Record(w) /\ TableOf(v) \in Tables
  BY Names
<1>8. /\ made' \in [Runner -> SUBSET Things] /\ gone' \in [Runner -> SUBSET Things]
  <2>1. Adds(r, s) \subseteq Things /\ Removes(r, s) \subseteq Things
    <3>1. CASE s.do \in {"create", "create if not exists"}
      BY <1>6, <1>7, <3>1, <1>effect DEF Affects
    <3>2. CASE s.do \in {"drop", "delete"}
      BY <1>6, <1>7, <3>2, <1>effect DEF Affects
    <3>3. CASE s.do = "drop schema"
      BY <1>6, <3>3, <1>effect DEF Affects, TypeOK
    <3>4. QED
      BY <1>6, <3>1, <3>2, <3>3
  <2>2. QED
    BY <1>1, <2>1 DEF TypeOK
<1>9. TypeOK'
  BY <1>1, <1>3, <1>4, <1>5, <1>8 DEF TypeOK
<1> DEFINE C(q) == /\ gone'[q] # {} => running[q] = "down"
                   /\ running[q] = "down" => made'[q] = {}
                   /\ \A x \in gone'[q] :
                        x \in {TableOf(v) : v \in Versions} \cup {Record(v) : v \in Versions}
                   /\ \A v \in Versions : Record(v) \in made'[q] => running[q] = "up"
                   /\ TableOf("m2") \in made'[q]
                        => Record("m2") \in made'[q] \/ ToRecord(todo'[q], "m2")
                   /\ ToUnrecord(todo'[q], "m2") \/ Record("m2") \in gone'[q]
                        => TableOf("m2") \in gone'[q]
           P(q, v) == /\ Record(v) \in made'[q] \/ ToRecord(todo'[q], v)
                           => TableOf(v) \in there \cup made'[q]
                      /\ TableOf(v) \in gone'[q] /\ Record(v) \in there
                           => Record(v) \in gone'[q] \/ ToUnrecord(todo'[q], v)
<1>10. \A q \in Runner : q # r => C(q) /\ (Paired => \A v \in Versions : P(q, v))
  BY <1>3, <1>5 DEF Changes, Paired
<1>11. \A v \in Versions : /\ ToRecord(todo[r], v) <=> Records(s, v)
                           /\ ToUnrecord(todo[r], v) <=> Unrecords(s, v)
                           /\ ToRecord(todo'[r], v) <=> t # <<>> /\ Records(Head(t), v)
                           /\ ToUnrecord(todo'[r], v) <=> t # <<>> /\ Unrecords(Head(t), v)
  BY <1>1, <1>3 DEF ToRecord, ToUnrecord, s
<1>12. ASSUME running[r] = "down" PROVE C(r) /\ (Paired => \A v \in Versions : P(r, v))
  <2>1. s.do \in {"drop", "delete"}
    BY <1>2, <1>12 DEF Fits
  <2>2. made'[r] = {} /\ gone'[r] = gone[r] \cup ({s.what} \cap Sees(r)) /\ made[r] = {}
    BY <1>5, <1>6, <1>12, <2>1, <1>effect DEF Affects, Changes
  <2>3. s.do = "drop" => s.what \in Sees(r)
    BY <1>1 DEF Refused
  <2>4. \A v \in Versions : ~ToRecord(todo'[r], v)
    BY <1>2, <1>11, <1>12 DEF Fits, Records
  <2>5. s.what \in {TableOf(v) : v \in Versions} \cup {Record(v) : v \in Versions}
    BY <1>2, <2>1 DEF Fits
  <2>6. ToUnrecord(todo'[r], "m2") => TableOf("m2") \in gone'[r]
    <3>1. ToUnrecord(todo'[r], "m2") => DropsTable(s, "m2")
      BY <1>2, <1>6, <1>11 DEF Follows
    <3>2. QED
      BY <2>2, <2>3, <3>1 DEF DropsTable
  <2>7. Record("m2") \in gone'[r] => TableOf("m2") \in gone'[r]
    <3>1. CASE Record("m2") \in gone[r]
      BY <2>2, <3>1 DEF Changes
    <3>2. CASE s.what = Record("m2")
      <4>1. s.do # "drop"
        BY <1>2, <1>6, <3>2, <1>names DEF Fits
      <4>2. Unrecords(s, "m2")
        BY <2>1, <3>2, <4>1 DEF Unrecords
      <4>3. QED
        BY <1>6, <1>11, <2>2, <4>2 DEF Changes
    <3>3. QED
      BY <2>2, <3>1, <3>2
  <2>8. C(r)
    <3>1. \A x \in gone'[r] :
            x \in {TableOf(v) : v \in Versions} \cup {Record(v) : v \in Versions}
      BY <2>2, <2>5 DEF Changes
    <3>2. QED
      BY <1>12, <2>2, <2>6, <2>7, <3>1
  <2>9. ASSUME Paired, NEW v \in Versions PROVE P(r, v)
    <3> SUFFICES ASSUME TableOf(v) \in gone'[r], Record(v) \in there
                 PROVE  Record(v) \in gone'[r] \/ ToUnrecord(todo'[r], v)
      BY <2>2, <2>4
    <3>1. CASE TableOf(v) \in gone[r]
      <4>1. Record(v) \in gone[r] \/ Unrecords(s, v)
        BY <1>11, <2>9, <3>1 DEF Paired
      <4>2. QED
        BY <1>7, <2>2, <4>1 DEF Unrecords
    <3>2. CASE TableOf(v) = s.what
      <4>1. DropsTable(s, v)
        BY <1>2, <2>1, <3>2, <1>names DEF Fits, DropsTable
      <4>2. t # <<>> /\ Unrecords(Head(t), v)
        BY <1>2, <4>1 DEF Follows, MayEnd
      <4>3. QED
        BY <1>11, <4>2
    <3>3. QED
      BY <2>2, <3>1, <3>2
  <2>10. QED
    BY <2>8, <2>9
<1>13. ASSUME running[r] # "down" PROVE C(r) /\ (Paired => \A v \in Versions : P(r, v))
  <2>1. s.do \in {"create", "create if not exists"}
    BY <1>2, <1>6, <1>13 DEF Fits, Transactional
  <2>2. /\ made'[r] = made[r] \cup ({s.what} \ Sees(r))
        /\ gone[r] = {} /\ gone'[r] = {} /\ Sees(r) = there \cup made[r]
    BY <1>5, <1>6, <1>7, <1>13, <2>1, <1>effect DEF Affects, Changes
  <2>3. \A v \in Versions : ~ToUnrecord(todo'[r], v)
    BY <1>2, <1>11, <1>13 DEF Fits, Unrecords
  <2>4. \A v \in Versions : s.what = Record(v) => Records(s, v) /\ running[r] = "up"
    BY <1>2, <2>1 DEF Fits, Records
  <2>5. \A v \in Versions : Records(s, v) => Record(v) \in made'[r]
    BY <1>1, <2>2 DEF Records, Refused
  <2>6. \A v \in Versions : Record(v) \in made'[r] => running[r] = "up"
    BY <2>2, <2>4 DEF Changes
  <2>7. TableOf("m2") \in made'[r] => Record("m2") \in made'[r] \/ ToRecord(todo'[r], "m2")
    <3>1. CASE TableOf("m2") \in made[r]
      BY <1>6, <1>11, <2>2, <2>5, <3>1 DEF Changes
    <3>2. CASE TableOf("m2") = s.what
      <4>1. MakesTable(s, "m2")
        BY <1>2, <1>6, <2>1, <3>2, <1>names DEF Fits, MakesTable
      <4>2. t # <<>> /\ Records(Head(t), "m2")
        BY <1>2, <4>1 DEF Follows, MayEnd
      <4>3. QED
        BY <1>6, <1>11, <4>2
    <3>3. QED
      BY <2>2, <3>1, <3>2
  <2>8. C(r)
    BY <1>6, <1>13, <2>2, <2>3, <2>6, <2>7
  <2>9. ASSUME Paired, NEW v \in Versions PROVE P(r, v)
    <3>1. CASE Record(v) \in made'[r]
      <4>1. Record(v) \in made[r] \/ ToRecord(todo[r], v)
        BY <1>11, <2>2, <2>4, <3>1
      <4>2. QED
        BY <2>2, <2>9, <4>1 DEF Paired
    <3>2. CASE ToRecord(todo'[r], v)
      <4>1. MakesTable(s, v)
        BY <1>2, <1>11, <3>2 DEF Follows
      <4>2. QED
        BY <2>2, <4>1 DEF MakesTable
    <3>3. QED
      BY <2>2, <3>1, <3>2
  <2>10. QED
    BY <2>8, <2>9
<1>14. \A q \in Runner : C(q) /\ (Paired => \A v \in Versions : P(q, v))
  BY <1>10, <1>12, <1>13
<1>15. Changes' /\ (Paired => Paired')
  BY <1>1, <1>14 DEF Changes, Paired
<1>16. QED
  BY <1>1, <1>3, <1>4, <1>9, <1>15 DEF ThereIsRecorded, RecordedIsThere, Applied, Apart

\* A statement is committed by itself: the script's or db-reset's.
LEMMA SentByItself ==
  ASSUME Inv, NEW r \in Runner, SendStatement(r), running[r] \notin Transactional
  PROVE  Inv'
<1> USE DEF Inv
<1> DEFINE s == Head(todo[r])
           t == Tail(todo[r])
<1>1. /\ todo[r] # <<>>
      /\ there' = (there \ Removes(r, s)) \cup Adds(r, s)
      /\ UNCHANGED <<running, exit, made, gone>>
      /\ todo' = [todo EXCEPT ![r] = t]
  BY DEF SendStatement
<1>2. /\ s \in Statements /\ Fits(running[r], s)
      /\ t # <<>> => Follows(s, Head(t)) /\ Fits(running[r], Head(t))
      /\ t = <<>> => MayEnd(s)
  <2>1. t \in Seq(Statements) /\ Job(running[r], t)
    BY <1>1, First
  <2>2. QED
    BY <1>1, <2>1, First, Tails
<1>3. /\ todo' \in [Runner -> Seq(Statements)] /\ Jobs'
      /\ \A q \in Runner : /\ todo'[q] = IF q = r THEN t ELSE todo[q]
                           /\ running'[q] = "none" => todo'[q] = <<>>
  BY <1>1, TailsTyped
<1>4. /\ made[r] = {} /\ gone[r] = {} /\ running[r] \notin {"up", "down"}
  BY DEF TypeOK, Transactional
<1>5. /\ s.do = "drop schema" => crossed' = TRUE /\ disturbed' = {q \in Runner : running[q] = "script"}
      /\ s.do # "drop schema" => UNCHANGED <<crossed, disturbed>>
  BY DEF SendStatement
<1>6. Affects(r, s)
  BY <1>2, Effects
<1>7. Sees(r) = there
  BY <1>4 DEF Sees
<1> HIDE DEF s, t
<1>8. s.do \in {"create", "create if not exists", "drop schema"} /\ s.what \in Things
  BY <1>2, <1>4 DEF Fits, Statements
<1>9. /\ s.do # "drop schema" => there' = there \cup {s.what}
      /\ s.do = "drop schema" => there' = there \ {x \in there : x[1] = s.what[1]}
  BY <1>1, <1>6, <1>7, <1>8 DEF Affects
<1>10. TypeOK'
  <2>1. there' \subseteq Things
    BY <1>8, <1>9 DEF TypeOK
  <2>2. crossed' \in BOOLEAN /\ disturbed' \subseteq Runner
    BY <1>5 DEF TypeOK
  <2>3. \A q \in Runner : running'[q] = "none" => q \notin disturbed'
    BY <1>1, <1>5 DEF TypeOK
  <2>4. QED
    BY <1>1, <1>3, <2>1, <2>2, <2>3 DEF TypeOK
<1>11. /\ \A v \in Versions : ~ToRecord(todo[r], v) /\ ~ToUnrecord(todo[r], v)
       /\ \A v \in Versions : ~ToRecord(todo'[r], v) /\ ~ToUnrecord(todo'[r], v)
  <2>1. \A v \in Versions : ~Records(s, v) /\ ~Unrecords(s, v)
    BY <1>2, <1>4 DEF Fits, Records, Unrecords
  <2>2. \A v \in Versions : t # <<>> => ~Records(Head(t), v) /\ ~Unrecords(Head(t), v)
    BY <1>2, <1>4 DEF Fits, Records, Unrecords
  <2>3. todo'[r] = t
    BY <1>3
  <2>4. QED
    BY <2>1, <2>2, <2>3 DEF ToRecord, ToUnrecord, s
<1>12. \A q \in Runner : q # r => todo'[q] = todo[q]
  BY <1>3
<1>13. "m1" \in Versions /\ "m2" \in Versions
  BY DEF Versions
<1>14. Changes'
  <2> DEFINE C(q) == /\ gone[q] # {} => running[q] = "down"
                     /\ running[q] = "down" => made[q] = {}
                     /\ \A x \in gone[q] :
                          x \in {TableOf(v) : v \in Versions} \cup {Record(v) : v \in Versions}
                     /\ \A v \in Versions : Record(v) \in made[q] => running[q] = "up"
                     /\ TableOf("m2") \in made[q]
                          => Record("m2") \in made[q] \/ ToRecord(todo'[q], "m2")
                     /\ ToUnrecord(todo'[q], "m2") \/ Record("m2") \in gone[q]
                          => TableOf("m2") \in gone[q]
  <2>1. \A q \in Runner : q # r => C(q)
    BY <1>12 DEF Changes
  <2>2. C(r)
    BY <1>4, <1>11, <1>13
  <2>3. QED
    BY <1>1, <2>1, <2>2 DEF Changes
<1>15. CASE s.do = "drop schema"
  <2>1. ThereIsRecorded'
    <3>1. s.what[1] \in Schemas
      <4>1. s.what \in {Schema(x) : x \in Schemas}
        BY <1>2, <1>15 DEF Fits
      <4>2. \A x \in Schemas : Schema(x)[1] = x
        BY Names
      <4>3. QED
        BY <4>1, <4>2
    <3>2. Record("m2")[1] = "seaql_migrations"
      BY <1>13, Names
    <3>3. Record("m2")[1] # s.what[1]
      BY <3>1, <3>2 DEF Schemas
    <3>4. QED
      BY <1>9, <1>15, <3>3 DEF ThereIsRecorded, Applied
  <2>2. QED
    BY <1>3, <1>5, <1>10, <1>14, <1>15, <2>1 DEF RecordedIsThere
<1>16. CASE s.do # "drop schema"
  <2>1. s.what # TableOf("m2")
    <3>1. ~MakesTable(s, "m2")
      BY <1>2, <1>4, <1>13 DEF Follows, MayEnd, Fits, Records
    <3>2. TableOf("m2") \in Tables
      BY <1>13, Names
    <3>3. QED
      BY <1>2, <1>8, <1>16, <3>1, <3>2 DEF MakesTable, Fits
  <2>2. \A v \in Versions : s.what # Record(v)
    BY <1>2, <1>4, <1>8, <1>16 DEF Fits
  <2>3. there' = there \cup {s.what}
    BY <1>9, <1>16
  <2>4. \A v \in Versions : Record(v) \in there' => Record(v) \in there
    BY <2>2, <2>3
  <2>5. ThereIsRecorded' /\ RecordedIsThere' /\ crossed' = crossed
    <3>1. ThereIsRecorded'
      BY <2>1, <2>3 DEF ThereIsRecorded, Applied
    <3>2. crossed' = crossed
      BY <1>5, <1>16
    <3>3. RecordedIsThere'
      BY <2>3, <2>4, <3>2 DEF RecordedIsThere, Applied, Versions
    <3>4. QED
      BY <3>1, <3>2, <3>3
  <2>6. ASSUME Paired, NEW q \in Runner, NEW v \in Versions
        PROVE  /\ Record(v) \in made[q] \/ ToRecord(todo'[q], v) => TableOf(v) \in there' \cup made[q]
               /\ TableOf(v) \in gone[q] /\ Record(v) \in there'
                    => Record(v) \in gone[q] \/ ToUnrecord(todo'[q], v)
    <3>1. CASE q = r
      BY <1>4, <1>11, <3>1
    <3>2. CASE q # r
      BY <1>12, <2>3, <2>4, <2>6, <3>2 DEF Paired
    <3>3. QED
      BY <3>1, <3>2
  <2>7. Paired => Paired'
    BY <1>1, <2>6 DEF Paired
  <2>8. QED
    <3>1. Apart => Apart'
      BY <1>1 DEF Apart
    <3>2. QED
      BY <1>3, <1>10, <1>14, <2>5, <2>7, <3>1
<1>17. QED
  BY <1>15, <1>16

LEMMA InvStep == Inv /\ [Next]_vars => Inv'
<1> SUFFICES ASSUME Inv, [Next]_vars PROVE Inv'
  OBVIOUS
<1>1. CASE UNCHANGED vars
  <2>1. UNCHANGED <<there, running, todo, made, gone, exit, disturbed, crossed>>
    BY <1>1 DEF vars, session
  <2>2. TypeOK' /\ Jobs' /\ ThereIsRecorded' /\ RecordedIsThere'
    BY <2>1 DEF Inv, TypeOK, Jobs, ThereIsRecorded, RecordedIsThere, Applied
  <2>3. Changes'
    BY <2>1 DEF Inv, Changes
  <2>4. ~crossed' => Apart' /\ Paired'
    BY <2>1 DEF Inv, Apart, Paired
  <2>5. QED
    BY <2>2, <2>3, <2>4 DEF Inv
<1>2. ASSUME NEW r \in Runner, NEW tool \in Tools, Start(r, tool) PROVE Inv'
  BY <1>2, Started
<1>3. ASSUME NEW r \in Runner, SendStatement(r) PROVE Inv'
  BY <1>3, SentInTransaction, SentByItself
<1>4. ASSUME NEW r \in Runner, StatementRefused(r) \/ StatementFails(r) PROVE Inv'
  <2>1. CASE running[r] = "script"
    BY <1>4, <2>1, Skipped DEF StatementRefused, StatementFails, GoesOn
  <2>2. CASE running[r] # "script"
    BY <1>4, <2>2, Ended DEF StatementRefused, StatementFails, GoesOn
  <2>3. QED
    BY <2>1, <2>2
<1>5. ASSUME NEW r \in Runner, Completed(r) \/ Interrupted(r) PROVE Inv'
  BY <1>5, Ended DEF Completed, Interrupted
<1>6. QED
  BY <1>1, <1>2, <1>3, <1>4, <1>5 DEF Next

\* Every variable keeps its type, and no runner has statements, or changes it has not
\* committed, left over from a tool that ended.
THEOREM TypeCorrect == Spec => []TypeOK
<1>1. Inv => TypeOK
  BY DEF Inv
<1>2. QED
  BY <1>1, InitInv, InvStep, PTL DEF Spec

\* The table only the Migrator makes is never there without its record, whatever overlaps,
\* is interrupted, dropped or created again.
THEOREM ThereStaysRecorded == Spec => []ThereIsRecorded
<1>1. Inv => ThereIsRecorded
  BY DEF Inv
<1>2. QED
  BY <1>1, InitInv, InvStep, PTL DEF Spec

\* A recorded version has its table, whatever else overlaps or is interrupted anywhere, while
\* no up and down have overlapped and no schema has been dropped.
THEOREM RecordedStaysThere == Spec => []RecordedIsThere
<1>1. Inv => RecordedIsThere
  BY DEF Inv
<1>2. QED
  BY <1>1, InitInv, InvStep, PTL DEF Spec
-----------------------------------------------------------------------------
(***************************************************************************)
(* run_migrations.sh: its files are in an order in which what a statement  *)
(* needs has been made by those before it, and nothing but DROP SCHEMA     *)
(* takes it away.                                                          *)
(***************************************************************************)
SqlxTables == {"poc_for_sqlx"} \X {"inventory", "orders"}

Namespace == CreateIfNotExists(Schema("poc_for_sqlx"))
Inventory == CreateIfNotExists(<<"poc_for_sqlx", "inventory">>)
Orders == CreateIfNotExists(<<"poc_for_sqlx", "orders">>)

\* The statements before those still to be sent have had their effect.
Made(statements) ==
  \/ statements = <<Namespace, Inventory, Orders>>
  \/ Schema("poc_for_sqlx") \in there /\ statements = <<Inventory, Orders>>
  \/ /\ Schema("poc_for_sqlx") \in there /\ <<"poc_for_sqlx", "inventory">> \in there
     /\ statements = <<Orders>>
  \/ SqlxTables \subseteq there /\ statements = <<>>

Scripted == \A r \in Runner : running[r] = "script" /\ r \notin disturbed => Made(todo[r])

\* A tool that is under way has not exited.
Unfinished == \A r \in Runner : running[r] # "none" => exit[r] = "none"

LEMMA SqlxNames ==
  /\ SqlxTables = {<<"poc_for_sqlx", "inventory">>, <<"poc_for_sqlx", "orders">>}
  /\ SqlxTables \subseteq Tables
  /\ \A x \in SqlxTables : x[1] = "poc_for_sqlx"
  /\ Schema("poc_for_sqlx")[1] = "poc_for_sqlx" /\ Schema("poc_for_sqlx") \notin Tables
  /\ \A v \in Versions : /\ TableOf(v)[1] # "poc_for_sqlx"
                         /\ Record(v)[1] # "poc_for_sqlx"
<1>1. SqlxTables = {<<"poc_for_sqlx", "inventory">>, <<"poc_for_sqlx", "orders">>}
  BY DEF SqlxTables
<1>2. "poc_for_sqlx" \in Schemas
  BY DEF Schemas
<1>3. SqlxTables \subseteq Tables
  BY <1>2 DEF SqlxTables, Tables
<1>4. \A x \in SqlxTables : x[1] = "poc_for_sqlx"
  BY DEF SqlxTables
<1>5. \A v \in Versions : TableOf(v)[1] # "poc_for_sqlx" /\ Record(v)[1] # "poc_for_sqlx"
  BY Names
<1>6. Schema("poc_for_sqlx")[1] = "poc_for_sqlx" /\ Schema("poc_for_sqlx") \notin Tables
  BY <1>2, Names
<1>7. QED
  BY <1>1, <1>3, <1>4, <1>5, <1>6

LEMMA FilesSent ==
  /\ Files = <<Namespace, Inventory, Orders>>
  /\ Head(<<Namespace, Inventory, Orders>>) = Namespace
  /\ Tail(<<Namespace, Inventory, Orders>>) = <<Inventory, Orders>>
  /\ Head(<<Inventory, Orders>>) = Inventory /\ Tail(<<Inventory, Orders>>) = <<Orders>>
  /\ Head(<<Orders>>) = Orders /\ Tail(<<Orders>>) = <<>>
<1>1. Files = <<Namespace, Inventory, Orders>>
  BY DEF Files, Namespace, Inventory, Orders
<1>2. QED
  BY <1>1

LEMMA FilesKinds ==
  /\ Namespace.do = "create if not exists" /\ Namespace.what = Schema("poc_for_sqlx")
  /\ Inventory.do = "create if not exists" /\ Inventory.what = <<"poc_for_sqlx", "inventory">>
  /\ Orders.do = "create if not exists" /\ Orders.what = <<"poc_for_sqlx", "orders">>
BY Kinds DEF Namespace, Inventory, Orders

\* What is there of the sqlx adapter stays there while no schema is dropped.
LEMMA SqlxStays ==
  ASSUME Inv, [Next]_vars, NEW r \in Runner, running'[r] = "script", r \notin disturbed',
         NEW x \in there, x[1] = "poc_for_sqlx"
  PROVE  x \in there'
<1> USE DEF Inv
<1>1. CASE UNCHANGED there
  BY <1>1
<1>2. ASSUME NEW q \in Runner, Commits(q) PROVE x \in there'
  <2>1. x \notin gone[q]
    BY SqlxNames DEF Changes
  <2>2. QED
    BY <1>2, <2>1 DEF Commits
<1>3. ASSUME NEW q \in Runner, SendStatement(q), running[q] \notin Transactional PROVE x \in there'
  <2>1. Head(todo[q]) \in Statements /\ Fits(running[q], Head(todo[q]))
    BY <1>3, First DEF SendStatement
  <2>2. Affects(q, Head(todo[q])) /\ running[q] # "down"
    BY <1>3, <2>1, Effects DEF Transactional
  <2>3. there' = (there \ Removes(q, Head(todo[q]))) \cup Adds(q, Head(todo[q]))
    BY <1>3 DEF SendStatement
  <2>4. Head(todo[q]).do # "drop schema"
    BY <1>3 DEF SendStatement
  <2>5. Head(todo[q]).do \in {"create", "create if not exists"}
    BY <2>1, <2>2, <2>4 DEF Fits, Statements
  <2>6. QED
    BY <2>2, <2>3, <2>5 DEF Affects
<1>4. ASSUME NEW q \in Runner, SendStatement(q), running[q] \in Transactional PROVE x \in there'
  BY <1>4 DEF SendStatement
<1>5. ASSUME NEW q \in Runner, Completed(q) \/ Interrupted(q) PROVE x \in there'
  BY <1>2, <1>5 DEF Completed, Interrupted
<1>6. ASSUME NEW q \in Runner,
             StatementRefused(q) \/ StatementFails(q) \/ \E tool \in Tools : Start(q, tool)
      PROVE  x \in there'
  BY <1>6 DEF StatementRefused, StatementFails, Start
<1>7. QED
  BY <1>1, <1>3, <1>4, <1>5, <1>6 DEF Next, vars

LEMMA MadeStays ==
  ASSUME Inv, [Next]_vars, NEW r \in Runner, running'[r] = "script", r \notin disturbed',
         Made(todo[r]), todo'[r] = todo[r]
  PROVE  Made(todo[r])'
<1>1. \A x \in SqlxTables \cup {Schema("poc_for_sqlx")} : x \in there => x \in there'
  BY SqlxStays, SqlxNames
<1>2. \A x \in {<<"poc_for_sqlx", "inventory">>, <<"poc_for_sqlx", "orders">>,
               Schema("poc_for_sqlx")} : x \in there => x \in there'
  BY <1>1, SqlxNames
<1>3. SqlxTables \subseteq there => SqlxTables \subseteq there'
  BY <1>1
<1>4. QED
  BY <1>2, <1>3 DEF Made

\* The script's own statement has its effect and is sent no more.
LEMMA ScriptSends ==
  ASSUME Inv, [Next]_vars, NEW r \in Runner, running[r] = "script", Made(todo[r]),
         SendStatement(r) \/ StatementRefused(r), r \notin disturbed'
  PROVE  Made(todo[r])'
<1> USE DEF Inv
<1>1. Sees(r) = there
  BY DEF Sees, TypeOK, Transactional
<1>2. todo[r] # <<>> /\ todo'[r] = Tail(todo[r]) /\ running'[r] = "script"
  BY DEF SendStatement, StatementRefused, GoesOn, TypeOK
<1>3. ASSUME NEW x, Head(todo[r]).do = "create if not exists", Head(todo[r]).what = x,
             x \in Tables => Schema(x[1]) \in there
      PROVE  x \in there'
  <2>1. ~Refused(r, Head(todo[r]))
    BY <1>1, <1>3 DEF Refused
  <2>2. SendStatement(r)
    BY <2>1 DEF StatementRefused
  <2>3. Affects(r, Head(todo[r]))
    BY <1>2, First, Effects
  <2>4. there' = (there \ Removes(r, Head(todo[r]))) \cup Adds(r, Head(todo[r]))
    BY <2>2 DEF SendStatement, Transactional
  <2>5. QED
    BY <1>1, <1>3, <2>3, <2>4 DEF Affects
<1>4. \A x \in {<<"poc_for_sqlx", "inventory">>, <<"poc_for_sqlx", "orders">>,
               Schema("poc_for_sqlx")} : x \in there => x \in there'
  BY <1>2, SqlxStays, SqlxNames
<1>5. CASE todo[r] = <<Namespace, Inventory, Orders>>
  <2>1. Schema("poc_for_sqlx") \in there'
    BY <1>3, <1>5, FilesSent, FilesKinds, SqlxNames
  <2>2. QED
    BY <1>2, <1>5, <2>1, FilesSent DEF Made
<1>6. CASE Schema("poc_for_sqlx") \in there /\ todo[r] = <<Inventory, Orders>>
  <2>1. <<"poc_for_sqlx", "inventory">>[1] = "poc_for_sqlx"
    OBVIOUS
  <2>2. <<"poc_for_sqlx", "inventory">> \in there'
    BY <1>3, <1>6, <2>1, FilesSent, FilesKinds
  <2>3. QED
    BY <1>2, <1>4, <1>6, <2>2, FilesSent DEF Made
<1>7. CASE /\ Schema("poc_for_sqlx") \in there /\ <<"poc_for_sqlx", "inventory">> \in there
           /\ todo[r] = <<Orders>>
  <2>1. <<"poc_for_sqlx", "orders">>[1] = "poc_for_sqlx"
    OBVIOUS
  <2>2. <<"poc_for_sqlx", "orders">> \in there'
    BY <1>3, <1>7, <2>1, FilesSent, FilesKinds
  <2>3. SqlxTables \subseteq there'
    BY <1>4, <1>7, <2>2, SqlxNames
  <2>4. QED
    BY <1>2, <1>7, <2>3, FilesSent DEF Made
<1>8. QED
  BY <1>2, <1>5, <1>6, <1>7 DEF Made

LEMMA ScriptedStep == Inv /\ Scripted /\ [Next]_vars => Scripted'
<1> SUFFICES ASSUME Inv, Scripted, [Next]_vars,
                    NEW r \in Runner, running'[r] = "script", r \notin disturbed'
             PROVE  Made(todo[r])'
  BY DEF Scripted
<1> USE DEF Inv
<1>1. ASSUME running[r] = "script", r \notin disturbed, todo'[r] = todo[r] PROVE Made(todo[r])'
  BY <1>1, MadeStays DEF Scripted
<1>2. CASE UNCHANGED vars
  BY <1>1, <1>2 DEF vars, session
<1>3. ASSUME NEW q \in Runner, NEW how, Ends(q, how) PROVE Made(todo[r])'
  <2>1. q # r
    BY <1>3 DEF Ends, TypeOK
  <2>2. running[r] = "script" /\ r \notin disturbed /\ todo'[r] = todo[r]
    BY <1>3, <2>1 DEF Ends, TypeOK
  <2>3. QED
    BY <1>1, <2>2
<1>4. ASSUME NEW q \in Runner, NEW tool \in Tools, Start(q, tool) PROVE Made(todo[r])'
  <2>1. CASE q = r
    <3>1. PICK plan \in Plans(tool) :
            /\ todo' = [todo EXCEPT ![r] = plan]
            /\ disturbed' = IF tool = "script" /\ plan = <<>> THEN disturbed \cup {r} ELSE disturbed
      BY <1>4, <2>1 DEF Start
    <3>2. tool = "script" /\ todo'[r] = plan
      BY <1>4, <2>1, <3>1 DEF Start, TypeOK
    <3>3. plan \in {Files, <<>>}
      BY <3>2 DEF Plans
    <3>4. plan # <<>>
      BY <3>1, <3>2
    <3>5. QED
      BY <3>2, <3>3, <3>4, FilesSent DEF Made
  <2>2. CASE q # r
    <3>1. running[r] = "script" /\ r \notin disturbed /\ todo'[r] = todo[r]
      BY <1>4, <2>2 DEF Start, TypeOK
    <3>2. QED
      BY <1>1, <3>1
  <2>3. QED
    BY <2>1, <2>2
<1>5. ASSUME NEW q \in Runner, SendStatement(q) PROVE Made(todo[r])'
  <2>1. running[r] = "script" /\ r \notin disturbed
    BY <1>5 DEF SendStatement
  <2>2. CASE q = r
    BY <1>5, <2>1, <2>2, ScriptSends DEF Scripted
  <2>3. CASE q # r
    <3>1. todo'[r] = todo[r]
      BY <1>5, <2>3 DEF SendStatement, TypeOK
    <3>2. QED
      BY <1>1, <2>1, <3>1
  <2>4. QED
    BY <2>2, <2>3
<1>6. ASSUME NEW q \in Runner, running[q] = "script", StatementRefused(q) \/ StatementFails(q)
      PROVE  Made(todo[r])'
  <2>1. /\ running' = running /\ todo' = [todo EXCEPT ![q] = Tail(@)]
        /\ disturbed' = disturbed \/ disturbed' = disturbed \cup {q}
    BY <1>6 DEF StatementRefused, StatementFails, GoesOn
  <2>2. running[r] = "script" /\ r \notin disturbed
    BY <2>1
  <2>3. CASE q = r
    <3>1. StatementRefused(r)
      BY <1>6, <2>3 DEF StatementFails
    <3>2. QED
      BY <2>2, <3>1, ScriptSends DEF Scripted
  <2>4. CASE q # r
    <3>1. todo'[r] = todo[r]
      BY <2>1, <2>4 DEF TypeOK
    <3>2. QED
      BY <1>1, <2>2, <3>1
  <2>5. QED
    BY <2>3, <2>4
<1>7. ASSUME NEW q \in Runner, running[q] # "script", StatementRefused(q) \/ StatementFails(q)
      PROVE  Made(todo[r])'
  BY <1>3, <1>7 DEF StatementRefused, StatementFails, GoesOn
<1>8. ASSUME NEW q \in Runner, Completed(q) \/ Interrupted(q) PROVE Made(todo[r])'
  BY <1>3, <1>8 DEF Completed, Interrupted
<1>9. QED
  BY <1>2, <1>4, <1>5, <1>6, <1>7, <1>8 DEF Next

LEMMA UnfinishedStep == TypeOK /\ Unfinished /\ [Next]_vars => Unfinished'
<1> SUFFICES ASSUME TypeOK, Unfinished, [Next]_vars PROVE Unfinished'
  OBVIOUS
<1> USE DEF TypeOK, Unfinished
<1>1. CASE UNCHANGED <<running, exit>>
  BY <1>1
<1>2. ASSUME NEW r \in Runner, NEW tool \in Tools, Start(r, tool) PROVE Unfinished'
  BY <1>2 DEF Start
<1>3. ASSUME NEW r \in Runner, NEW how, Ends(r, how) PROVE Unfinished'
  BY <1>3 DEF Ends
<1>4. ASSUME NEW r \in Runner, SendStatement(r) PROVE Unfinished'
  BY <1>1, <1>4 DEF SendStatement
<1>5. ASSUME NEW r \in Runner, GoesOn(r) PROVE Unfinished'
  BY <1>1, <1>3, <1>5 DEF GoesOn
<1>6. CASE UNCHANGED vars
  BY <1>1, <1>6 DEF vars, session
<1>7. QED
  BY <1>2, <1>3, <1>4, <1>5, <1>6 DEF Next, Interrupted, Completed, StatementRefused, StatementFails

\* When run_migrations.sh says that all migrations have completed, both tables are there,
\* whatever the other tools have done meanwhile and whatever was interrupted, unless it found
\* no file, a statement of its own failed for an outside reason, or a schema was dropped
\* while it ran.
THEOREM ScriptSucceeds == Spec => ScriptMakesTables
<1> DEFINE Makes == \A r \in Runner : running[r] = "script" /\ r \notin disturbed /\ exit'[r] = "ok" =>
                      {"poc_for_sqlx"} \X {"inventory", "orders"} \subseteq there
<1>1. Init => Scripted /\ Unfinished
  BY DEF Init, Scripted, Unfinished
<1>2. Inv /\ Scripted /\ Unfinished /\ [Next]_vars => [Makes]_vars
  <2> SUFFICES ASSUME Inv, Scripted, Unfinished, [Next]_vars, NEW r \in Runner,
                      running[r] = "script", r \notin disturbed, exit'[r] = "ok"
               PROVE  SqlxTables \subseteq there
    BY DEF SqlxTables
  <2>1. exit[r] = "none" /\ TypeOK
    BY DEF Unfinished, Inv
  <2>2. ASSUME NEW q \in Runner, NEW how, Ends(q, how) PROVE q = r /\ how = "ok"
    BY <2>1, <2>2 DEF Ends, TypeOK
  <2>3. ASSUME NEW q \in Runner, Completed(q) PROVE SqlxTables \subseteq there
    <3>1. Made(todo[r]) /\ todo[r] = <<>>
      BY <2>2, <2>3 DEF Completed, Scripted
    <3>2. QED
      BY <3>1 DEF Made
  <2>4. ASSUME NEW q \in Runner, \E tool \in Tools : Start(q, tool) PROVE FALSE
    BY <2>1, <2>4 DEF Start, TypeOK
  <2>5. ASSUME NEW q \in Runner, SendStatement(q) PROVE FALSE
    BY <2>1, <2>5 DEF SendStatement
  <2>6. ASSUME NEW q \in Runner, GoesOn(q) \/ Interrupted(q) PROVE FALSE
    BY <2>1, <2>2, <2>6 DEF GoesOn, Interrupted
  <2>7. ASSUME UNCHANGED vars PROVE FALSE
    BY <2>1, <2>7 DEF vars, session
  <2>8. QED
    BY <2>3, <2>4, <2>5, <2>6, <2>7 DEF Next, StatementRefused, StatementFails
<1>3. ScriptMakesTables <=> [][Makes]_vars
  BY DEF ScriptMakesTables
<1>4. Inv => TypeOK
  BY DEF Inv
<1>5. QED
  BY <1>1, <1>2, <1>3, <1>4, InitInv, InvStep, ScriptedStep, UnfinishedStep, PTL DEF Spec
=============================================================================
