------------------------- MODULE ConfigurationProofs ------------------------
(***************************************************************************)
(* Proofs about Configuration, for all widths of the numbers, all lines    *)
(* and any number of databases.  (TablesProofs has the lemmas about Max.)  *)
(***************************************************************************)
EXTENDS Configuration, TablesProofs

\* Every variable is of one type only.
LEMMA ConfigsAreDisjoint ==
    /\ UnsignedConfigs \cap BoolConfigs = {}
    /\ UnsignedConfigs \cap StringConfigs = {}
    /\ BoolConfigs \cap StringConfigs = {}
BY DEF UnsignedConfigs, BoolConfigs, StringConfigs

\* What is stored in an unsigned is in its range.
LEMMA ConvertedInRange ==
    ASSUME NEW l \in Lines, Applies(l), l.name \in UnsignedConfigs
    PROVE  Converted(l) \in UnsignedRange
<1> DEFINE m == 2 ^ LongBits
           u == 2 ^ UnsignedBits
<1>1. IsText(l.text)
  BY ConfigurationAssumption DEF Applies
<1>2. l.text.sign \in Int /\ l.text.digits \in Int
  BY <1>1 DEF IsText
<1>3. PICK a \in Int : a = l.text.sign * l.text.digits
  BY <1>2
<1>4. m \in Nat \ {0} /\ u \in Nat \ {0}
  BY PowerAssumption
<1>5. (a % m) % u \in 0 .. u - 1
  <2> HIDE DEF m, u
  <2> QED
    BY <1>4
<1>6. Converted(l) = Stoul(l.text) % u
  BY ConfigsAreDisjoint DEF Converted
<1> QED
  BY <1>3, <1>5, <1>6 DEF Stoul, UnsignedRange

LEMMA TypeInit == ConfigurationInit => ConfigurationTypeOK
<1> SUFFICES ASSUME ConfigurationInit PROVE ConfigurationTypeOK
  OBVIOUS
<1>1. <<>> \in Seq(Lines)
  OBVIOUS
<1>2. /\ DOMAIN Default = Configs
      /\ \A c \in UnsignedConfigs : Default[c] \in UnsignedRange
  BY ConfigurationAssumption
<1>3. config = Default /\ lines = <<>>
  BY DEF ConfigurationInit
<1>4. phase \in {"none", "parsing", "open"} /\ threw \in BOOLEAN /\ tables \in Nat /\ start \in Nat
  BY DEF ConfigurationInit
<1> QED
  BY <1>1, <1>2, <1>3, <1>4 DEF ConfigurationTypeOK

LEMMA TypeStep ==
    ConfigurationTypeOK /\ [ConfigurationNext]_configurationVars => ConfigurationTypeOK'
<1> SUFFICES ASSUME ConfigurationTypeOK, [ConfigurationNext]_configurationVars
             PROVE  ConfigurationTypeOK'
  OBVIOUS
<1>1. CASE UNCHANGED configurationVars
  BY <1>1 DEF configurationVars, configVars, queueVars, ConfigurationTypeOK
<1>2. CASE BeginParse
  <2>1. <<>> \in Seq(Lines)
    OBVIOUS
  <2> QED
    BY <1>2, <2>1 DEF BeginParse, ConfigurationTypeOK
<1>3. CASE MissingFile
  BY <1>3 DEF MissingFile, queueVars, ConfigurationTypeOK
<1>4. ASSUME NEW l \in Lines, ApplyLine(l)
      PROVE  ConfigurationTypeOK'
  <2>1. /\ config' = [config EXCEPT ![l.name] = Converted(l)]
        /\ lines' = Append(lines, l)
        /\ phase' = phase /\ threw' = threw /\ tables' = tables /\ start' = start
        /\ Applies(l)
    BY <1>4 DEF ApplyLine, queueVars
  <2>2. DOMAIN config' = Configs
    BY <2>1 DEF ConfigurationTypeOK
  <2>3. ASSUME NEW c \in UnsignedConfigs
        PROVE  config'[c] \in UnsignedRange
    <3>1. CASE c = l.name
      BY <2>1, <3>1, ConvertedInRange DEF ConfigurationTypeOK, Configs
    <3>2. CASE c # l.name
      BY <2>1, <3>2 DEF ConfigurationTypeOK, Configs
    <3> QED
      BY <3>1, <3>2
  <2> QED
    BY <2>1, <2>2, <2>3 DEF ConfigurationTypeOK
<1>5. ASSUME NEW l \in Lines, SkipLine(l) \/ FatalLine(l)
      PROVE  ConfigurationTypeOK'
  <2>1. lines' = Append(lines, l) /\ config' = config
    BY <1>5 DEF SkipLine, FatalLine
  <2>2. lines' \in Seq(Lines)
    BY <2>1 DEF ConfigurationTypeOK
  <2> QED
    BY <1>5, <2>1, <2>2 DEF SkipLine, FatalLine, queueVars, ConfigurationTypeOK
<1>6. CASE EndParse \/ Close
  BY <1>6 DEF EndParse, Close, configVars, queueVars, ConfigurationTypeOK
<1>7. CASE AddTable
  BY <1>7 DEF AddTable, configVars, ConfigurationTypeOK
<1>8. ASSUME NEW r \in 1 .. MaxTables, Compact(r)
      PROVE  ConfigurationTypeOK'
  <2>1. NumToCompact \in Nat
    BY PowerAssumption DEF ConfigurationTypeOK, NumToCompact, UnsignedConfigs, UnsignedRange
  <2>2. tables' \in Nat /\ start' \in Nat
    BY <1>8, <2>1, ConfigurationAssumption DEF Compact, ConfigurationTypeOK
  <2> QED
    BY <1>8, <2>2 DEF Compact, configVars, ConfigurationTypeOK
<1> QED
  BY <1>1, <1>2, <1>3, <1>4, <1>5, <1>6, <1>7, <1>8 DEF ConfigurationNext

\* The variables of the configuration keep their types: a number that is too
\* large, or negative, is cut to the width of its variable by setConfig, and
\* the position of the next compaction stays a natural number.
THEOREM ConfigurationIsTyped == ConfigurationSpec => []ConfigurationTypeOK
<1> QED
  BY TypeInit, TypeStep, PTL DEF ConfigurationSpec

-----------------------------------------------------------------------------
\* The lines that set a variable.
Setting(c) == {i \in DOMAIN lines : Applies(lines[i]) /\ lines[i].name = c}

ValueOf(c) == IF Setting(c) = {} THEN initial[c] ELSE Converted(lines[Max(Setting(c))])

\* A line that is not applied to c leaves what the lines say of c.
LEMMA OtherLineSays ==
    ASSUME lines \in Seq(Lines), NEW l \in Lines, lines' = Append(lines, l), initial' = initial,
           NEW c, ~(Applies(l) /\ l.name = c)
    PROVE  ValueOf(c)' = ValueOf(c)
<1> DEFINE n == Len(lines)
<1>1. n \in Nat /\ DOMAIN lines = 1 .. n
  OBVIOUS
<1>2. DOMAIN lines' = 1 .. n + 1 /\ lines'[n + 1] = l
  OBVIOUS
<1>3. \A i \in 1 .. n : lines'[i] = lines[i]
  OBVIOUS
<1> HIDE DEF n
<1>4. Setting(c)' = Setting(c)
  <2>1. ASSUME NEW i \in Setting(c)'
        PROVE  i \in Setting(c)
    <3>1. i \in 1 .. n + 1 /\ Applies(lines'[i]) /\ lines'[i].name = c
      BY <1>2 DEF Setting, Applies, IsRejected, IsFatal
    <3>2. i # n + 1
      BY <1>2, <3>1
    <3>3. i \in 1 .. n
      BY <1>1, <3>1, <3>2
    <3> QED
      BY <1>1, <1>3, <3>1, <3>3 DEF Setting
  <2>2. ASSUME NEW i \in Setting(c)
        PROVE  i \in Setting(c)'
    <3>1. i \in 1 .. n /\ Applies(lines[i]) /\ lines[i].name = c
      BY <1>1 DEF Setting
    <3>2. i \in 1 .. n + 1 /\ lines'[i] = lines[i]
      BY <1>1, <1>3, <3>1
    <3> QED
      BY <1>2, <3>1, <3>2 DEF Setting, Applies, IsRejected, IsFatal
  <2> QED
    BY <2>1, <2>2
<1>5. CASE Setting(c) = {}
  BY <1>4, <1>5 DEF ValueOf
<1>6. CASE Setting(c) # {}
  <2>1. Setting(c) \subseteq 1 .. n
    BY <1>1 DEF Setting
  <2>2. Max(Setting(c)) \in 1 .. n
    BY <1>1, <1>6, <2>1, MaxInRange
  <2>3. lines'[Max(Setting(c))] = lines[Max(Setting(c))]
    BY <1>3, <2>2
  <2>4. ValueOf(c) = Converted(lines[Max(Setting(c))])
    BY <1>6 DEF ValueOf
  <2>5. ValueOf(c)' = Converted(lines'[Max(Setting(c))])
    BY <1>4, <1>6 DEF ValueOf, Converted, Stoul, Stoi
  <2> QED
    BY <2>3, <2>4, <2>5
<1> QED
  BY <1>5, <1>6

\* A line that is applied to c says what c is from now on.
LEMMA AppliedLineSays ==
    ASSUME lines \in Seq(Lines), NEW l \in Lines, lines' = Append(lines, l), Applies(l)
    PROVE  ValueOf(l.name)' = Converted(l)
<1> DEFINE n == Len(lines)
           c == l.name
<1>1. n \in Nat /\ DOMAIN lines' = 1 .. n + 1 /\ lines'[n + 1] = l
  OBVIOUS
<1> HIDE DEF n
<1>2. n + 1 \in Setting(c)'
  BY <1>1 DEF Setting, Applies, IsRejected, IsFatal
<1>3. Setting(c)' \subseteq 1 .. n + 1
  BY <1>1 DEF Setting
<1>4. Setting(c)' \subseteq Nat /\ \A i \in Setting(c)' : n + 1 >= i
  BY <1>1, <1>3
<1>5. Max(Setting(c)') = n + 1
  BY <1>2, <1>4, MaxIs
<1>6. ValueOf(c)' = Converted(lines'[Max(Setting(c)')])
  BY <1>2 DEF ValueOf, Converted, Stoul, Stoi
<1> QED
  BY <1>1, <1>5, <1>6

LEMMA LastLineInit == ConfigurationInit => LastLineWins
<1> SUFFICES ASSUME ConfigurationInit, NEW c \in Configs
             PROVE  config[c] = ValueOf(c)
  BY DEF LastLineWins, ValueOf, Setting
<1>1. lines = <<>> /\ config = initial
  BY DEF ConfigurationInit
<1>2. Setting(c) = {}
  BY <1>1 DEF Setting
<1> QED
  BY <1>1, <1>2 DEF ValueOf

LEMMA LastLineStep ==
    ConfigurationTypeOK /\ LastLineWins /\ [ConfigurationNext]_configurationVars => LastLineWins'
<1> SUFFICES ASSUME ConfigurationTypeOK, LastLineWins, [ConfigurationNext]_configurationVars,
                    NEW c \in Configs
             PROVE  config'[c] = ValueOf(c)'
  BY DEF LastLineWins, ValueOf, Setting
<1>a. config[c] = ValueOf(c)
  BY DEF LastLineWins, ValueOf, Setting
<1>b. lines \in Seq(Lines) /\ DOMAIN config = Configs
  BY DEF ConfigurationTypeOK
<1>1. CASE UNCHANGED <<config, initial, lines>>
  BY <1>1, <1>a DEF ValueOf, Setting, Applies, IsRejected, IsFatal, Converted, Stoul, Stoi
<1>2. CASE BeginParse
  <2>1. lines' = <<>> /\ config' = config /\ initial' = config
    BY <1>2 DEF BeginParse
  <2>2. Setting(c)' = {}
    BY <2>1 DEF Setting
  <2> QED
    BY <2>1, <2>2 DEF ValueOf
<1>3. ASSUME NEW l \in Lines, ApplyLine(l)
      PROVE  config'[c] = ValueOf(c)'
  <2>1. /\ config' = [config EXCEPT ![l.name] = Converted(l)]
        /\ lines' = Append(lines, l) /\ initial' = initial /\ Applies(l)
    BY <1>3 DEF ApplyLine
  <2>2. CASE c = l.name
    BY <1>b, <2>1, <2>2, AppliedLineSays
  <2>3. CASE c # l.name
    BY <1>a, <1>b, <2>1, <2>3, OtherLineSays
  <2> QED
    BY <2>2, <2>3
<1>4. ASSUME NEW l \in Lines, SkipLine(l) \/ FatalLine(l)
      PROVE  config'[c] = ValueOf(c)'
  <2>1. config' = config /\ lines' = Append(lines, l) /\ initial' = initial /\ ~Applies(l)
    BY <1>4 DEF SkipLine, FatalLine, Applies
  <2> QED
    BY <1>a, <1>b, <2>1, OtherLineSays
<1>5. ASSUME NEW r, Compact(r)
      PROVE  UNCHANGED <<config, initial, lines>>
  BY <1>5 DEF Compact, configVars
<1>6. CASE MissingFile \/ EndParse \/ AddTable \/ Close
  BY <1>1, <1>6 DEF MissingFile, EndParse, AddTable, Close, configVars
<1>7. CASE UNCHANGED configurationVars
  BY <1>1, <1>7 DEF configurationVars, configVars
<1> QED
  BY <1>1, <1>2, <1>3, <1>4, <1>5, <1>6, <1>7 DEF ConfigurationNext

\* The lines with a value that cannot be converted.
Fatal == {i \in DOMAIN lines : IsFatal(lines[i])}

\* Whether a line is one of them does not depend on the state.
LEMMA FatalFrame ==
    ASSUME UNCHANGED lines
    PROVE  Fatal' = Fatal
BY DEF Fatal, IsFatal, StoulThrows, StoiThrows

\* A line that is read joins them when its value cannot be converted.
LEMMA FatalAppend ==
    ASSUME lines \in Seq(Lines), NEW l \in Lines, lines' = Append(lines, l)
    PROVE  Fatal' = IF IsFatal(l) THEN Fatal \cup {Len(lines)'} ELSE Fatal
<1> DEFINE n == Len(lines)
<1>1. n \in Nat /\ DOMAIN lines = 1 .. n
  OBVIOUS
<1>2. DOMAIN lines' = 1 .. n + 1 /\ lines'[n + 1] = l /\ Len(lines)' = n + 1
  OBVIOUS
<1>3. \A i \in 1 .. n : lines'[i] = lines[i]
  OBVIOUS
<1>4. Fatal' = {i \in DOMAIN lines' : IsFatal(lines'[i])}
  BY DEF Fatal, IsFatal, StoulThrows, StoiThrows
<1> HIDE DEF n
<1>5. DOMAIN lines' = DOMAIN lines \cup {n + 1}
  BY <1>1, <1>2
<1>6. {i \in DOMAIN lines' : IsFatal(lines'[i])} =
          Fatal \cup {i \in {n + 1} : IsFatal(lines'[i])}
  BY <1>1, <1>3, <1>5 DEF Fatal
<1> QED
  BY <1>2, <1>4, <1>6

LEMMA FatalInit == ConfigurationInit => FatalLineEndsParse
BY DEF ConfigurationInit, FatalLineEndsParse

LEMMA FatalStep ==
    /\ ConfigurationTypeOK /\ FatalLineEndsParse /\ [ConfigurationNext]_configurationVars
    => FatalLineEndsParse'
<1> SUFFICES ASSUME ConfigurationTypeOK, FatalLineEndsParse,
                    [ConfigurationNext]_configurationVars
             PROVE  FatalLineEndsParse'
  OBVIOUS
<1>a. /\ Fatal = IF threw /\ lines # <<>> THEN {Len(lines)} ELSE {}
      /\ threw => phase = "none"
  BY DEF FatalLineEndsParse, Fatal
<1>b. lines \in Seq(Lines)
  BY DEF ConfigurationTypeOK
<1>c. ASSUME Fatal' = (IF threw /\ lines # <<>> THEN {Len(lines)} ELSE {})',
             (threw => phase = "none")'
      PROVE  FatalLineEndsParse'
  <2>1. Fatal' = {i \in DOMAIN lines' : IsFatal(lines'[i])}
    BY DEF Fatal, IsFatal, StoulThrows, StoiThrows
  <2> QED
    BY <1>c, <2>1 DEF FatalLineEndsParse, IsFatal, StoulThrows, StoiThrows
<1>1. CASE UNCHANGED <<lines, threw>> /\ (threw => phase' = "none")
  BY <1>1, <1>a, <1>c, FatalFrame
<1>2. CASE BeginParse
  <2>1. lines' = <<>> /\ threw' = FALSE
    BY <1>2 DEF BeginParse
  <2>2. Fatal' = {}
    BY <2>1 DEF Fatal
  <2> QED
    BY <1>c, <2>1, <2>2
<1>3. CASE MissingFile
  <2>1. lines = <<>> /\ lines' = lines /\ phase' = "none"
    BY <1>3 DEF MissingFile
  <2>2. Fatal' = {}
    BY <1>a, <2>1, FatalFrame
  <2> QED
    BY <1>c, <2>1, <2>2
<1>4. ASSUME NEW l \in Lines, ApplyLine(l) \/ SkipLine(l)
      PROVE  FatalLineEndsParse'
  <2>1. /\ phase = "parsing" /\ phase' = phase /\ threw' = threw
        /\ lines' = Append(lines, l)
    BY <1>4 DEF ApplyLine, SkipLine, MoreLines
  <2>2. ~IsFatal(l)
    <3>1. CASE Applies(l)
      BY <3>1 DEF Applies
    <3>2. CASE l = OtherLine
      BY <3>2 DEF OtherLine, IsFatal, UnsignedConfigs, BoolConfigs
    <3>3. CASE IsRejected(l)
      BY <3>3, ConfigsAreDisjoint DEF IsRejected, IsFatal, Configs
    <3> QED
      BY <1>4, <3>1, <3>2, <3>3 DEF ApplyLine, SkipLine
  <2>3. Fatal' = Fatal
    BY <1>b, <2>1, <2>2, FatalAppend
  <2> QED
    BY <1>a, <1>c, <2>1, <2>3
<1>5. ASSUME NEW l \in Lines, FatalLine(l)
      PROVE  FatalLineEndsParse'
  <2>1. /\ phase = "parsing" /\ phase' = "none" /\ threw' = TRUE
        /\ lines' = Append(lines, l) /\ IsFatal(l)
    BY <1>5 DEF FatalLine, MoreLines
  <2>2. Fatal = {} /\ lines' # <<>>
    BY <1>a, <1>b, <2>1
  <2>3. Fatal' = {Len(lines)'}
    BY <1>b, <2>1, <2>2, FatalAppend
  <2> QED
    BY <1>c, <2>1, <2>2, <2>3
<1>6. ASSUME NEW r, Compact(r)
      PROVE  UNCHANGED <<lines, threw, phase>>
  BY <1>6 DEF Compact, configVars
<1>7. CASE EndParse \/ AddTable \/ Close
  BY <1>1, <1>7, <1>a DEF EndParse, AddTable, Close, configVars
<1>8. CASE UNCHANGED configurationVars
  BY <1>1, <1>8, <1>a DEF configurationVars, configVars
<1> QED
  BY <1>1, <1>2, <1>3, <1>4, <1>5, <1>6, <1>7, <1>8, <1>a DEF ConfigurationNext

\* A variable has the value of the last line that sets it, or what it had
\* before the file was read; a line that updateConfig rejects changes nothing,
\* and one whose value cannot be converted is the last that the constructor
\* reads.
THEOREM FilesAreApplied == ConfigurationSpec => []ParsedFileIsApplied
<1>1. ConfigurationInit => LastLineWins /\ FatalLineEndsParse
  BY LastLineInit, FatalInit
<1>2. /\ ConfigurationTypeOK /\ LastLineWins /\ FatalLineEndsParse
      /\ [ConfigurationNext]_configurationVars
      => (LastLineWins /\ FatalLineEndsParse)'
  BY LastLineStep, FatalStep
<1> QED
  BY <1>1, <1>2, TypeInit, TypeStep, PTL DEF ConfigurationSpec, ParsedFileIsApplied

-----------------------------------------------------------------------------
\* The position of the next compaction is in the queue.
StartInQueue == start <= tables /\ tables <= MaxTables

LEMMA StartInit == ConfigurationInit => StartInQueue
BY ConfigurationAssumption DEF ConfigurationInit, StartInQueue

LEMMA StartStep ==
    /\ ConfigurationTypeOK /\ StartInQueue /\ [ConfigurationNext]_configurationVars
    => StartInQueue'
<1> SUFFICES ASSUME ConfigurationTypeOK, StartInQueue, [ConfigurationNext]_configurationVars
             PROVE  StartInQueue'
  OBVIOUS
<1>a. tables \in Nat /\ start \in Nat /\ MaxTables \in Nat
  BY ConfigurationAssumption DEF ConfigurationTypeOK
<1>1. CASE UNCHANGED queueVars
  BY <1>1 DEF queueVars, StartInQueue
<1>2. CASE BeginParse
  BY <1>2, <1>a DEF BeginParse, StartInQueue
<1>3. CASE AddTable
  BY <1>3, <1>a DEF AddTable, StartInQueue
<1>4. ASSUME NEW r \in 1 .. MaxTables, Compact(r)
      PROVE  StartInQueue'
  <2>1. PICK n \in Nat : n = NumToCompact
    BY PowerAssumption DEF ConfigurationTypeOK, NumToCompact, UnsignedConfigs, UnsignedRange
  <2>2. /\ start + 1 + n <= tables /\ r <= n /\ r \in Nat
        /\ tables' = tables - n - 1 + r /\ start' = start + r - 1
    BY <1>4, <2>1 DEF Compact
  <2> QED
    BY <1>a, <2>2 DEF StartInQueue
<1>5. ASSUME NEW l, ApplyLine(l) \/ SkipLine(l) \/ FatalLine(l)
      PROVE  UNCHANGED queueVars
  BY <1>5 DEF ApplyLine, SkipLine, FatalLine
<1>6. CASE MissingFile \/ EndParse \/ Close \/ UNCHANGED configurationVars
  BY <1>1, <1>6 DEF MissingFile, EndParse, Close, configurationVars
<1> QED
  BY <1>1, <1>2, <1>3, <1>4, <1>5, <1>6 DEF ConfigurationNext

\* The casts of tryLaunchCompaction do not change a number that is an int, nor
\* the -1 of an empty queue.
LEMMA CastIsExact ==
    ASSUME NEW n \in -1 .. MaxInt
    PROVE  ToInt(n % 2 ^ LongBits) = n
<1>1. PICK h \in Int : h = 2 ^ (UnsignedBits - 1)
  BY ConfigurationAssumption
<1>2. PICK u \in Nat \ {0} : u = 2 ^ UnsignedBits
  BY PowerAssumption
<1>3. PICK k \in Nat \ {0} : k = 2 ^ (LongBits - UnsignedBits)
  BY PowerAssumption
<1>4. u = 2 * h /\ 2 ^ LongBits = k * u
  BY <1>1, <1>2, <1>3, PowerAssumption
<1>5. MaxInt = h - 1 /\ n \in -1 .. h - 1
  BY <1>1 DEF MaxInt
<1>6. k * u \in Nat /\ k * u >= u
  <2>1. k * u \in Nat /\ (k - 1) * u >= 0 /\ k * u = (k - 1) * u + u
    OBVIOUS
  <2> QED
    BY <2>1
<1>7. CASE n >= 0
  <2>1. n \in Nat /\ n < u /\ n < k * u /\ k * u \in Nat \ {0}
    BY <1>4, <1>5, <1>6, <1>7
  <2>2. n % (k * u) = n
    BY <2>1
  <2>3. n % u = n
    BY <2>1
  <2>4. ~(n > MaxInt)
    BY <1>5
  <2> QED
    BY <1>2, <1>4, <2>2, <2>3, <2>4 DEF ToInt
<1>8. CASE n = -1
  <2>1. n % (k * u) = k * u - 1
    BY <1>6, <1>8
  <2>2. (k * u - 1) % u = u - 1
    OBVIOUS
  <2>3. u - 1 > MaxInt
    BY <1>4, <1>5
  <2>4. u - 1 - u = n
    BY <1>8
  <2> QED
    BY <1>2, <1>4, <2>1, <2>2, <2>3, <2>4 DEF ToInt
<1> QED
  BY <1>5, <1>7, <1>8

LEMMA CastOfInt ==
    ASSUME NEW n \in 0 .. MaxInt
    PROVE  ToInt(n) = n
<1>1. PICK h \in Int : h = 2 ^ (UnsignedBits - 1)
  BY ConfigurationAssumption
<1>2. PICK u \in Nat \ {0} : u = 2 ^ UnsignedBits
  BY PowerAssumption
<1>3. MaxInt = h - 1 /\ u = 2 * h
  BY <1>1, <1>2, PowerAssumption DEF MaxInt
<1>4. n \in Nat /\ n < u /\ ~(n > MaxInt)
  BY <1>3
<1>5. n % u = n
  BY <1>4
<1> QED
  BY <1>2, <1>4, <1>5 DEF ToInt

LEMMA MaxIntNatural == MaxInt \in Nat
<1>1. PICK h \in Int : h = 2 ^ (UnsignedBits - 1)
  BY ConfigurationAssumption
<1>2. PICK u \in Nat \ {0} : u = 2 ^ UnsignedBits
  BY PowerAssumption
<1>3. u = 2 * h
  BY <1>1, <1>2, PowerAssumption
<1> QED
  BY <1>1, <1>3 DEF MaxInt

\* A number that is no int is negative after the cast.
LEMMA CastOfLarge ==
    ASSUME NEW n \in UnsignedRange, n > MaxInt
    PROVE  ToInt(n) \in Int /\ ToInt(n) <= -1
<1>1. PICK h \in Int : h = 2 ^ (UnsignedBits - 1)
  BY ConfigurationAssumption
<1>2. PICK u \in Nat \ {0} : u = 2 ^ UnsignedBits
  BY PowerAssumption
<1>3. n \in 0 .. u - 1
  BY <1>2 DEF UnsignedRange
<1>4. n % u = n
  BY <1>2, <1>3
<1>5. ToInt(n) = n - u
  BY <1>2, <1>4 DEF ToInt
<1> QED
  BY <1>2, <1>3, <1>5

\* As long as there are no more tables than an int can count,
\* tryLaunchCompaction starts a compaction exactly when there are
\* NUM_SSTABLE_TO_COMPACT new tables, if that number is an int: the
\* conversions of the difference to size_t and of both sides to int change
\* nothing.  If it is larger, a compaction starts with any queue.
THEOREM DecisionIsExact ==
    ASSUME MaxTables <= MaxInt + 1
    PROVE  ConfigurationSpec => []CompactionDecisionIsExact
<1>1. ConfigurationTypeOK /\ StartInQueue => CompactionDecisionIsExact
  <2> SUFFICES ASSUME ConfigurationTypeOK, StartInQueue
               PROVE  StartsCompaction <=>
                          \/ NumToCompact \in 1 .. MaxInt /\ tables - start - 1 >= NumToCompact
                          \/ NumToCompact > MaxInt
    BY DEF CompactionDecisionIsExact
  <2>1. MaxInt \in Int
    BY ConfigurationAssumption DEF MaxInt
  <2>2. PICK n \in UnsignedRange : n = NumToCompact
    BY DEF ConfigurationTypeOK, NumToCompact, UnsignedConfigs
  <2>a. n \in Nat
    BY PowerAssumption DEF UnsignedRange
  <2>3. PICK d \in -1 .. MaxInt : d = tables - start - 1
    <3>1. tables \in Nat /\ start \in Nat /\ MaxTables \in Nat
      BY ConfigurationAssumption DEF ConfigurationTypeOK
    <3>2. tables - start - 1 \in -1 .. MaxInt
      BY <2>1, <3>1 DEF StartInQueue
    <3> QED
      BY <3>2
  <2>4. ToInt(d % 2 ^ LongBits) = d
    BY CastIsExact
  <2>5. StartsCompaction <=> n > 0 /\ d >= ToInt(n)
    BY <2>2, <2>3, <2>4 DEF StartsCompaction
  <2>6. CASE n > MaxInt
    <3>1. ToInt(n) \in Int /\ ToInt(n) <= -1
      BY <2>6, CastOfLarge
    <3>2. MaxInt >= 0
      BY MaxIntNatural
    <3> QED
      BY <2>1, <2>2, <2>3, <2>5, <2>6, <2>a, <3>1, <3>2
  <2>7. CASE ~(n > MaxInt)
    <3>1. ToInt(n) = n
      BY <2>1, <2>7, <2>a, CastOfInt
    <3> QED
      BY <2>1, <2>2, <2>3, <2>5, <2>7, <2>a, <3>1
  <2> QED
    BY <2>6, <2>7
<1> QED
  BY <1>1, TypeInit, TypeStep, StartInit, StartStep, PTL DEF ConfigurationSpec
=============================================================================
