---------------------------- MODULE Configuration ---------------------------
(***************************************************************************)
(* The configuration: ConfigParser reads a file line by line into global   *)
(* variables, which the databases of a process share, and the number       *)
(* NUM_SSTABLE_TO_COMPACT among them decides when a compaction starts.     *)
(* The numbers have widths here: stoul returns a number of LongBits, which *)
(* is cut to the UnsignedBits of the variable, and the decision is made    *)
(* with ints of as many bits.                                              *)
(*                                                                         *)
(* A line of the file that the regular expression does not match is        *)
(* OtherLine.  Any other has a name and a text.  A text begins, maybe with *)
(* a sign, with a number or it does not; what follows is not looked at.    *)
(***************************************************************************)
EXTENDS Integers, Sequences, FiniteSetsExt

CONSTANTS
    LongBits, UnsignedBits,  \* 64 and 32
    Lines,                   \* the lines explored
    Default,                 \* the values the variables begin with
    MaxLines,                \* how long a file is
    MaxDatabases,            \* how many databases a process opens
    MaxTables                \* how many SSTables they have

UnsignedConfigs ==
    {"MEMTABLE_APPROXIMATE_MAX_SIZE_IN_BYTES", "SSTABLE_APPROXIMATE_MAX_SIZE_IN_BYTES",
     "SSTABLE_INDEX_BLOCK_SIZE_IN_BYTES", "NUM_SSTABLE_TO_COMPACT"}
BoolConfigs == {"KEEP_SSTABLE_FILE_OPEN"}
StringConfigs == {"DB_FILE_PATH"}
Configs == UnsignedConfigs \cup BoolConfigs \cup StringConfigs

OtherLine == [name |-> "", text |-> ""]

UnsignedRange == 0 .. 2 ^ UnsignedBits - 1
MaxInt == 2 ^ (UnsignedBits - 1) - 1

\* A text: whether it begins with a number, the sign and the digits of it.
IsText(t) == t.isNumber \in BOOLEAN /\ t.sign \in {-1, 1} /\ t.digits \in Nat

ASSUME ConfigurationAssumption ==
    /\ UnsignedBits \in Nat \ {0} /\ LongBits \in Nat /\ LongBits >= UnsignedBits
    /\ MaxLines \in Nat /\ MaxDatabases \in Nat /\ MaxTables \in Nat
    /\ \A l \in Lines : l = OtherLine \/ IsText(l.text)
    /\ DOMAIN Default = Configs
    /\ \A c \in UnsignedConfigs : Default[c] \in UnsignedRange

\* What the proofs, which do not know the powers of two, need of them.
ASSUME PowerAssumption ==
    /\ 2 ^ UnsignedBits \in Nat \ {0} /\ 2 ^ (LongBits - UnsignedBits) \in Nat \ {0}
    /\ 2 ^ UnsignedBits = 2 * 2 ^ (UnsignedBits - 1)
    /\ 2 ^ LongBits = 2 ^ (LongBits - UnsignedBits) * 2 ^ UnsignedBits

VARIABLES
    config,     \* the variables of db_config
    phase,      \* "none": no database, "parsing": in its constructor, "open"
    initial,    \* history: config when the last constructor began
    lines,      \* history: what it has read of its file
    threw,      \* history: it has ended with an exception
    databases,  \* the number of databases so far
    tables,     \* m_queue.size() of the SSTableIndexQueue
    start       \* m_compactionStartIndex

configVars == <<config, initial, lines, threw>>
queueVars == <<tables, start>>
configurationVars == <<configVars, phase, databases, queueVars>>

ConfigurationTypeOK ==
    /\ DOMAIN config = Configs
    /\ \A c \in UnsignedConfigs : config[c] \in UnsignedRange
    /\ phase \in {"none", "parsing", "open"}
    /\ lines \in Seq(Lines)
    /\ threw \in BOOLEAN
    /\ tables \in Nat /\ start \in Nat

ConfigurationInit ==
    /\ config = Default
    /\ phase = "none"
    /\ initial = Default
    /\ lines = <<>>
    /\ threw = FALSE
    /\ databases = 0
    /\ tables = 0
    /\ start = 0

-----------------------------------------------------------------------------
\* The conversions.  Each of them may throw: invalid_argument and
\* out_of_range are no DbExceptions.

StoulThrows(t) == ~t.isNumber \/ t.digits >= 2 ^ LongBits
Stoul(t) == (t.sign * t.digits) % 2 ^ LongBits

StoiThrows(t) == ~t.isNumber \/ t.sign * t.digits \notin -MaxInt - 1 .. MaxInt
Stoi(t) == t.sign * t.digits

\* updateConfig ends with a DbException.
IsRejected(l) ==
    \/ l.name \notin Configs
    \/ l.name \in BoolConfigs /\ ~StoiThrows(l.text) /\ Stoi(l.text) \notin {0, 1}

\* updateConfig ends with another exception.
IsFatal(l) ==
    \/ l.name \in UnsignedConfigs /\ StoulThrows(l.text)
    \/ l.name \in BoolConfigs /\ StoiThrows(l.text)

\* Mutant: the whole number is stored.
MutantConverted(l) ==
    CASE l.name \in UnsignedConfigs -> Stoul(l.text)
      [] l.name \in BoolConfigs -> Stoi(l.text) = 1
      [] l.name \in StringConfigs -> l.text

\* What setConfig stores.
Converted(l) ==
    CASE l.name \in UnsignedConfigs -> Stoul(l.text) % 2 ^ UnsignedBits
      [] l.name \in BoolConfigs -> Stoi(l.text) = 1
      [] l.name \in StringConfigs -> l.text

Applies(l) == l # OtherLine /\ ~IsRejected(l) /\ ~IsFatal(l)

-----------------------------------------------------------------------------
\* ConfigParser::parse, called by the constructor.

MoreLines == phase = "parsing" /\ Len(lines) < MaxLines

BeginParse ==
    /\ phase = "none"
    /\ databases < MaxDatabases
    /\ databases' = databases + 1
    /\ phase' = "parsing"
    /\ initial' = config
    /\ lines' = <<>>
    /\ threw' = FALSE
    /\ start' = 0
    /\ UNCHANGED <<config, tables>>

\* The file does not exist: the constructor ends.
MissingFile ==
    /\ phase = "parsing"
    /\ lines = <<>>
    /\ phase' = "none"
    /\ threw' = TRUE
    /\ UNCHANGED <<config, initial, lines, databases, queueVars>>

ApplyLine(l) ==
    /\ MoreLines
    /\ Applies(l)
    /\ config' = [config EXCEPT ![l.name] = Converted(l)]
    /\ lines' = Append(lines, l)
    /\ UNCHANGED <<phase, initial, threw, databases, queueVars>>

SkipLine(l) ==
    /\ MoreLines
    /\ l = OtherLine \/ IsRejected(l)
    /\ lines' = Append(lines, l)
    /\ UNCHANGED <<config, phase, initial, threw, databases, queueVars>>

\* Mutant: every exception is caught, and the line skipped.
MutantFatalLine(l) ==
    /\ MoreLines
    /\ l # OtherLine /\ ~IsRejected(l) /\ IsFatal(l)
    /\ lines' = Append(lines, l)
    /\ UNCHANGED <<config, initial, threw, phase, databases, queueVars>>

\* The constructor ends.  What the lines before have set stays set.
FatalLine(l) ==
    /\ MoreLines
    /\ l # OtherLine /\ ~IsRejected(l) /\ IsFatal(l)
    /\ lines' = Append(lines, l)
    /\ threw' = TRUE
    /\ phase' = "none"
    /\ UNCHANGED <<config, initial, databases, queueVars>>

\* Mutant: a variable that no line sets gets its default back.
MutantEndParse ==
    /\ phase = "parsing"
    /\ phase' = "open"
    /\ config' = [c \in Configs |->
                      IF \E i \in DOMAIN lines : lines[i].name = c THEN config[c] ELSE Default[c]]
    /\ UNCHANGED <<initial, lines, threw, databases, queueVars>>

\* The end of the file, or no file at all.
EndParse ==
    /\ phase = "parsing"
    /\ phase' = "open"
    /\ UNCHANGED <<configVars, databases, queueVars>>

Close ==
    /\ phase = "open"
    /\ phase' = "none"
    /\ UNCHANGED <<configVars, databases, queueVars>>

-----------------------------------------------------------------------------
(***************************************************************************)
(* tryLaunchCompaction.  m_queue.size() - m_compactionStartIndex - 1 is a  *)
(* size_t, and both sides of the comparison are cut to an int.             *)
(***************************************************************************)
ToInt(n) ==
    LET low == n % 2 ^ UnsignedBits
    IN  IF low > MaxInt THEN low - 2 ^ UnsignedBits ELSE low

NumToCompact == config["NUM_SSTABLE_TO_COMPACT"]

\* Mutant: without the casts, the comparison is one of unsigned numbers.
MutantStartsCompaction ==
    /\ NumToCompact > 0
    /\ (tables - start - 1) % 2 ^ LongBits >= NumToCompact

StartsCompaction ==
    /\ NumToCompact > 0
    /\ ToInt((tables - start - 1) % 2 ^ LongBits) >= ToInt(NumToCompact)

\* insert.
AddTable ==
    /\ phase = "open"
    /\ tables < MaxTables
    /\ tables' = tables + 1
    /\ UNCHANGED <<configVars, phase, databases, start>>

\* A compaction and its update, with a result of r tables.  (Of a range that
\* is not in the queue nothing is said.)
Compact(r) ==
    /\ phase = "open"
    /\ StartsCompaction
    /\ start + 1 + NumToCompact <= tables
    /\ r \in 1 .. NumToCompact
    /\ tables' = tables - NumToCompact - 1 + r
    /\ start' = start + r - 1
    /\ UNCHANGED <<configVars, phase, databases>>

ConfigurationNext ==
    \/ BeginParse \/ MissingFile
    \/ \E l \in Lines : ApplyLine(l) \/ SkipLine(l) \/ FatalLine(l)
    \/ EndParse
    \/ AddTable
    \/ \E r \in 1 .. MaxTables : Compact(r)
    \/ Close

ConfigurationSpec == ConfigurationInit /\ [][ConfigurationNext]_configurationVars

-----------------------------------------------------------------------------
\* At every moment of parse, and when it is left by an exception, a variable
\* has the value of the last line that sets it; without one it keeps the
\* value it had, be it the default or what another database has set.
LastLineWins ==
    \A c \in Configs :
        LET setting == {i \in DOMAIN lines : Applies(lines[i]) /\ lines[i].name = c}
        IN  config[c] = IF setting = {} THEN initial[c] ELSE Converted(lines[Max(setting)])

\* A line whose value cannot be converted is the last one: the constructor
\* ends there, nothing behind the line is read, and no other line ends it.
FatalLineEndsParse ==
    /\ {i \in DOMAIN lines : IsFatal(lines[i])} =
           IF threw /\ lines # <<>> THEN {Len(lines)} ELSE {}
    /\ threw => phase = "none"

\* What parse makes of a file, wherever it stops: every line that can be
\* applied is, in order, up to the first one with a value that stoul or stoi
\* cannot convert; that one ends the constructor, and any other is skipped.
ParsedFileIsApplied == LastLineWins /\ FatalLineEndsParse

\* When a compaction starts, for every value of NUM_SSTABLE_TO_COMPACT.  With
\* 0 none does.  With an int one does when there are as many new tables: the
\* casts decide as the numbers would, also when there is no table at all.  A
\* larger number is negative after the cast, and then a compaction starts
\* whatever there is, with no table, too.
CompactionDecisionIsExact ==
    phase = "open" =>
        (StartsCompaction <=>
             \/ NumToCompact \in 1 .. MaxInt /\ tables - start - 1 >= NumToCompact
             \/ NumToCompact > MaxInt)
=============================================================================
