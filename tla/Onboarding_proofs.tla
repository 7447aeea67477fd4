--------------------------- MODULE Onboarding_proofs ---------------------------
(***************************************************************************)
(* What holds of onboarding and the migration command line together, for   *)
(* any URLs, servers, names and files and any mixes of events that satisfy *)
(* MixesAssumption: every variable keeps its type (TablesAreTyped), a      *)
(* rollback undoes exactly what was written (UndoneExactly), what prune    *)
(* removed was served or its catalogue asked for (PrunedAfterAsked), the   *)
(* clients and grants of a connection are of the server it names           *)
(* (CredentialsStayHome), and a row changes its grant only with its version*)
(* (RowsOnlyMoveOn).                                                       *)
(*                                                                         *)
(* The parts are in that order.  CliTyped and UndoInv are of the command   *)
(* line, Typed of the tables and of the requests; Moves then says what a   *)
(* step does to a request, to the row of a connection and to that of a     *)
(* server, and PruneInv and HomeInv are kept by every such step.           *)
(***************************************************************************)
EXTENDS MCOnboarding, SequenceTheorems, FiniteSetTheorems, FunctionTheorems,
        WellFoundedInduction, TLAPS

(***************************************************************************)
(* Sequences and least elements                                            *)
(***************************************************************************)

\* The least of a set of naturals is in the set, and nothing is below it.
LEMMA LeastIsLeast ==
  ASSUME NEW T \in SUBSET Nat, T # {}
  PROVE  Min(T) \in T /\ \A y \in T : Min(T) <= y
<1>1. PICK x \in T : \A y \in T : ~(<<y, x>> \in OpToRel(<, Nat))
  BY NatLessThanWellFounded, WFMin
<1>2. \A y \in T : ~(y < x)
  BY <1>1 DEF OpToRel
<1>3. \A y \in T : x <= y
  BY <1>2
<1> QED BY <1>3 DEF Min

\* A finite set in some order: a sequence of its elements.
LEMMA OrderOfSet ==
  ASSUME NEW S, IsFiniteSet(S)
  PROVE  /\ SetToSeq(S) \in Seq(S)
         /\ S # {} => SetToSeq(S) # <<>>
<1>1. Cardinality(S) \in Nat /\ ExistsBijection(1..Cardinality(S), S)
  BY FS_CardinalityType
<1>2. PICK f : f \in Bijection(1..Cardinality(S), S)
  BY <1>1, Fun_ExistsBij DEF ExistsBijection
<1>3. f \in [1..Cardinality(S) -> S] /\ IsInjective(f)
  BY <1>2 DEF IsInjective, Bijection, Injection
<1>4. SetToSeq(S) \in [1..Cardinality(S) -> S]
  BY <1>3 DEF SetToSeq
<1>5. SetToSeq(S) \in Seq(S)
  BY <1>1, <1>4
<1>6. ASSUME S # {}, SetToSeq(S) = <<>> PROVE FALSE
  <2>1. 1..Cardinality(S) = {}
    BY <1>4, <1>6
  <2>2. Cardinality(S) # 0
    BY <1>6, FS_EmptySet
  <2> QED BY <2>1, <2>2, <1>1
<1> QED BY <1>5, <1>6

\* What a sequence holds when an element is added.
LEMMA RangeOfAppend ==
  ASSUME NEW S, NEW s \in Seq(S), NEW x \in S
  PROVE  Append(s, x) \in Seq(S) /\ Range(Append(s, x)) = Range(s) \cup {x}
<1>1. /\ Append(s, x) \in Seq(S) /\ DOMAIN Append(s, x) = 1..(Len(s) + 1)
      /\ Append(s, x)[Len(s) + 1] = x
      /\ \A i \in 1..Len(s) : Append(s, x)[i] = s[i]
  OBVIOUS
<1>2. DOMAIN s = 1..Len(s) /\ Len(s) \in Nat
  OBVIOUS
<1> QED BY <1>1, <1>2 DEF Range

\* And when its first is taken away.
LEMMA RangeOfTail ==
  ASSUME NEW S, NEW s \in Seq(S), s # <<>>
  PROVE  /\ s[1] \in S /\ s[1] \in Range(s)
         /\ Tail(s) \in Seq(S) /\ Range(s) = {s[1]} \cup Range(Tail(s))
<1>1. /\ Tail(s) \in Seq(S) /\ Len(s) \in Nat \ {0} /\ DOMAIN Tail(s) = 1..(Len(s) - 1)
      /\ \A i \in 1..(Len(s) - 1) : Tail(s)[i] = s[i + 1]
      /\ DOMAIN s = 1..Len(s)
  OBVIOUS
<1>2. ASSUME NEW y \in Range(s), y # s[1]
      PROVE  y \in Range(Tail(s))
  <2>1. PICK i \in 1..Len(s) : y = s[i]
    BY <1>1 DEF Range
  <2>2. i - 1 \in DOMAIN Tail(s) /\ Tail(s)[i - 1] = y
    BY <1>1, <1>2, <2>1
  <2> QED BY <2>2 DEF Range
<1>3. Range(Tail(s)) \subseteq Range(s) /\ s[1] \in Range(s) /\ s[1] \in S
  BY <1>1 DEF Range
<1> QED BY <1>1, <1>2, <1>3

\* And when its last is.
LEMMA LastTaken ==
  ASSUME NEW S, NEW s \in Seq(S), s # <<>>
  PROVE  /\ RemoveAt(s, Len(s)) \in Seq(S)
         /\ DOMAIN RemoveAt(s, Len(s)) = 1..(Len(s) - 1)
         /\ Len(RemoveAt(s, Len(s))) = Len(s) - 1
         /\ \A i \in 1..(Len(s) - 1) : RemoveAt(s, Len(s))[i] = s[i]
         /\ Len(s) \in Nat \ {0} /\ DOMAIN s = 1..Len(s)
<1> DEFINE n == Len(s)
<1>1. n \in Nat \ {0} /\ DOMAIN s = 1..n
  BY EmptySeq
<1>2. /\ SubSeq(s, 1, n - 1) \in Seq(S) /\ Len(SubSeq(s, 1, n - 1)) = n - 1
      /\ \A i \in 1..(n - 1) : SubSeq(s, 1, n - 1)[i] = s[i]
  <2>1. \A i \in 1..(n - 1) : s[i] \in S
    BY <1>1
  <2>2. n - 1 \in Int /\ 1 \in Int
    BY <1>1
  <2>3. SubSeq(s, 1, n - 1) \in Seq(S)
    BY <2>1, <2>2, SubSeqProperties
  <2>4. Len(SubSeq(s, 1, n - 1)) = IF 1 <= n - 1 THEN (n - 1) - 1 + 1 ELSE 0
    BY <2>1, <2>2, SubSeqProperties
  <2>5. \A i \in 1..((n - 1) - 1 + 1) : SubSeq(s, 1, n - 1)[i] = s[1 + i - 1]
    BY <2>1, <2>2, SubSeqProperties
  <2> QED BY <1>1, <2>3, <2>4, <2>5
<1>3. SubSeq(s, n + 1, n) = <<>>
  BY <1>1, SubSeqEmpty
<1>4. RemoveAt(s, n) = SubSeq(s, 1, n - 1)
  BY <1>2, <1>3, ConcatEmptySeq DEF RemoveAt
<1> QED BY <1>1, <1>2, <1>4

(***************************************************************************)
(* The command line                                                        *)
(***************************************************************************)

\* What a file may hold.
Configuration == UNION {[N -> Spelling] : N \in SUBSET Name}
Content == Configuration \cup {Absent, Unreadable}
Copied == File \X Content

CommandStates ==
  [pc : {"idle", "plan", "capture", "write", "commit", "restore", "forget"},
   command : {None, "install", "prune"} \cup Nat,
   plan : Seq(Copied), entries : Seq(Copied), urls : SUBSET Url]

CliTyped ==
  /\ files \in [File -> Content]
  /\ backups \in Seq(Seq(Copied))
  /\ cli \in CommandStates
  /\ cli.pc \in {"capture", "write"} => cli.plan # <<>>
  /\ cli.pc \in {"restore", "forget"} => backups # <<>> /\ cli.command = Len(backups)
  /\ cli.pc = "forget" => cli.entries = <<>> /\ cli.command \notin torn
  /\ died \in BOOLEAN
  /\ torn \subseteq DOMAIN backups

\* What a step of the gateway leaves to the command line.
GatewaySide == UNCHANGED <<files, backups, torn, cli, died>>

CommandSide ==
  /\ \/ PlanPrune \/ Capture \/ Write \/ Commit
     \/ Restore \/ RestoreThrows \/ Forget \/ Forgotten
     \/ InstallCommand \/ PruneCommand \/ RollbackCommand(Len(backups)) \/ Die \/ ForgetDies
  /\ UNCHANGED <<onVars, asVars, regVars>>

\* A step is of the gateway or of the command line.
LEMMA EitherSide ==
  ASSUME [Next]_vars
  PROVE  CommandSide \/ GatewaySide
<1>1. CASE UNCHANGED vars
  BY <1>1 DEF vars, GatewaySide
<1>2. CASE Progress
  BY <1>2 DEF Progress, GatewaySide, CommandSide, CommandStep, migrationVars
<1>3. CASE Event
  <2>1. PICK e \in mix.does :
          \/ UNCHANGED migrationVars
          \/ Commands(e) /\ UNCHANGED <<onVars, asVars, regVars>>
          \/ \E a \in Actor : ImportCommand(a)
    BY <1>3 DEF Event
  <2> QED BY <2>1 DEF Commands, CommandSide, GatewaySide, ImportCommand, migrationVars
<1> QED BY <1>1, <1>2, <1>3 DEF Next

\* What a file that can be read holds.
LEMMA EntriesOfContent ==
  ASSUME CliTyped, NEW f \in File
  PROVE  /\ Entries(f) \subseteq Name
         /\ Readable(f) <=> files[f] \in Configuration
         /\ Readable(f) => files[f] \in [Entries(f) -> Spelling]
<1>1. files[f] \in Content
  BY DEF CliTyped
<1>2. ASSUME files[f] \in Configuration
      PROVE  /\ Readable(f) /\ Entries(f) \subseteq Name
             /\ files[f] \in [Entries(f) -> Spelling]
  <2>1. PICK N \in SUBSET Name : files[f] \in [N -> Spelling]
    BY <1>2 DEF Configuration
  <2>2. Readable(f)
    BY <2>1, MigrationAssumption DEF Readable
  <2>3. Entries(f) = N
    BY <2>1, <2>2 DEF Entries
  <2> QED BY <2>1, <2>2, <2>3
<1>3. ASSUME files[f] \notin Configuration
      PROVE  ~Readable(f) /\ Entries(f) = {}
  BY <1>1, <1>3 DEF Content, Readable, Entries
<1> QED BY <1>2, <1>3

\* What install would write is a configuration, and so is what prune would.
LEMMA EditsAreContent ==
  ASSUME CliTyped, NEW f \in File
  PROVE  /\ With(f, Gateway, Gateway) \in Configuration
         /\ \A names : Readable(f) => Without(f, names) \in Configuration
<1>1. /\ Entries(f) \subseteq Name
      /\ Readable(f) => files[f] \in [Entries(f) -> Spelling]
  BY EntriesOfContent
<1>2. Gateway \in Name /\ Gateway \in Spelling
  BY MigrationAssumption
<1>3. With(f, Gateway, Gateway) \in [Entries(f) \cup {Gateway} -> Spelling]
  <2>1. CASE Readable(f)
    BY <1>1, <1>2, <2>1 DEF With
  <2>2. CASE ~Readable(f)
    <3>1. Entries(f) = {}
      BY <2>2 DEF Entries
    <3> QED BY <1>2, <3>1 DEF With
  <2> QED BY <2>1, <2>2
<1>4. ASSUME NEW names, Readable(f)
      PROVE  Without(f, names) \in [Entries(f) \ names -> Spelling]
  <2>1. files[f] \in [Entries(f) -> Spelling] /\ DOMAIN files[f] = Entries(f)
    BY <1>1, <1>4
  <2> QED BY <2>1 DEF Without, Restrict
<1>5. Entries(f) \cup {Gateway} \in SUBSET Name /\ \A names : Entries(f) \ names \in SUBSET Name
  BY <1>1, <1>2
<1>6. ASSUME NEW names, Readable(f)
      PROVE  Without(f, names) \in Configuration
  <2>1. Entries(f) \ names \in SUBSET Name /\ Without(f, names) \in [Entries(f) \ names -> Spelling]
    BY <1>4, <1>5, <1>6
  <2> QED BY <2>1 DEF Configuration
<1> QED BY <1>3, <1>5, <1>6 DEF Configuration

\* The changes of a command are as many as there are files, at most.
LEMMA ChangesTyped ==
  ASSUME CliTyped
  PROVE  /\ InstallChanges \in SUBSET Copied /\ IsFiniteSet(InstallChanges)
         /\ \A urls : PruneChanges(urls) \in SUBSET Copied /\ IsFiniteSet(PruneChanges(urls))
<1>1. IsFiniteSet(File)
  BY MigrationAssumption
<1>2. InstallChanges \in SUBSET Copied
  BY EditsAreContent DEF InstallChanges, Copied, Content
<1>3. IsFiniteSet(InstallChanges)
  <2> DEFINE G == {g \in File :
                     /\ files[g] # Unreadable
                     /\ files[g] = Absent => g \in Creatable
                     /\ g \in Installable
                     /\ files[g] = Absent \/ With(g, Gateway, Gateway) # files[g]}
             h == [f \in G |-> <<f, With(f, Gateway, Gateway)>>]
  <2>1. IsFiniteSet(G)
    BY <1>1, FS_Subset
  <2>2. h \in Surjection(G, InstallChanges)
    BY DEF Surjection, InstallChanges
  <2> QED BY <2>1, <2>2, FS_Surjection
<1>4. ASSUME NEW urls
      PROVE  PruneChanges(urls) \in SUBSET Copied /\ IsFiniteSet(PruneChanges(urls))
  <2> DEFINE G == {g \in File : Removable(g, urls) # {}}
             h == [f \in G |-> <<f, Without(f, Removable(f, urls))>>]
  <2>1. IsFiniteSet(G)
    BY <1>1, FS_Subset
  <2>2. h \in Surjection(G, PruneChanges(urls))
    BY DEF Surjection, PruneChanges
  <2>3. \A g \in G : Readable(g)
    BY DEF Removable, Entries
  <2>4. PruneChanges(urls) \subseteq Copied
    BY <2>3, EditsAreContent DEF PruneChanges, Copied, Content
  <2>5. IsFiniteSet(PruneChanges(urls))
    BY <2>1, <2>2, FS_Surjection
  <2> QED BY <2>4, <2>5
<1> QED BY <1>2, <1>3, <1>4

\* A command begins with what it will change, in some order.
LEMMA BeginTyped ==
  ASSUME CliTyped, NEW command \in {"install", "prune"}, NEW changes \in SUBSET Copied,
         IsFiniteSet(changes), Begin(command, changes)
  PROVE  /\ CliTyped'
         /\ UNCHANGED <<files, backups, torn, died>>
         /\ \/ cli' = NoCommand
            \/ /\ cli'.pc = "capture" /\ cli'.entries = <<>>
               /\ cli'.urls = {} /\ Range(cli'.plan) \subseteq changes
<1>1. UNCHANGED <<files, backups, torn, died>>
  BY DEF Begin
<1>2. NoCommand \in CommandStates
  BY DEF NoCommand, CommandStates
<1>3. CASE changes = {}
  BY <1>1, <1>2, <1>3 DEF CliTyped, Begin, NoCommand
<1>4. CASE changes # {}
  <2>1. SetToSeq(changes) \in Seq(changes) /\ SetToSeq(changes) # <<>>
    BY <1>4, OrderOfSet
  <2>2. SetToSeq(changes) \in Seq(Copied) /\ Range(SetToSeq(changes)) \subseteq changes
    BY <2>1 DEF Range
  <2>3. cli' = [pc |-> "capture", command |-> command, plan |-> SetToSeq(changes),
                entries |-> <<>>, urls |-> {}]
    BY <1>4 DEF Begin, NoCommand
  <2>4. cli' \in CommandStates
    BY <2>2, <2>3 DEF CommandStates
  <2>5. CliTyped'
    BY <1>1, <2>1, <2>3, <2>4 DEF CliTyped
  <2> QED BY <1>1, <2>2, <2>3, <2>5
<1> QED BY <1>3, <1>4

\* The first of some copies.
LEMMA FrontOfCopies ==
  ASSUME NEW b \in Seq(Copied), NEW n \in 0..Len(b) - 1
  PROVE  SubSeq(b, 1, n) \in Seq(Copied) /\ Range(SubSeq(b, 1, n)) \subseteq Range(b)
<1>1. Len(b) \in Nat /\ n \in Int /\ 1 \in Int /\ n \in Nat /\ n < Len(b)
  OBVIOUS
<1>2. \A i \in 1..n : b[i] \in Copied /\ i \in DOMAIN b
  BY <1>1
<1> DEFINE f == SubSeq(b, 1, n)
<1>3. f \in Seq(Copied)
  BY <1>1, <1>2, SubSeqProperties
<1>4. Len(f) = IF 1 <= n THEN n - 1 + 1 ELSE 0
  BY <1>1, <1>2, SubSeqProperties
<1>5. \A i \in 1..(n - 1 + 1) : f[i] = b[1 + i - 1]
  BY <1>1, <1>2, SubSeqProperties
<1> HIDE DEF f
<1>6. DOMAIN f = 1..n /\ \A i \in 1..n : f[i] = b[i]
  BY <1>1, <1>3, <1>4, <1>5
<1>7. \A i \in DOMAIN f : f[i] \in Range(b)
  BY <1>2, <1>6 DEF Range
<1> QED BY <1>3, <1>7 DEF Range, f

\* The types of the command line, through every step.
LEMMA NextIsTyped ==
  ASSUME CliTyped, CommandSide \/ GatewaySide
  PROVE  CliTyped'
<1> USE DEF CliTyped, CommandStates
<1>1. NoCommand \in CommandStates /\ NoCommand.pc = "idle"
  BY DEF NoCommand
<1>2. CASE GatewaySide
  BY <1>2 DEF GatewaySide
<1>3. CASE InstallCommand
  BY <1>3, ChangesTyped, BeginTyped DEF InstallCommand
<1>4. CASE PruneCommand
  BY <1>1, <1>4 DEF PruneCommand, NoCommand, ServingUrls
<1>5. CASE PlanPrune
  BY <1>5, ChangesTyped, BeginTyped DEF PlanPrune
<1>6. CASE Capture
  <2> DEFINE f == cli.plan[1][1]
  <2>1. cli.plan[1] \in Copied
    BY <1>6, RangeOfTail DEF Capture
  <2>2. <<f, files[f]>> \in Copied
    BY <2>1 DEF Copied
  <2>3. Append(cli.entries, <<f, files[f]>>) \in Seq(Copied)
    BY <2>2, RangeOfAppend
  <2> QED BY <1>6, <2>3 DEF Capture
<1>7. CASE Write
  <2>1. cli.plan[1] \in Copied /\ Tail(cli.plan) \in Seq(Copied)
    BY <1>7, RangeOfTail DEF Write
  <2>2. Len(cli.plan) # 1 => Tail(cli.plan) # <<>>
    <3>1. Len(Tail(cli.plan)) = Len(cli.plan) - 1
      BY <1>7, HeadTailProperties DEF Write
    <3>2. Len(cli.plan) \in Nat /\ Len(<<>>) = 0
      BY EmptySeq
    <3>3. Tail(cli.plan) = <<>> => Len(Tail(cli.plan)) = 0
      BY <3>2
    <3> QED BY <3>1, <3>2, <3>3
  <2>3. files' \in [File -> Content]
    BY <1>7, <2>1 DEF Write, Copied
  <2> QED BY <1>7, <2>1, <2>2, <2>3 DEF Write
<1>8. CASE Commit
  <2>1. /\ Append(backups, cli.entries) \in Seq(Seq(Copied))
        /\ DOMAIN backups \subseteq DOMAIN Append(backups, cli.entries)
    <3>1. backups \in Seq(Seq(Copied)) /\ cli.entries \in Seq(Copied)
      OBVIOUS
    <3> QED BY <3>1
  <2> QED BY <1>1, <1>8, <2>1 DEF Commit
<1>9. CASE RollbackCommand(Len(backups))
  <2>1. Len(backups) \in DOMAIN backups /\ Len(backups) \in Nat /\ backups # <<>>
    BY <1>9 DEF RollbackCommand
  <2>2. backups[Len(backups)] \in Seq(Copied)
    BY <2>1
  <2>3. cli' = [pc |-> "restore", command |-> Len(backups), plan |-> <<>>,
                entries |-> backups[Len(backups)], urls |-> {}]
    BY <1>9 DEF RollbackCommand, NoCommand
  <2>4. cli' \in CommandStates /\ UNCHANGED <<files, backups, torn, died>>
    BY <1>9, <2>1, <2>2, <2>3 DEF RollbackCommand
  <2> QED BY <2>1, <2>3, <2>4
<1>10. CASE Restore
  <2>1. cli.entries[1] \in Copied /\ Tail(cli.entries) \in Seq(Copied)
    BY <1>10, RangeOfTail DEF Restore
  <2>2. files' \in [File -> Content]
    BY <1>10, <2>1 DEF Restore, Copied
  <2> QED BY <1>10, <2>1, <2>2 DEF Restore
<1>11. CASE RestoreThrows \/ Forget
  BY <1>1, <1>11 DEF RestoreThrows, Forget
<1>12. ASSUME cli.pc = "forget", backups' = RemoveAt(backups, cli.command),
              cli' = NoCommand, UNCHANGED <<files, torn, died>>
       PROVE  CliTyped'
  <2>1. /\ cli.command = Len(backups) /\ backups # <<>> /\ backups \in Seq(Seq(Copied))
        /\ cli.command \notin torn
    BY <1>12
  <2>2. /\ RemoveAt(backups, Len(backups)) \in Seq(Seq(Copied))
        /\ DOMAIN RemoveAt(backups, Len(backups)) = 1..(Len(backups) - 1)
        /\ Len(backups) \in Nat \ {0} /\ DOMAIN backups = 1..Len(backups)
    BY <2>1, LastTaken
  <2>3. torn \subseteq 1..(Len(backups) - 1)
    BY <2>1, <2>2
  <2> QED BY <1>1, <1>12, <2>1, <2>2, <2>3
<1>13. CASE Forgotten
  BY <1>12, <1>13 DEF Forgotten
<1>14. CASE ForgetDies
  <2>1. CASE backups' = RemoveAt(backups, cli.command) /\ UNCHANGED torn
    BY <1>12, <1>14, <2>1 DEF ForgetDies
  <2>2. CASE ~(backups' = RemoveAt(backups, cli.command) /\ UNCHANGED torn)
    <3> DEFINE last == backups[cli.command]
    <3>1. PICK n \in 0..Len(last) - 1 :
            /\ backups' = [backups EXCEPT ![cli.command] = SubSeq(last, 1, n)]
            /\ torn' = torn \cup {cli.command}
      BY <1>14, <2>2 DEF ForgetDies
    <3>2. cli.command \in DOMAIN backups /\ last \in Seq(Copied)
      BY <1>14, LastTaken DEF ForgetDies
    <3>3. SubSeq(last, 1, n) \in Seq(Copied)
      BY <3>2, FrontOfCopies
    <3>4. backups' \in Seq(Seq(Copied)) /\ DOMAIN backups' = DOMAIN backups
      BY <3>1, <3>2, <3>3
    <3> QED BY <1>1, <1>14, <3>1, <3>2, <3>4 DEF ForgetDies
  <2> QED BY <2>1, <2>2
<1>15. CASE Die
  BY <1>1, <1>15 DEF Die
<1> QED BY <1>2, <1>3, <1>4, <1>5, <1>6, <1>7, <1>8, <1>9, <1>10, <1>11, <1>13, <1>14, <1>15
    DEF CommandSide

(***************************************************************************)
(* Undoing                                                                 *)
(***************************************************************************)

\* A file is copied once in a backup.
OnceEach(b) == \A d, e \in Range(b) : d[1] = e[1] => d = e
Mentions(b, f) == \E e \in Range(b) : e[1] = f
Mentioned(cs, f) == \E k \in DOMAIN cs : Mentions(cs[k], f)

\* What a file is once some copies were applied, the last one first.
UnwoundOf(cs, fs, f) ==
  LET of(b) == {e \in Range(b) : e[1] = f}
      saved == {k \in DOMAIN cs : of(cs[k]) # {}}
  IN  IF saved = {} THEN fs[f]
      ELSE (CHOOSE e \in of(cs[Min(saved)]) : TRUE)[2]

\* What no copy mentions stays; the rest is what the oldest copy of it holds.
OldestDecides(cs, fs, f) ==
  /\ ~Mentioned(cs, f) => UnwoundOf(cs, fs, f) = fs[f]
  /\ \A k \in DOMAIN cs : \A e \in Range(cs[k]) :
       e[1] = f /\ (\A j \in DOMAIN cs : j < k => ~Mentions(cs[j], f))
         => UnwoundOf(cs, fs, f) = e[2]

\* Copies applied from the newest to the oldest: the oldest of a file decides.
LEMMA OldestCounts ==
  ASSUME NEW cs \in Seq(Seq(Copied)), \A k \in DOMAIN cs : OnceEach(cs[k]),
         NEW fs, NEW f
  PROVE  OldestDecides(cs, fs, f)
<1> DEFINE of(b) == {e \in Range(b) : e[1] = f}
           saved == {k \in DOMAIN cs : of(cs[k]) # {}}
<1>1. saved \in SUBSET Nat
  OBVIOUS
<1>2. UnwoundOf(cs, fs, f) = IF saved = {} THEN fs[f]
                             ELSE (CHOOSE e \in of(cs[Min(saved)]) : TRUE)[2]
  BY DEF UnwoundOf
<1>3. ASSUME ~Mentioned(cs, f) PROVE UnwoundOf(cs, fs, f) = fs[f]
  <2>1. saved = {}
    BY <1>3 DEF Mentioned, Mentions
  <2> QED BY <1>2, <2>1
<1>4. ASSUME NEW k \in DOMAIN cs, NEW e \in Range(cs[k]), e[1] = f,
             \A j \in DOMAIN cs : j < k => ~Mentions(cs[j], f)
      PROVE  UnwoundOf(cs, fs, f) = e[2]
  <2>1. k \in saved
    BY <1>4
  <2>2. Min(saved) \in saved /\ \A y \in saved : Min(saved) <= y
    BY <1>1, <2>1, LeastIsLeast
  <2>3. ~(Min(saved) < k)
    BY <1>4, <2>2 DEF Mentions
  <2>4. Min(saved) \in Nat /\ k \in Nat /\ Min(saved) <= k
    BY <1>1, <2>1, <2>2
  <2>5. Min(saved) = k
    BY <2>3, <2>4
  <2>6. of(cs[k]) = {e}
    BY <1>4 DEF OnceEach
  <2> QED BY <1>2, <2>1, <2>5, <2>6
<1> QED BY <1>3, <1>4 DEF OldestDecides

\* A newer copy changes nothing for a file an older one mentions.
NewerDecides(cs, b, fs, gs, f) ==
  /\ Mentioned(cs, f) => UnwoundOf(Append(cs, b), fs, f) = UnwoundOf(cs, gs, f)
  /\ \A e \in Range(b) :
       e[1] = f /\ ~Mentioned(cs, f) => UnwoundOf(Append(cs, b), fs, f) = e[2]
  /\ ~Mentions(b, f) /\ ~Mentioned(cs, f) => UnwoundOf(Append(cs, b), fs, f) = fs[f]

\* So one more copy matters only for the files that have none.
LEMMA NewerCounts ==
  ASSUME NEW cs \in Seq(Seq(Copied)), NEW b \in Seq(Copied),
         \A k \in DOMAIN cs : OnceEach(cs[k]), OnceEach(b),
         NEW fs, NEW gs, NEW f
  PROVE  NewerDecides(cs, b, fs, gs, f)
<1> DEFINE ds == Append(cs, b)
           n  == Len(cs)
<1>1. /\ n \in Nat /\ DOMAIN cs = 1..n /\ ds \in Seq(Seq(Copied)) /\ DOMAIN ds = 1..(n + 1)
      /\ ds[n + 1] = b /\ \A k \in 1..n : ds[k] = cs[k]
  OBVIOUS
<1> HIDE DEF ds, n
<1>2. \A k \in DOMAIN ds : OnceEach(ds[k])
  BY <1>1
<1>6. ds \in Seq(Seq(Copied))
  BY <1>1
<1>7. OldestDecides(ds, fs, f)
  BY <1>2, <1>6, OldestCounts
<1>8. OldestDecides(cs, gs, f)
  BY OldestCounts
<1>3. ASSUME Mentioned(cs, f)
      PROVE  UnwoundOf(ds, fs, f) = UnwoundOf(cs, gs, f)
  <2> DEFINE T == {k \in 1..n : Mentions(cs[k], f)}
  <2>1. T \in SUBSET Nat /\ T # {}
    BY <1>1, <1>3 DEF Mentioned
  <2>2. PICK k \in T : \A y \in T : k <= y
    BY <2>1, LeastIsLeast
  <2>3. PICK e \in Range(cs[k]) : e[1] = f
    BY <2>2 DEF Mentions
  <2>4. \A j \in DOMAIN ds : j < k => ~Mentions(ds[j], f)
    BY <1>1, <2>2
  <2>5. \A j \in DOMAIN cs : j < k => ~Mentions(cs[j], f)
    BY <1>1, <2>2
  <2>6. k \in DOMAIN cs /\ k \in DOMAIN ds /\ ds[k] = cs[k]
    BY <1>1, <2>2
  <2>7. UnwoundOf(cs, gs, f) = e[2]
    BY <1>8, <2>3, <2>5, <2>6 DEF OldestDecides
  <2>8. UnwoundOf(ds, fs, f) = e[2]
    BY <1>7, <1>1, <2>3, <2>4, <2>6 DEF OldestDecides
  <2> QED BY <2>7, <2>8
<1>4. ASSUME NEW e \in Range(b), e[1] = f, ~Mentioned(cs, f)
      PROVE  UnwoundOf(ds, fs, f) = e[2]
  <2>1. \A j \in DOMAIN ds : j < n + 1 => ~Mentions(ds[j], f)
    <3>1. \A j \in DOMAIN ds : j < n + 1 => j \in 1..n
      BY <1>1
    <3>2. \A j \in 1..n : ~Mentions(cs[j], f) /\ ds[j] = cs[j]
      BY <1>1, <1>4 DEF Mentioned
    <3> QED BY <3>1, <3>2
  <2>2. n + 1 \in DOMAIN ds /\ e \in Range(ds[n + 1])
    BY <1>1
  <2> QED BY <1>7, <1>4, <2>1, <2>2 DEF OldestDecides
<1>5. ASSUME ~Mentions(b, f), ~Mentioned(cs, f)
      PROVE  UnwoundOf(ds, fs, f) = fs[f]
  <2>1. ~Mentioned(ds, f)
    <3>1. \A k \in 1..n : ~Mentions(ds[k], f)
      BY <1>1, <1>5 DEF Mentioned
    <3>2. ~Mentions(ds[n + 1], f)
      BY <1>1, <1>5
    <3>3. \A k \in 1..(n + 1) : k \in 1..n \/ k = n + 1
      BY <1>1
    <3> QED BY <1>1, <3>1, <3>2, <3>3 DEF Mentioned
  <2> QED BY <1>7, <2>1 DEF OldestDecides
<1> QED BY <1>3, <1>4, <1>5 DEF ds, NewerDecides

\* The property's own definition, with the copies as a parameter.
LEMMA UnwoundIs ==
  ASSUME NEW f
  PROVE  Unwound(f) = UnwoundOf(Copies, files, f)
BY DEF Unwound, UnwoundOf

\* A file written has been copied; a file the rollback is done with holds what
\* its copy does.
UndoInv ==
  /\ \A k \in DOMAIN backups : OnceEach(backups[k])
  /\ OnceEach(cli.entries)
  /\ cli.pc = "write" => Mentions(cli.entries, cli.plan[1][1])
  /\ cli.pc \in {"restore", "forget"} =>
       /\ Range(cli.entries) \subseteq Range(backups[Len(backups)])
       /\ \A e \in Range(backups[Len(backups)]) :
            e \in Range(cli.entries) \/ files[e[1]] = e[2]

\* Copies and files as they are, and as they are after a step.
SameUndone ==
  \A f \in File : UnwoundOf(Copies, files, f)' = UnwoundOf(Copies, files, f)

\* Nothing copied, nothing undone.
LEMMA NothingCopied ==
  ASSUME CliTyped, UndoInv, NEW f, NEW fs
  PROVE  UnwoundOf(Append(backups, <<>>), fs, f) = UnwoundOf(backups, fs, f)
<1>1. /\ backups \in Seq(Seq(Copied)) /\ <<>> \in Seq(Copied)
      /\ \A k \in DOMAIN backups : OnceEach(backups[k])
  BY DEF CliTyped, UndoInv
<1>2. OnceEach(<<>>) /\ ~Mentions(<<>>, f)
  BY DEF OnceEach, Mentions, Range
<1>3. OldestDecides(backups, fs, f)
  BY <1>1, OldestCounts
<1>4. NewerDecides(backups, <<>>, fs, fs, f)
  BY <1>1, <1>2, NewerCounts
<1> QED BY <1>2, <1>3, <1>4 DEF OldestDecides, NewerDecides

\* A command that begins has copied nothing yet.
LEMMA BeginUndoes ==
  ASSUME CliTyped, UndoInv, cli.pc \in {"idle", "plan"},
         UNCHANGED <<files, backups>>,
         \/ cli' = NoCommand
         \/ cli'.pc = "capture" /\ cli'.entries = <<>>
  PROVE  UndoInv' /\ SameUndone
<1>1. Copies = backups
  BY DEF Copies
<1>2. OnceEach(<<>>)
  BY DEF OnceEach, Range
<1>3. CASE cli' = NoCommand
  <2>1. Copies' = backups
    BY <1>3 DEF Copies, NoCommand
  <2> QED BY <1>1, <1>2, <1>3, <2>1 DEF UndoInv, SameUndone, NoCommand
<1>4. CASE cli'.pc = "capture" /\ cli'.entries = <<>>
  <2>1. Copies' = Append(backups, <<>>)
    BY <1>4 DEF Copies
  <2>2. SameUndone
    BY <1>1, <2>1, NothingCopied DEF SameUndone
  <2> QED BY <1>2, <1>4, <2>2 DEF UndoInv
<1> QED BY <1>3, <1>4

\* A copy taken before the first write of its path.
LEMMA CaptureUndoes ==
  ASSUME CliTyped, UndoInv, Capture
  PROVE  UndoInv' /\ SameUndone
<1> DEFINE f == cli.plan[1][1]
           c == <<f, files[f]>>
<1>0. /\ cli \in CommandStates /\ backups \in Seq(Seq(Copied)) /\ cli.plan # <<>>
      /\ \A k \in DOMAIN backups : OnceEach(backups[k])
      /\ OnceEach(cli.entries) /\ cli.entries \in Seq(Copied)
  BY DEF CliTyped, UndoInv, Capture, CommandStates
<1>1. f \in File /\ c \in Copied
  <2>1. cli.plan[1] \in Copied
    BY <1>0, RangeOfTail DEF CommandStates
  <2> QED BY <2>1 DEF Copied, CliTyped
<1>2. /\ cli'.pc = "write" /\ cli'.plan = cli.plan /\ UNCHANGED <<files, backups>>
      /\ cli'.entries = IF Mentions(cli.entries, f) THEN cli.entries ELSE Append(cli.entries, c)
  BY <1>0 DEF Capture, Mentions, CommandStates
<1>3. Copies = Append(backups, cli.entries) /\ Copies' = Append(backups, cli'.entries)
  BY <1>2 DEF Copies, Capture
<1>4. CASE Mentions(cli.entries, f)
  <2>1. cli'.entries = cli.entries
    BY <1>2, <1>4
  <2> QED BY <1>2, <1>3, <1>4, <2>1 DEF UndoInv, SameUndone
<1>5. CASE ~Mentions(cli.entries, f)
  <2> DEFINE b == Append(cli.entries, c)
  <2>3. c[1] = f /\ c[2] = files[f]
    OBVIOUS
  <2> HIDE DEF c
  <2>1. b \in Seq(Copied) /\ Range(b) = Range(cli.entries) \cup {c}
    BY <1>0, <1>1, RangeOfAppend
  <2>2. cli'.entries = b
    BY <1>2, <1>5
  <2> HIDE DEF b
  <2>4. OnceEach(b)
    BY <1>0, <1>5, <2>1, <2>3 DEF OnceEach, Mentions
  <2>5. Mentions(b, f)
    BY <2>1, <2>3 DEF Mentions
  <2>8. ASSUME NEW g
        PROVE  /\ NewerDecides(backups, b, files, files, g)
               /\ NewerDecides(backups, cli.entries, files, files, g)
    BY <1>0, <2>1, <2>4, NewerCounts
  <2> HIDE DEF f
  <2>6. ASSUME NEW g \in File
        PROVE  UnwoundOf(Append(backups, b), files, g) = UnwoundOf(Append(backups, cli.entries), files, g)
    <3>1. CASE Mentioned(backups, g)
      BY <2>8, <3>1 DEF NewerDecides
    <3>2. CASE ~Mentioned(backups, g) /\ Mentions(cli.entries, g)
      <4>1. PICK e \in Range(cli.entries) : e[1] = g
        BY <3>2 DEF Mentions
      <4>2. UnwoundOf(Append(backups, cli.entries), files, g) = e[2]
        BY <2>8, <3>2, <4>1 DEF NewerDecides
      <4>3. UnwoundOf(Append(backups, b), files, g) = e[2]
        BY <2>1, <2>8, <3>2, <4>1 DEF NewerDecides
      <4> QED BY <4>2, <4>3
    <3>3. CASE ~Mentioned(backups, g) /\ ~Mentions(cli.entries, g)
      <4>1. UnwoundOf(Append(backups, cli.entries), files, g) = files[g]
        BY <2>8, <3>3 DEF NewerDecides
      <4>2. UnwoundOf(Append(backups, b), files, g) = files[g]
        <5>1. CASE g = f
          BY <2>1, <2>3, <2>8, <3>3, <5>1 DEF NewerDecides
        <5>2. CASE g # f
          <6>1. ~Mentions(b, g)
            BY <2>1, <2>3, <3>3, <5>2 DEF Mentions
          <6> QED BY <2>8, <3>3, <6>1 DEF NewerDecides
        <5> QED BY <5>1, <5>2
      <4> QED BY <4>1, <4>2
    <3> QED BY <3>1, <3>2, <3>3
  <2>7. SameUndone
    BY <1>2, <1>3, <2>2, <2>6 DEF SameUndone
  <2> QED BY <1>0, <1>2, <2>2, <2>4, <2>5, <2>7 DEF UndoInv, f
<1> QED BY <1>4, <1>5

\* What has been copied may be written.
LEMMA WriteUndoes ==
  ASSUME CliTyped, UndoInv, Write
  PROVE  UndoInv' /\ SameUndone
<1> DEFINE f == cli.plan[1][1]
           b == cli.entries
<1>1. /\ cli \in CommandStates /\ b \in Seq(Copied) /\ backups \in Seq(Seq(Copied))
      /\ \A k \in DOMAIN backups : OnceEach(backups[k])
      /\ OnceEach(b) /\ Mentions(b, f)
  BY DEF CliTyped, UndoInv, Write, CommandStates
<1>2. /\ cli'.entries = b /\ cli'.pc \in {"commit", "capture"} /\ UNCHANGED backups
      /\ \A g \in File : g # f => files'[g] = files[g]
  BY <1>1 DEF Write, CommandStates, CliTyped
<1>3. Copies = Append(backups, b) /\ Copies' = Append(backups, b)
  BY <1>2 DEF Copies, Write
<1>4. ASSUME NEW g \in File
      PROVE  UnwoundOf(Append(backups, b), files', g) = UnwoundOf(Append(backups, b), files, g)
  <2>1. /\ NewerDecides(backups, b, files, files, g)
        /\ NewerDecides(backups, b, files', files, g)
    BY <1>1, NewerCounts
  <2>2. CASE Mentioned(backups, g)
    BY <2>1, <2>2 DEF NewerDecides
  <2>3. CASE ~Mentioned(backups, g) /\ Mentions(b, g)
    BY <2>1, <2>3 DEF NewerDecides, Mentions
  <2>4. CASE ~Mentioned(backups, g) /\ ~Mentions(b, g)
    <3>1. g # f
      BY <1>1, <2>4
    <3> QED BY <1>2, <2>1, <2>4, <3>1 DEF NewerDecides
  <2> QED BY <2>2, <2>3, <2>4
<1>5. SameUndone
  BY <1>3, <1>4 DEF SameUndone
<1> QED BY <1>1, <1>2, <1>5 DEF UndoInv

\* The copies become a backup, which undoes what they undo.
LEMMA CommitUndoes ==
  ASSUME CliTyped, UndoInv, Commit
  PROVE  UndoInv' /\ SameUndone
<1> DEFINE b == cli.entries
           n == Len(backups)
<1>1. /\ b \in Seq(Copied) /\ backups \in Seq(Seq(Copied)) /\ OnceEach(b)
      /\ \A k \in DOMAIN backups : OnceEach(backups[k])
  BY DEF CliTyped, UndoInv, CommandStates
<1>2. backups' = Append(backups, b) /\ cli' = NoCommand /\ UNCHANGED files
  BY DEF Commit
<1>3. Copies = Append(backups, b) /\ Copies' = backups'
  BY <1>2 DEF Copies, Commit, NoCommand
<1>4. SameUndone
  BY <1>2, <1>3 DEF SameUndone
<1>5. \A k \in DOMAIN Append(backups, b) : OnceEach(Append(backups, b)[k])
  BY <1>1
<1>6. OnceEach(<<>>)
  BY DEF OnceEach, Range
<1> QED BY <1>2, <1>4, <1>5, <1>6 DEF UndoInv, NoCommand

\* A rollback takes the last backup, and goes through it backwards.
LEMMA RollbackUndoes ==
  ASSUME CliTyped, UndoInv, RollbackCommand(Len(backups))
  PROVE  UndoInv' /\ SameUndone
<1>1. /\ cli'.pc = "restore" /\ cli'.entries = backups[Len(backups)]
      /\ UNCHANGED <<files, backups>> /\ Len(backups) \in DOMAIN backups
      /\ cli.pc = "idle"
  BY DEF RollbackCommand, NoCommand
<1>2. Copies = backups /\ Copies' = backups
  BY <1>1 DEF Copies
<1>3. SameUndone
  BY <1>1, <1>2 DEF SameUndone
<1> QED BY <1>1, <1>3 DEF UndoInv

\* A file restored is one copy less to undo.
LEMMA RestoreUndoes ==
  ASSUME CliTyped, UndoInv, Restore
  PROVE  UndoInv' /\ SameUndone
<1> DEFINE last == backups[Len(backups)]
           c == cli.entries[1]
<1>1. /\ cli \in CommandStates /\ backups \in Seq(Seq(Copied)) /\ backups # <<>>
      /\ files \in [File -> Content]
      /\ \A k \in DOMAIN backups : OnceEach(backups[k])
      /\ cli.entries \in Seq(Copied) /\ cli.entries # <<>> /\ cli.pc = "restore"
  BY DEF CliTyped, UndoInv, Restore, CommandStates
<1>2. Len(backups) \in DOMAIN backups
  BY <1>1, LastTaken
<1>3. /\ Range(cli.entries) \subseteq Range(last) /\ OnceEach(last) /\ OnceEach(cli.entries)
      /\ \A e \in Range(last) : e \in Range(cli.entries) \/ files[e[1]] = e[2]
  BY <1>1, <1>2 DEF UndoInv
<1>4. /\ c \in Copied /\ c \in Range(cli.entries) /\ Range(cli.entries) = {c} \cup Range(Tail(cli.entries))
  BY <1>1, RangeOfTail
<1>5. c[1] \in File
  BY <1>4 DEF Copied
<1>6. /\ cli'.pc = "restore" /\ cli'.entries = Tail(cli.entries) /\ UNCHANGED backups
      /\ files'[c[1]] = c[2] /\ \A g : g \in File /\ g # c[1] => files'[g] = files[g]
  BY <1>1, <1>5 DEF Restore, CommandStates
<1>7. Copies = backups /\ Copies' = backups
  BY <1>1, <1>6 DEF Copies
<1> HIDE DEF last, c
<1>8. ASSUME NEW e \in Range(last)
      PROVE  e \in Range(Tail(cli.entries)) \/ files'[e[1]] = e[2]
  <2>1. CASE e[1] = c[1]
    <3>1. e = c
      BY <1>3, <1>4, <2>1 DEF OnceEach
    <3> QED BY <1>6, <3>1
  <2>2. CASE e[1] # c[1]
    <3>1. e[1] \in File
      BY <1>1, <1>2 DEF Copied, Range, last
    <3> QED BY <1>3, <1>4, <1>6, <2>2, <3>1
  <2> QED BY <2>1, <2>2
<1>9. ASSUME NEW g \in File
      PROVE  UnwoundOf(backups, files', g) = UnwoundOf(backups, files, g)
  <2>1. /\ OldestDecides(backups, files, g)
        /\ OldestDecides(backups, files', g)
    BY <1>1, OldestCounts
  <2>2. CASE Mentioned(backups, g)
    <3> DEFINE T == {k \in DOMAIN backups : Mentions(backups[k], g)}
    <3>1. T \in SUBSET Nat /\ T # {}
      BY <1>1, <2>2 DEF Mentioned
    <3>2. PICK k \in T : \A y \in T : k <= y
      BY <3>1, LeastIsLeast
    <3>3. PICK e \in Range(backups[k]) : e[1] = g
      BY <3>2 DEF Mentions
    <3>4. \A j \in DOMAIN backups : j < k => ~Mentions(backups[j], g)
      BY <1>1, <3>2
    <3> QED BY <2>1, <3>2, <3>3, <3>4 DEF OldestDecides
  <2>3. CASE ~Mentioned(backups, g)
    <3>1. g # c[1]
      BY <1>2, <1>3, <1>4, <2>3 DEF Mentioned, Mentions, last
    <3> QED BY <1>6, <2>1, <2>3, <3>1 DEF OldestDecides
  <2> QED BY <2>2, <2>3
<1>10. SameUndone
  BY <1>7, <1>9 DEF SameUndone
<1>11. OnceEach(Tail(cli.entries)) /\ Range(Tail(cli.entries)) \subseteq Range(last)
  BY <1>3, <1>4 DEF OnceEach
<1> QED BY <1>1, <1>6, <1>8, <1>10, <1>11 DEF UndoInv, last

\* Copies that the files agree with undo nothing.
LEMMA AgreedCountsNot ==
  ASSUME NEW cs \in Seq(Seq(Copied)), NEW b \in Seq(Copied),
         \A k \in DOMAIN cs : OnceEach(cs[k]), OnceEach(b),
         \A e \in Range(b) : files[e[1]] = e[2], NEW g
  PROVE  UnwoundOf(Append(cs, b), files, g) = UnwoundOf(cs, files, g)
<1>1. /\ NewerDecides(cs, b, files, files, g)
      /\ OldestDecides(cs, files, g)
  BY NewerCounts, OldestCounts
<1>2. CASE Mentioned(cs, g)
  BY <1>1, <1>2 DEF NewerDecides
<1>3. CASE ~Mentioned(cs, g) /\ Mentions(b, g)
  BY <1>1, <1>3 DEF NewerDecides, OldestDecides, Mentions
<1>4. CASE ~Mentioned(cs, g) /\ ~Mentions(b, g)
  BY <1>1, <1>4 DEF NewerDecides, OldestDecides
<1> QED BY <1>2, <1>3, <1>4

\* A backup that is removed, or torn, when every file holds what it says.
LEMMA ForgetUndoes ==
  ASSUME CliTyped, UndoInv, Forgotten \/ ForgetDies
  PROVE  UndoInv' /\ SameUndone
<1> DEFINE n == Len(backups)
           front == RemoveAt(backups, n)
           last == backups[n]
<1>1. /\ cli \in CommandStates /\ backups \in Seq(Seq(Copied)) /\ backups # <<>>
      /\ \A k \in DOMAIN backups : OnceEach(backups[k])
      /\ cli.command = n /\ cli.entries = <<>> /\ cli.pc = "forget"
  BY DEF CliTyped, UndoInv, Forgotten, ForgetDies, CommandStates
<1>2. /\ front \in Seq(Seq(Copied)) /\ DOMAIN front = 1..(n - 1) /\ n \in Nat \ {0}
      /\ Len(front) = n - 1
      /\ DOMAIN backups = 1..n /\ \A i \in 1..(n - 1) : front[i] = backups[i]
  BY <1>1, LastTaken
<1>3. last \in Seq(Copied) /\ OnceEach(last)
  BY <1>1, <1>2
<1>4. \A e \in Range(last) : files[e[1]] = e[2]
  BY <1>1 DEF UndoInv, Range
<1>5. /\ cli' = NoCommand /\ UNCHANGED files
      /\ \/ backups' = front
         \/ \E k \in 0..Len(last) - 1 : backups' = [backups EXCEPT ![n] = SubSeq(last, 1, k)]
  BY <1>1 DEF Forgotten, ForgetDies
<1>6. Copies = backups /\ Copies' = backups'
  BY <1>1, <1>5 DEF Copies, NoCommand
<1> HIDE DEF front, last
<1>7. ASSUME NEW b \in Seq(Copied), NEW bs \in Seq(Seq(Copied)),
             Len(bs) = n, bs[n] = b, \A i \in 1..(n - 1) : bs[i] = backups[i]
      PROVE  bs = Append(front, b)
  <2> DEFINE whole == Append(front, b)
  <2>1. /\ whole \in Seq(Seq(Copied)) /\ Len(whole) = Len(front) + 1
        /\ \A i \in 1..Len(front) : whole[i] = front[i]
        /\ whole[Len(front) + 1] = b
    BY <1>2, <1>7, AppendProperties
  <2> HIDE DEF whole
  <2>2. /\ Len(whole) = n /\ whole[n] = b
        /\ \A i \in 1..(n - 1) : whole[i] = front[i]
    BY <1>2, <2>1
  <2>3. \A i \in 1..n : whole[i] = bs[i]
    <3>1. \A i \in 1..n : i = n \/ i \in 1..(n - 1)
      BY <1>2
    <3>2. \A i \in 1..(n - 1) : whole[i] = backups[i] /\ bs[i] = backups[i]
      BY <1>2, <1>7, <2>2
    <3>3. whole[n] = bs[n]
      BY <1>7, <2>2
    <3> QED BY <3>1, <3>2, <3>3
  <2>4. whole = bs
    BY <1>7, <2>1, <2>2, <2>3, SeqEqual
  <2> QED BY <2>4 DEF whole
<1>8. \A k \in DOMAIN front : OnceEach(front[k])
  <2>1. \A k \in 1..(n - 1) : k \in 1..n
    BY <1>2
  <2> QED BY <1>1, <1>2, <2>1
<1>9. ASSUME NEW g
      PROVE  UnwoundOf(backups, files, g) = UnwoundOf(front, files, g)
  <2>1. backups = Append(front, last)
    BY <1>1, <1>2, <1>3, <1>7 DEF last
  <2> QED BY <1>2, <1>3, <1>4, <1>8, <2>1, AgreedCountsNot
<1>10. OnceEach(<<>>)
  BY DEF OnceEach, Range
<1>11. CASE backups' = front
  <2>1. SameUndone
    BY <1>5, <1>6, <1>9, <1>11 DEF SameUndone
  <2> QED BY <1>5, <1>8, <1>10, <1>11, <2>1 DEF UndoInv, NoCommand
<1>12. CASE backups' # front
  <2>1. PICK k \in 0..Len(last) - 1 : backups' = [backups EXCEPT ![n] = SubSeq(last, 1, k)]
    BY <1>5, <1>12
  <2> DEFINE b == SubSeq(last, 1, k)
  <2>2. b \in Seq(Copied) /\ Range(b) \subseteq Range(last)
    BY <1>3, FrontOfCopies
  <2>3. backups' = [backups EXCEPT ![n] = b]
    BY <2>1
  <2> HIDE DEF b
  <2>4. OnceEach(b) /\ \A e \in Range(b) : files[e[1]] = e[2]
    BY <1>3, <1>4, <2>2 DEF OnceEach
  <2>5. /\ backups' \in Seq(Seq(Copied)) /\ Len(backups') = n /\ backups'[n] = b
        /\ DOMAIN backups' = 1..n /\ \A i \in 1..(n - 1) : backups'[i] = backups[i]
    BY <1>1, <1>2, <2>2, <2>3
  <2>6. backups' = Append(front, b)
    <3>1. PICK bs : bs = backups'
      OBVIOUS
    <3>2. bs = Append(front, b)
      BY <1>7, <2>2, <2>5, <3>1
    <3> QED BY <3>1, <3>2
  <2>7. \A g : UnwoundOf(Append(front, b), files, g) = UnwoundOf(front, files, g)
    BY <1>2, <1>8, <2>2, <2>4, AgreedCountsNot
  <2>8. SameUndone
    BY <1>5, <1>6, <1>9, <2>6, <2>7 DEF SameUndone
  <2>9. \A j \in DOMAIN backups' : OnceEach(backups'[j])
    <3>1. \A j \in 1..n : j = n \/ j \in 1..(n - 1)
      BY <1>2
    <3> QED BY <1>1, <1>2, <2>4, <2>5, <3>1
  <2> QED BY <1>5, <1>10, <2>8, <2>9 DEF UndoInv, NoCommand
<1> QED BY <1>11, <1>12

\* A command that dies before its manifest leaves its copies uncounted: nothing
\* is lost if it had written nothing that differs from them.
LEMMA DieUndoes ==
  ASSUME CliTyped, UndoInv, Die
  PROVE  UndoInv' /\ (~died' => SameUndone)
<1> DEFINE b == cli.entries
<1>1. /\ cli \in CommandStates /\ b \in Seq(Copied) /\ backups \in Seq(Seq(Copied))
      /\ \A k \in DOMAIN backups : OnceEach(backups[k])
      /\ OnceEach(b)
  BY DEF CliTyped, UndoInv, CommandStates
<1>2. cli' = NoCommand /\ UNCHANGED <<files, backups>>
  BY DEF Die
<1>3. Copies' = backups
  BY <1>2 DEF Copies, NoCommand
<1>4. OnceEach(<<>>)
  BY DEF OnceEach, Range
<1>5. UndoInv'
  BY <1>1, <1>2, <1>4 DEF UndoInv, NoCommand
<1>6. CASE cli.pc \notin {"capture", "write", "commit"}
  <2>1. Copies = backups
    BY <1>6 DEF Copies
  <2> QED BY <1>2, <1>3, <1>5, <2>1 DEF SameUndone
<1>7. ASSUME cli.pc \in {"capture", "write", "commit"}, ~died'
      PROVE  SameUndone
  <2>1. Copies = Append(backups, b)
    BY <1>7 DEF Copies
  <2>2. \A e \in Range(b) : files[e[1]] = e[2]
    BY <1>7 DEF Die
  <2>3. \A g \in File : UnwoundOf(backups, files, g) = UnwoundOf(Append(backups, b), files, g)
    BY <1>1, <2>2, AgreedCountsNot
  <2> QED BY <1>2, <1>3, <2>1, <2>3 DEF SameUndone
<1> QED BY <1>5, <1>6, <1>7

\* The history and the backups agree through every step.
LEMMA NextUndoes ==
  ASSUME CliTyped, UndoInv, UndoIsExact, CommandSide \/ GatewaySide
  PROVE  UndoInv' /\ UndoIsExact'
<1>1. ASSUME UndoInv' /\ (~died' => SameUndone), ~died' => ~died
      PROVE  UndoInv' /\ UndoIsExact'
  <2>1. \A f \in File : Unwound(f) = UnwoundOf(Copies, files, f)
    BY UnwoundIs
  <2>2. \A f \in File : Unwound(f)' = UnwoundOf(Copies, files, f)'
    BY DEF Unwound, UnwoundOf
  <2> QED BY <1>1, <2>1, <2>2 DEF UndoIsExact, SameUndone
<1>2. CASE GatewaySide
  <2>1. UndoInv' /\ SameUndone /\ UNCHANGED died
    BY <1>2 DEF GatewaySide, UndoInv, SameUndone, Copies
  <2> QED BY <1>1, <2>1
<1>3. CASE InstallCommand \/ PlanPrune
  <2>1. cli.pc \in {"idle", "plan"}
    BY <1>3 DEF InstallCommand, PlanPrune, NoCommand
  <2>2. /\ UNCHANGED <<files, backups, died>>
        /\ \/ cli' = NoCommand
           \/ cli'.pc = "capture" /\ cli'.entries = <<>>
    BY <1>3, ChangesTyped, BeginTyped DEF InstallCommand, PlanPrune
  <2> QED BY <1>1, <2>1, <2>2, BeginUndoes
<1>4. CASE PruneCommand
  <2>1. /\ cli.pc = "idle" /\ cli'.pc = "plan" /\ cli'.entries = <<>>
        /\ UNCHANGED <<files, backups, died>>
    BY <1>4 DEF PruneCommand, NoCommand
  <2>2. Copies = backups /\ Copies' = backups /\ OnceEach(<<>>)
    BY <2>1 DEF Copies, OnceEach, Range
  <2>3. UndoInv' /\ SameUndone
    BY <2>1, <2>2 DEF UndoInv, SameUndone
  <2> QED BY <1>1, <2>1, <2>3
<1>5. CASE Capture
  BY <1>1, <1>5, CaptureUndoes DEF Capture
<1>6. CASE Write
  BY <1>1, <1>6, WriteUndoes DEF Write
<1>7. CASE Commit
  BY <1>1, <1>7, CommitUndoes DEF Commit
<1>8. CASE RollbackCommand(Len(backups))
  BY <1>1, <1>8, RollbackUndoes DEF RollbackCommand
<1>9. CASE Restore
  BY <1>1, <1>9, RestoreUndoes DEF Restore
<1>10. CASE Forgotten \/ ForgetDies
  <2>1. UNCHANGED died
    BY <1>10 DEF Forgotten, ForgetDies
  <2> QED BY <1>1, <1>10, <2>1, ForgetUndoes
<1>11. CASE RestoreThrows \/ Forget
  <2>1. /\ cli.pc = "restore" /\ UNCHANGED <<files, backups, died>>
        /\ \/ cli' = NoCommand
           \/ cli' = [cli EXCEPT !.pc = "forget"]
    BY <1>11 DEF RestoreThrows, Forget
  <2>2. cli' # NoCommand => cli'.pc = "forget" /\ cli'.entries = cli.entries
    BY <2>1 DEF CliTyped, CommandStates
  <2>3. Copies = backups /\ Copies' = backups /\ OnceEach(<<>>)
    BY <2>1, <2>2 DEF Copies, NoCommand, OnceEach, Range
  <2>4. SameUndone
    BY <2>1, <2>3 DEF SameUndone
  <2>5. UndoInv'
    <3>1. CASE cli' = NoCommand
      BY <2>1, <2>3, <3>1 DEF UndoInv, NoCommand
    <3>2. CASE cli' # NoCommand
      BY <2>1, <2>2, <3>2 DEF UndoInv
    <3> QED BY <3>1, <3>2
  <2> QED BY <1>1, <2>1, <2>4, <2>5
<1>12. CASE Die
  BY <1>1, <1>12, DieUndoes DEF Die
<1> QED BY <1>2, <1>3, <1>4, <1>5, <1>6, <1>7, <1>8, <1>9, <1>10, <1>11, <1>12 DEF CommandSide

CliInv == CliTyped /\ UndoInv /\ UndoIsExact

\* The three parts hold at first.
LEMMA InitCli == Init => CliInv
<1> SUFFICES ASSUME Init PROVE CliInv
  OBVIOUS
<1> USE DEF Init, MigrationInit, OnboardingInit
<1>1. CliTyped
  <2>1. files \in [File -> Content]
    BY MigrationAssumption DEF Content, Configuration
  <2>2. cli \in CommandStates
    BY DEF NoCommand, CommandStates
  <2>3. backups \in Seq(Seq(Copied)) /\ cli.pc = "idle"
    BY DEF NoCommand
  <2> QED BY <2>1, <2>2, <2>3 DEF CliTyped
<1>2. Range(<<>>) = {}
  BY DEF Range
<1>3. UndoInv
  BY <1>2 DEF UndoInv, OnceEach, NoCommand
<1>4. UndoIsExact
  <2>1. Copies = <<>>
    BY DEF Copies, NoCommand
  <2>2. \A f \in File : UnwoundOf(<<>>, files, f) = files[f]
    BY DEF UnwoundOf
  <2> QED BY <2>1, <2>2, UnwoundIs DEF UndoIsExact
<1> QED BY <1>1, <1>3, <1>4 DEF CliInv

\* And in every state.
LEMMA AlwaysCli == Spec => []CliInv
<1>1. CliInv /\ [Next]_vars => CliInv'
  BY EitherSide, NextIsTyped, NextUndoes DEF CliInv
<1> QED BY InitCli, <1>1, PTL DEF Spec

\* The rollback of every backup puts each file back as it was, whatever was
\* installed, pruned, rolled back or interrupted before, except where a
\* command died after an edit and before its manifest (backup.ts:65).
THEOREM UndoneExactly == Spec => []UndoIsExact
<1>1. CliInv => UndoIsExact
  BY DEF CliInv
<1> QED BY AlwaysCli, <1>1, PTL

(***************************************************************************)
(* The types of the gateway's tables and requests                          *)
(***************************************************************************)

Item == [url : Url, name : Name]
Txn == [conn : Nat, nth : 1..MaxTxn, issuer : Issuer, home : Nat, client : ClientOf]
Strategic == {"PRECONFIGURED", "CIMD", "DYNAMIC"}
Answers == {"invalid_client", "invalid_request", "invalid_grant", "ok"}

Request ==
  [pc : Steps, url : Url \cup {None}, queue : Seq(Item), name : Name \cup {None},
   found : Issuer \cup {None, NoServer}, conn : Nat, seen : Snapshots \cup {None},
   issuer : Issuer \cup {None}, reg : Nat \cup {None},
   type : Strategic \cup {"USER_SUPPLIED", None},
   code : Txn \cup {None}, answer : Answers \cup Statuses \cup {None}]

ConnectionRow ==
  [url : Url, alias : Name, issuer : Issuer \cup {None}, reg : Nat \cup {None},
   grant : Issuer \cup {None}, version : Nat, status : Statuses]

Lists == [Url -> Seq(Issuer) \ {<<>>}]

MixTyped ==
  /\ mix = [lists |-> mix.lists, together |-> mix.together, wants |-> mix.wants,
            does |-> mix.does, name |-> mix.name]
  /\ mix.together \in Nat /\ mix.wants \subseteq Url /\ mix.name \in Name
  /\ \A e \in mix.does :
       /\ e[1] = "move" => e[2] \in Url /\ e[3] \in Seq(Issuer) \ {<<>>}
       /\ e[1] = "create" => e[2] \in Url
       /\ e[1] = "restart" => e[2] \in Nat
       /\ e[1] \in {"lapse", "configure"} => e[2] \in Issuer

ServersTyped ==
  /\ preconfigured \in [Issuer -> Nat]
  /\ clients \in [Issuer -> SUBSET [client : ClientOf, method : Method, home : Nat]]
  /\ home \in Nat /\ lapsed \subseteq ClientOf

\* The rows, and what they refer to: a connection with a client has a server.
TablesTyped ==
  /\ lists \in Lists
  /\ servers \in [Url -> Issuer \cup {None, NoServer}]
  /\ registrations \in Seq(Row)
  /\ connections \in Seq(ConnectionRow)
  /\ \A c \in Conn :
       /\ connections[c].reg \in DOMAIN registrations \cup {None}
       /\ connections[c].reg # None => connections[c].issuer # None
       /\ servers[connections[c].url] # NoServer
  /\ transactions \subseteq Txn
  /\ \A t \in transactions : t.conn \in Conn

Syncing == {"activate", "sync", "synced", "enable"}

\* What a request at each step has read or been given.
Holds(r) ==
  /\ r.pc # "idle" => r.url \in Url
  /\ r.conn \in Conn \cup {0}
  /\ r.pc \in {"alias", "insert"} => servers[r.url] # NoServer
  /\ r.pc = "insert" => r.name \in Name
  /\ r.pc \in Preparing \cup Exchanging \cup Syncing =>
       r.conn \in Conn /\ connections[r.conn].url = r.url
  /\ r.pc \in Preparing \cup Exchanging =>
       /\ r.seen \in Snapshots
       /\ r.seen.reg \in DOMAIN registrations \cup {None}
       /\ r.seen.reg # None => r.seen.issuer # None
       /\ r.seen.issuer # None => connections[r.conn].issuer # None
  /\ r.pc \in Preparing \ {"discover"} => r.issuer \in Issuer
  /\ r.pc = "client" => r.type \in Strategic \cup {"USER_SUPPLIED"}
  /\ r.pc \in {"retire", "adopt"} => r.type \in Strategic
  /\ r.pc \in {"retire", "bind", "transaction"} =>
       r.reg \in DOMAIN registrations /\ registrations[r.reg].issuer = r.issuer
  /\ r.pc \in Exchanging => r.code \in Txn
  /\ r.pc \in Exchanging \ {"present"} =>
       r.seen.reg \in DOMAIN registrations /\ r.seen.issuer \in Issuer
  /\ r.pc \in {"refuse", "replace"} =>
       MethodsToAvoid(registrations[r.seen.reg], r.answer) # None
  /\ r.pc = "rebind" =>
       r.reg \in DOMAIN registrations /\ registrations[r.reg].issuer = r.seen.issuer
  /\ r.pc \in {"synced", "enable"} => r.answer \in Statuses

RequestsTyped ==
  \A a \in Actor : req[a] \in Request /\ Holds(req[a])

Typed ==
  /\ MixTyped /\ ServersTyped /\ TablesTyped
  /\ req \in [Actor -> Request] /\ RequestsTyped

\* What no step undoes: rows stay, a client keeps its server, kind and method,
\* a connection its URL.
Grows ==
  /\ DOMAIN connections \subseteq DOMAIN connections'
  /\ \A c \in Conn : /\ connections'[c].url = connections[c].url
                     /\ connections[c].issuer # None => connections'[c].issuer # None
  /\ DOMAIN registrations \subseteq DOMAIN registrations'
  /\ \A k \in DOMAIN registrations :
       /\ registrations'[k].issuer = registrations[k].issuer
       /\ registrations'[k].type = registrations[k].type
       /\ registrations'[k].method = registrations[k].method
  /\ \A u \in Url : servers[u] # NoServer => servers'[u] # NoServer

\* What a request holds outlives what others do to the tables.
LEMMA HoldsStays ==
  ASSUME TablesTyped, Grows, NEW r \in Request, Holds(r)
  PROVE  Holds(r)'
<1> USE DEF Holds
<1>1. r.pc # "idle" => r.url \in Url
  OBVIOUS
<1>2. /\ r.conn \in Conn' \cup {0}
      /\ r.pc \in {"alias", "insert"} => servers'[r.url] # NoServer
  BY DEF Grows, Conn
<1>3. /\ r.pc \in Preparing \cup Exchanging \cup Syncing =>
           r.conn \in Conn' /\ connections'[r.conn].url = r.url
      /\ r.pc \in Preparing \cup Exchanging =>
           /\ r.seen.reg \in DOMAIN registrations' \cup {None}
           /\ r.seen.issuer # None => connections'[r.conn].issuer # None
  BY DEF Grows, Conn
<1>4. /\ r.pc \in {"retire", "bind", "transaction"} =>
           r.reg \in DOMAIN registrations' /\ registrations'[r.reg].issuer = r.issuer
      /\ r.pc = "rebind" =>
           r.reg \in DOMAIN registrations' /\ registrations'[r.reg].issuer = r.seen.issuer
      /\ r.pc \in Exchanging \ {"present"} => r.seen.reg \in DOMAIN registrations'
  BY DEF Grows
<1>5. ASSUME r.pc \in {"refuse", "replace"}
      PROVE  MethodsToAvoid(registrations'[r.seen.reg], r.answer) # None
  BY <1>5 DEF Grows, MethodsToAvoid, Exchanging
<1> QED BY <1>1, <1>2, <1>3, <1>4, <1>5

\* A step that changes one request, and the tables as above.
Kept == MixTyped' /\ ServersTyped' /\ TablesTyped' /\ Grows

\* A step of one request, and what the others hold.
LEMMA OneRequest ==
  ASSUME Typed, Kept, NEW a \in Actor, NEW x \in Request,
         req' = [req EXCEPT ![a] = x], Holds(x)'
  PROVE  Typed' /\ Grows
<1>1. req' \in [Actor -> Request]
  BY DEF Typed
<1>2. ASSUME NEW b \in Actor
      PROVE  (req[b] \in Request /\ Holds(req[b]))'
  <2>1. PICK y \in Request : y = req'[b]
    BY <1>1
  <2>2. Holds(y)'
    <3>1. CASE b = a
      <4>1. y = x
        BY <2>1, <3>1 DEF Typed
      <4> QED BY <4>1
    <3>2. CASE b # a
      <4>1. y = req[b] /\ Holds(y)
        BY <2>1, <3>2 DEF Typed, RequestsTyped
      <4> QED BY <4>1, HoldsStays DEF Typed, Kept
    <3> QED BY <3>1, <3>2
  <2> QED BY <1>1, <2>1, <2>2 DEF Holds
<1> QED BY <1>1, <1>2 DEF Typed, Kept, RequestsTyped

\* Nothing but the tables changes.
LEMMA NoRequest ==
  ASSUME Typed, Kept, UNCHANGED req
  PROVE  Typed' /\ Grows
<1>2. ASSUME NEW b \in Actor
      PROVE  (req[b] \in Request /\ Holds(req[b]))'
  <2>1. PICK y \in Request : y = req[b]
    BY DEF Typed
  <2>2. Holds(y)
    BY <2>1 DEF Typed, RequestsTyped
  <2>3. Holds(y)'
    BY <2>2, HoldsStays DEF Typed, Kept
  <2> QED BY <2>1, <2>3 DEF Holds
<1> QED BY <1>2 DEF Typed, Kept, RequestsTyped

\* A request that does nothing holds nothing.
LEMMA IdleTyped == Idle \in Request /\ Holds(Idle)'
<1>1. <<>> \in Seq(Item)
  OBVIOUS
<1> QED BY <1>1 DEF Idle, Request, Steps, Holds, Preparing, Exchanging, Syncing

\* A request that has just begun.
Fresh(p, u, q, n, c, s, t) ==
  [pc |-> p, url |-> u, queue |-> q, name |-> n, found |-> None, conn |-> c, seen |-> s,
   issuer |-> None, reg |-> None, type |-> None, code |-> t, answer |-> None]

\* The beginnings of requests, written field by field.
LEMMA Queued ==
  ASSUME NEW p, NEW u, NEW q, NEW n
  PROVE  [Idle EXCEPT !.pc = p, !.url = u, !.name = n, !.queue = q]
               = Fresh(p, u, q, n, 0, None, None)
<1> DEFINE r1 == [Idle EXCEPT !.pc = p]
           r2 == [r1 EXCEPT !.url = u]
           r3 == [r2 EXCEPT !.name = n]
           r4 == [r3 EXCEPT !.queue = q]
<1>0. [Idle EXCEPT !.pc = p, !.url = u, !.name = n, !.queue = q] = r4
  OBVIOUS
<1>1. r1 = Fresh(p, None, <<>>, None, 0, None, None)
  BY DEF Idle, Fresh
<1> HIDE DEF r1
<1>2. r2 = Fresh(p, u, <<>>, None, 0, None, None)
  BY <1>1 DEF Fresh
<1> HIDE DEF r2
<1>3. r3 = Fresh(p, u, <<>>, n, 0, None, None)
  BY <1>2 DEF Fresh
<1> HIDE DEF r3
<1>4. r4 = Fresh(p, u, q, n, 0, None, None)
  BY <1>3 DEF Fresh
<1> HIDE DEF r4
<1> QED BY <1>0, <1>4

LEMMA Started ==
  ASSUME NEW p, NEW u, NEW c, NEW s
  PROVE  [Idle EXCEPT !.pc = p, !.url = u, !.conn = c, !.seen = s]
               = Fresh(p, u, <<>>, None, c, s, None)
<1> DEFINE r1 == [Idle EXCEPT !.pc = p]
           r2 == [r1 EXCEPT !.url = u]
           r3 == [r2 EXCEPT !.conn = c]
           r4 == [r3 EXCEPT !.seen = s]
<1>0. [Idle EXCEPT !.pc = p, !.url = u, !.conn = c, !.seen = s] = r4
  OBVIOUS
<1>1. r1 = Fresh(p, None, <<>>, None, 0, None, None)
  BY DEF Idle, Fresh
<1> HIDE DEF r1
<1>2. r2 = Fresh(p, u, <<>>, None, 0, None, None)
  BY <1>1 DEF Fresh
<1> HIDE DEF r2
<1>3. r3 = Fresh(p, u, <<>>, None, c, None, None)
  BY <1>2 DEF Fresh
<1> HIDE DEF r3
<1>4. r4 = Fresh(p, u, <<>>, None, c, s, None)
  BY <1>3 DEF Fresh
<1> HIDE DEF r4
<1> QED BY <1>0, <1>4

Returned(p, u, c, s, t) ==
  [Idle EXCEPT !.pc = p, !.conn = c, !.seen = s, !.url = u, !.code = t]

LEMMA CalledBack ==
  ASSUME NEW p, NEW u, NEW c, NEW s, NEW t
  PROVE  Returned(p, u, c, s, t) = Fresh(p, u, <<>>, None, c, s, t)
<1> DEFINE r1 == [Idle EXCEPT !.pc = p]
           r2 == [r1 EXCEPT !.conn = c]
           r3 == [r2 EXCEPT !.seen = s]
           r4 == [r3 EXCEPT !.url = u]
           r5 == [r4 EXCEPT !.code = t]
<1>0. Returned(p, u, c, s, t) = r5
  BY DEF Returned
<1>1. r1 = Fresh(p, None, <<>>, None, 0, None, None)
  BY DEF Idle, Fresh
<1> HIDE DEF r1
<1>2. r2 = Fresh(p, None, <<>>, None, c, None, None)
  BY <1>1 DEF Fresh
<1> HIDE DEF r2
<1>3. r3 = Fresh(p, None, <<>>, None, c, s, None)
  BY <1>2 DEF Fresh
<1> HIDE DEF r3
<1>4. r4 = Fresh(p, u, <<>>, None, c, s, None)
  BY <1>3 DEF Fresh
<1> HIDE DEF r4
<1>5. r5 = Fresh(p, u, <<>>, None, c, s, t)
  BY <1>4 DEF Fresh
<1> HIDE DEF r5
<1> QED BY <1>0, <1>5

\* A request that ends leaves its place, or goes on with the next URL.
LEMMA EndTyped ==
  ASSUME Typed, Kept, NEW a \in Actor, End(a)
  PROVE  Typed' /\ Grows
<1>1. req[a].queue \in Seq(Item)
  BY DEF Typed, Request
<1>2. CASE req[a].queue = <<>>
  <2>1. req' = [req EXCEPT ![a] = Idle]
    BY <1>2 DEF End
  <2> QED BY <2>1, IdleTyped, OneRequest
<1>3. CASE req[a].queue # <<>>
  <2>1. /\ Head(req[a].queue) \in Item /\ Tail(req[a].queue) \in Seq(Item)
    BY <1>1, <1>3
  <2> DEFINE item == Head(req[a].queue)
  <2>2. PICK x : x = Fresh("find", item.url, Tail(req[a].queue), item.name, 0, None, None)
    OBVIOUS
  <2>6. [Idle EXCEPT !.pc = "find", !.url = item.url, !.name = item.name,
                     !.queue = Tail(req[a].queue)]
          = Fresh("find", item.url, Tail(req[a].queue), item.name, 0, None, None)
    BY Queued
  <2>3. req' = [req EXCEPT ![a] = x]
    BY <1>3, <2>2, <2>6 DEF End
  <2>4. x \in Request
    BY <2>1, <2>2 DEF Fresh, Request, Item, Steps
  <2>5. Holds(x)'
    BY <2>1, <2>2 DEF Fresh, Holds, Item, Preparing, Exchanging, Syncing
  <2> QED BY <2>3, <2>4, <2>5, OneRequest
<1> QED BY <1>2, <1>3

\* What the tables may become.
LEMMA SameTables ==
  ASSUME Typed, MixTyped',
         UNCHANGED <<lists, servers, connections, transactions, asVars, regVars>>
  PROVE  Kept
BY DEF Typed, Kept, ServersTyped, TablesTyped, Grows, asVars, regVars, Conn

\* The rows of the two tables.
LEMMA RowsAre ==
  ASSUME TablesTyped
  PROVE  \A c \in Conn :
           /\ connections[c] \in ConnectionRow
           /\ connections[c].reg \in DOMAIN registrations \cup {None}
           /\ connections[c].reg # None => connections[c].issuer # None
           /\ servers[connections[c].url] \in Issuer \cup {None}
<1>1. connections \in Seq(ConnectionRow)
  BY DEF TablesTyped
<1>2. \A c \in Conn : connections[c] \in ConnectionRow
  BY <1>1 DEF Conn
<1>3. \A c \in Conn : connections[c].url \in Url
  BY <1>2 DEF ConnectionRow
<1> QED BY <1>2, <1>3 DEF TablesTyped

\* One table changes: the row of a server, ...
LEMMA ServerSet ==
  ASSUME Typed, MixTyped', NEW u \in Url, NEW i \in Issuer \cup {None},
         servers' = [servers EXCEPT ![u] = i],
         UNCHANGED <<lists, connections, transactions, asVars, regVars>>
  PROVE  Kept /\ servers'[u] # NoServer
<1>1. servers \in [Url -> Issuer \cup {None, NoServer}] /\ i # NoServer
  BY OnboardingAssumption DEF Typed, TablesTyped
<1>2. servers' \in [Url -> Issuer \cup {None, NoServer}] /\ servers'[u] # NoServer
  BY <1>1
<1>3. \A v \in Url : servers[v] # NoServer => servers'[v] # NoServer
  BY <1>1
<1>4. \A c \in Conn : connections[c].url \in Url
  BY RowsAre DEF Typed, ConnectionRow
<1>5. TablesTyped'
  BY <1>2, <1>3, <1>4 DEF Typed, TablesTyped, regVars, Conn
<1>6. Grows
  BY <1>3 DEF Grows, regVars, Conn
<1>7. ServersTyped'
  BY DEF Typed, ServersTyped, asVars, regVars
<1> QED BY <1>2, <1>5, <1>6, <1>7 DEF Kept

\* ... the row of a connection, ...
LEMMA ConnectionSet ==
  ASSUME Typed, MixTyped', NEW c \in Conn, NEW row \in ConnectionRow,
         row.url = connections[c].url,
         row.reg \in DOMAIN registrations \cup {None},
         row.reg # None => row.issuer # None,
         connections[c].issuer # None => row.issuer # None,
         connections' = [connections EXCEPT ![c] = row],
         UNCHANGED <<lists, servers, transactions, asVars, regVars>>
  PROVE  Kept /\ connections'[c] = row
<1>1. connections \in Seq(ConnectionRow)
  BY DEF Typed, TablesTyped
<1>2. /\ connections' \in Seq(ConnectionRow) /\ DOMAIN connections' = DOMAIN connections
      /\ connections'[c] = row /\ \A d \in Conn : d # c => connections'[d] = connections[d]
  BY <1>1 DEF Conn
<1>3. TablesTyped'
  BY <1>2 DEF Typed, TablesTyped, regVars, Conn
<1>4. Grows
  BY <1>2 DEF Grows, regVars, Conn
<1>5. ServersTyped'
  BY DEF Typed, ServersTyped, asVars, regVars
<1> QED BY <1>2, <1>3, <1>4, <1>5 DEF Kept

\* ... a connection more, ...
LEMMA ConnectionAdded ==
  ASSUME Typed, MixTyped', NEW row \in ConnectionRow,
         row.reg = None, servers[row.url] # NoServer,
         connections' = Append(connections, row),
         UNCHANGED <<lists, servers, transactions, asVars, regVars>>
  PROVE  /\ Kept
         /\ Len(connections) + 1 \in Conn' /\ connections'[Len(connections) + 1] = row
<1> DEFINE n == Len(connections)
<1>1. connections \in Seq(ConnectionRow)
  BY DEF Typed, TablesTyped
<1>2. /\ n \in Nat /\ DOMAIN connections = 1..n
      /\ connections' \in Seq(ConnectionRow) /\ DOMAIN connections' = 1..(n + 1)
      /\ connections'[n + 1] = row /\ \A d \in 1..n : connections'[d] = connections[d]
  BY <1>1
<1> HIDE DEF n
<1>3. TablesTyped'
  BY <1>2 DEF Typed, TablesTyped, regVars, Conn
<1>4. Grows
  BY <1>2 DEF Grows, regVars, Conn
<1>5. ServersTyped'
  BY DEF Typed, ServersTyped, asVars, regVars
<1> QED BY <1>2, <1>3, <1>4, <1>5 DEF Kept, Conn, n

\* ... the status of a client, ...
LEMMA StatusSet ==
  ASSUME Typed, MixTyped', NEW k \in DOMAIN registrations, NEW s \in {"INVALID", "REFUSED"},
         registrations' = [registrations EXCEPT ![k].status = s],
         UNCHANGED <<lists, servers, connections, transactions, preconfigured, asVars>>
  PROVE  Kept
<1>1. registrations \in Seq(Row) /\ registrations[k] \in Row
  BY DEF Typed, TablesTyped
<1>2. PICK row : row = [registrations[k] EXCEPT !.status = s]
  OBVIOUS
<1>3. /\ row \in Row /\ row.issuer = registrations[k].issuer
      /\ row.type = registrations[k].type /\ row.method = registrations[k].method
  BY <1>1, <1>2 DEF Row
<1>4. registrations' = [registrations EXCEPT ![k] = row]
  BY <1>2
<1>5. /\ registrations' \in Seq(Row) /\ DOMAIN registrations' = DOMAIN registrations
      /\ registrations'[k] = row
      /\ \A j \in DOMAIN registrations : j # k => registrations'[j] = registrations[j]
  BY <1>1, <1>3, <1>4
<1>6. TablesTyped'
  BY <1>5 DEF Typed, TablesTyped, Conn
<1>7. Grows
  BY <1>3, <1>5 DEF Grows, Conn
<1>8. ServersTyped'
  BY DEF Typed, ServersTyped, asVars
<1> QED BY <1>6, <1>7, <1>8 DEF Kept

\* ... or a client more.
LEMMA RowAdded ==
  ASSUME Typed, MixTyped', NEW row \in Row,
         registrations' = Append(registrations, row),
         clients' \in [Issuer -> SUBSET [client : ClientOf, method : Method, home : Nat]],
         UNCHANGED <<lists, servers, connections, transactions, preconfigured, home, lapsed>>
  PROVE  /\ Kept /\ Len(registrations) + 1 \in DOMAIN registrations'
         /\ registrations'[Len(registrations) + 1] = row
<1> DEFINE n == Len(registrations)
<1>1. registrations \in Seq(Row)
  BY DEF Typed, TablesTyped
<1>2. /\ n \in Nat /\ DOMAIN registrations = 1..n
      /\ registrations' \in Seq(Row) /\ DOMAIN registrations' = 1..(n + 1)
      /\ registrations'[n + 1] = row
      /\ \A d \in 1..n : registrations'[d] = registrations[d]
  BY <1>1
<1> HIDE DEF n
<1>3. TablesTyped'
  BY <1>2 DEF Typed, TablesTyped, Conn
<1>4. Grows
  BY <1>2 DEF Grows, Conn
<1>5. ServersTyped'
  BY DEF Typed, ServersTyped
<1> QED BY <1>2, <1>3, <1>4, <1>5 DEF Kept, n

\* What a request is given is used as it is.
LEMMA RequestIs ==
  ASSUME Typed, NEW a \in Actor
  PROVE  /\ req[a] \in Request /\ Holds(req[a])
         /\ \A x : [req EXCEPT ![a] = x] \in [Actor -> Request] <=> x \in Request
<1>1. req \in [Actor -> Request]
  BY DEF Typed
<1> QED BY <1>1 DEF Typed, RequestsTyped

\* One lemma for each step of a request.
LEMMA FindServerTyped ==
  ASSUME Typed, MixTyped', NEW a \in Actor, FindServer(a)
  PROVE  Typed' /\ Grows
<1>1. Kept
  BY SameTables DEF FindServer
<1>2. PICK r \in Request : r = req[a] /\ Holds(r)
  BY RequestIs
<1>3. CASE End(a)
  BY <1>1, <1>3, EndTyped
<1>4. CASE ~End(a)
  <2>1. req' = [req EXCEPT ![a].pc = "probe", ![a].found = servers[req[a].url]]
    BY <1>4 DEF FindServer
  <2>2. PICK x : x = [r EXCEPT !.pc = "probe", !.found = servers[r.url]]
    OBVIOUS
  <2>3. req' = [req EXCEPT ![a] = x]
    BY <1>2, <2>1, <2>2
  <2>4. r.url \in Url /\ r.pc = "find"
    BY <1>2 DEF Holds, FindServer, At
  <2>5. servers[r.url] \in Issuer \cup {None, NoServer}
    BY <2>4 DEF Typed, TablesTyped
  <2>6. x \in Request
    BY <2>2, <2>5 DEF Request, Steps
  <2>7. x.pc = "probe" /\ x.url = r.url /\ x.conn = r.conn
    BY <2>2 DEF Request
  <2>8. Holds(r)'
    BY <1>1, <1>2, HoldsStays DEF Typed, Kept
  <2>9. Holds(x)'
    BY <2>4, <2>7, <2>8 DEF Holds, Preparing, Exchanging, Syncing
  <2> QED BY <1>1, <2>3, <2>6, <2>9, OneRequest
<1> QED BY <1>3, <1>4

LEMMA InsertServerTyped ==
  ASSUME Typed, MixTyped', NEW a \in Actor, InsertServer(a)
  PROVE  Typed' /\ Grows
<1>1. PICK r \in Request : r = req[a] /\ Holds(r)
  BY RequestIs
<1>2. r.pc = "probe" /\ r.url \in Url
  BY <1>1 DEF InsertServer, At, Holds
<1>3. CASE End(a) /\ UNCHANGED servers
  <2>1. Kept
    BY <1>3, SameTables DEF InsertServer
  <2> QED BY <1>3, <2>1, EndTyped
<1>4. CASE ~(End(a) /\ UNCHANGED servers)
  <2> DEFINE i == IF servers[r.url] = NoServer THEN None ELSE servers[r.url]
  <2>1. /\ servers' = [servers EXCEPT ![r.url] = i]
        /\ req' = [req EXCEPT ![a].pc = "alias"]
    BY <1>1, <1>4 DEF InsertServer, Goto
  <2>2. i \in Issuer \cup {None}
    BY <1>2 DEF Typed, TablesTyped
  <2> HIDE DEF i
  <2>3. Kept /\ servers'[r.url] # NoServer
    BY <1>2, <2>1, <2>2, ServerSet DEF InsertServer
  <2>4. PICK x : x = [r EXCEPT !.pc = "alias"]
    OBVIOUS
  <2>5. req' = [req EXCEPT ![a] = x]
    BY <1>1, <2>1, <2>4
  <2>6. x \in Request /\ x.pc = "alias" /\ x.url = r.url /\ x.conn = r.conn
    BY <2>4 DEF Request, Steps
  <2>7. Holds(r)'
    BY <1>1, <2>3, HoldsStays DEF Typed, Kept
  <2>8. Holds(x)'
    BY <1>2, <2>3, <2>6, <2>7 DEF Holds, Preparing, Exchanging, Syncing
  <2> QED BY <2>3, <2>5, <2>6, <2>8, OneRequest
<1> QED BY <1>3, <1>4

LEMMA ChooseAliasTyped ==
  ASSUME Typed, MixTyped', NEW a \in Actor, ChooseAlias(a)
  PROVE  Typed' /\ Grows
<1> DEFINE taken == {connections[c].alias : c \in Conn}
           free  == {k \in DOMAIN Alias : Alias[k] \notin taken}
           asked == req[a].name # None /\ req[a].name \notin taken
           name  == IF asked THEN req[a].name ELSE Alias[Min(free)]
<1>1. Kept
  BY SameTables DEF ChooseAlias
<1>2. PICK r \in Request : r = req[a] /\ Holds(r)
  BY RequestIs
<1>3. /\ r.pc = "alias" /\ (asked \/ free # {})
      /\ req' = [req EXCEPT ![a].pc = "insert", ![a].name = name]
  BY <1>2 DEF ChooseAlias, At
<1>4. name \in Name
  <2>1. CASE asked
    BY <1>2, <2>1 DEF Request
  <2>2. CASE ~asked
    <3>1. free \in SUBSET Nat /\ free # {}
      BY <1>3, <2>2, OnboardingAssumption
    <3>2. Min(free) \in free
      BY <3>1, LeastIsLeast
    <3> QED BY <2>2, <3>2, OnboardingAssumption
  <2> QED BY <2>1, <2>2
<1> HIDE DEF name
<1>5. PICK x : x = [r EXCEPT !.pc = "insert", !.name = name]
  OBVIOUS
<1>6. req' = [req EXCEPT ![a] = x]
  BY <1>2, <1>3, <1>5
<1>7. x \in Request /\ x.pc = "insert" /\ x.url = r.url /\ x.conn = r.conn /\ x.name = name
  BY <1>4, <1>5 DEF Request, Steps
<1>8. Holds(r)'
  BY <1>1, <1>2, HoldsStays DEF Typed, Kept
<1>9. Holds(x)'
  BY <1>3, <1>4, <1>7, <1>8 DEF Holds, Preparing, Exchanging, Syncing
<1> QED BY <1>1, <1>6, <1>7, <1>9, OneRequest

LEMMA ImportTyped ==
  ASSUME Typed, MixTyped', NEW a \in Actor, NEW items \in Seq(Item), Import(a, items)
  PROVE  Typed' /\ Grows
<1>1. Kept
  BY SameTables DEF Import
<1>2. items[1] \in Item /\ Tail(items) \in Seq(Item)
  BY RangeOfTail DEF Import
<1>3. PICK x : x = Fresh("find", items[1].url, Tail(items), items[1].name, 0, None, None)
  OBVIOUS
<1>4. [Idle EXCEPT !.pc = "find", !.url = items[1].url, !.name = items[1].name,
                   !.queue = Tail(items)]
        = Fresh("find", items[1].url, Tail(items), items[1].name, 0, None, None)
  BY Queued
<1>5. req' = [req EXCEPT ![a] = x]
  BY <1>3, <1>4 DEF Import
<1>6. x \in Request
  BY <1>2, <1>3 DEF Fresh, Request, Item, Steps
<1>7. Holds(x)'
  BY <1>2, <1>3 DEF Fresh, Holds, Item, Preparing, Exchanging, Syncing
<1> QED BY <1>1, <1>5, <1>6, <1>7, OneRequest

\* What a request reads of a connection when it begins.
LEMMA SnapshotTyped ==
  ASSUME Typed, NEW c \in Conn
  PROVE  /\ Snapshot(c) \in Snapshots
         /\ Snapshot(c).reg \in DOMAIN registrations \cup {None}
         /\ Snapshot(c).reg # None => Snapshot(c).issuer # None
         /\ Snapshot(c).issuer = connections[c].issuer
         /\ connections[c].url \in Url
<1>1. /\ connections[c] \in ConnectionRow
      /\ connections[c].reg \in DOMAIN registrations \cup {None}
      /\ connections[c].reg # None => connections[c].issuer # None
      /\ servers[connections[c].url] \in Issuer \cup {None}
  BY RowsAre DEF Typed
<1> QED BY <1>1 DEF Snapshot, Snapshots, ConnectionRow

LEMMA InsertConnectionTyped ==
  ASSUME Typed, MixTyped', NEW a \in Actor, InsertConnection(a)
  PROVE  Typed' /\ Grows
<1>1. PICK r \in Request : r = req[a] /\ Holds(r)
  BY RequestIs
<1>2. r.pc = "insert" /\ r.url \in Url /\ servers[r.url] # NoServer /\ r.name \in Name
  BY <1>1 DEF InsertConnection, At, Holds
<1> DEFINE c == Len(connections) + 1
<1>3. CASE End(a) /\ UNCHANGED connections
  <2>1. Kept
    BY <1>3, SameTables DEF InsertConnection
  <2> QED BY <1>3, <2>1, EndTyped
<1>4. CASE ~(End(a) /\ UNCHANGED connections)
  <2>1. PICK row : row = [url |-> r.url, alias |-> r.name, issuer |-> None, reg |-> None,
                          grant |-> None, version |-> 1,
                          status |-> IF r.url \in Protected THEN "AUTHORIZATION_REQUIRED"
                                     ELSE "CONNECTED"]
    OBVIOUS
  <2>2. row \in ConnectionRow /\ row.reg = None /\ row.url = r.url
    BY <1>2, <2>1 DEF ConnectionRow, Statuses
  <2>3. connections' = Append(connections, row)
    BY <1>1, <1>4, <2>1 DEF InsertConnection
  <2>9. c \in Nat
    BY DEF Typed, TablesTyped
  <2>4. Kept /\ c \in Conn' /\ connections'[c] = row
    BY <1>2, <2>2, <2>3, ConnectionAdded DEF InsertConnection
  <2>5. CASE r.url \notin Protected
    <3>1. req' = [req EXCEPT ![a].pc = "sync", ![a].conn = c, ![a].answer = "CONNECTED"]
      BY <1>1, <1>4, <2>5 DEF InsertConnection
    <3> HIDE DEF c
    <3>2. PICK y : y = [r EXCEPT !.pc = "sync", !.conn = c]
      OBVIOUS
    <3>3. PICK x : x = [y EXCEPT !.answer = "CONNECTED"]
      OBVIOUS
    <3>4. req' = [req EXCEPT ![a] = x]
      BY <1>1, <3>1, <3>2, <3>3
    <3>5. y \in Request /\ y.pc = "sync" /\ y.url = r.url /\ y.conn = c
      BY <2>9, <3>2 DEF Request, Steps
    <3>6. x \in Request /\ x.pc = "sync" /\ x.url = r.url /\ x.conn = c
      BY <3>3, <3>5 DEF Request, Statuses
    <3>7. Holds(x)'
      BY <1>2, <2>2, <2>4, <3>6 DEF Holds, Preparing, Exchanging, Syncing
    <3> QED BY <2>4, <3>4, <3>6, <3>7, OneRequest
  <2>6. CASE r.url \in Protected
    <3>1. PICK s : s = [issuer |-> None, reg |-> None, version |-> 1,
                        selected |-> IF r.found = NoServer THEN None ELSE r.found]
      OBVIOUS
    <3>2. s \in Snapshots /\ s.reg = None /\ s.issuer = None
      BY <1>1, <3>1 DEF Snapshots, Request
    <3>3. req' = [req EXCEPT ![a].pc = "discover", ![a].conn = c, ![a].seen = s]
      BY <1>1, <1>4, <2>6, <3>1 DEF InsertConnection
    <3> HIDE DEF c
    <3>5. PICK y : y = [r EXCEPT !.pc = "discover", !.conn = c]
      OBVIOUS
    <3>6. PICK x : x = [y EXCEPT !.seen = s]
      OBVIOUS
    <3>7. req' = [req EXCEPT ![a] = x]
      BY <1>1, <3>3, <3>5, <3>6
    <3>8. y \in Request /\ y.pc = "discover" /\ y.url = r.url /\ y.conn = c
      BY <2>9, <3>5 DEF Request, Steps
    <3>9. x \in Request /\ x.pc = "discover" /\ x.url = r.url /\ x.conn = c /\ x.seen = s
      BY <3>2, <3>6, <3>8 DEF Request
    <3>10. Holds(x)'
      BY <1>2, <2>2, <2>4, <3>2, <3>9 DEF Holds, Preparing, Exchanging, Syncing
    <3> QED BY <2>4, <3>7, <3>9, <3>10, OneRequest
  <2> QED BY <2>5, <2>6
<1> QED BY <1>3, <1>4

LEMMA StartAuthorizationTyped ==
  ASSUME Typed, MixTyped', NEW a \in Actor, NEW c, StartAuthorization(a, c)
  PROVE  Typed' /\ Grows
<1>1. Kept /\ c \in Conn /\ c \in Nat
  BY SameTables DEF StartAuthorization, Conn, Typed, TablesTyped
<1>2. PICK s : s = Snapshot(c)
  OBVIOUS
<1>3. /\ s \in Snapshots /\ s.reg \in DOMAIN registrations \cup {None}
      /\ s.reg # None => s.issuer # None
      /\ s.issuer = connections[c].issuer /\ connections[c].url \in Url
  BY <1>1, <1>2, SnapshotTyped
<1>4. PICK x : x = Fresh("discover", connections[c].url, <<>>, None, c, s, None)
  OBVIOUS
<1>5. [Idle EXCEPT !.pc = "discover", !.url = connections[c].url, !.conn = c, !.seen = s]
        = Fresh("discover", connections[c].url, <<>>, None, c, s, None)
  BY Started
<1>6. req' = [req EXCEPT ![a] = x]
  BY <1>2, <1>4, <1>5 DEF StartAuthorization
<1>7. <<>> \in Seq(Item)
  OBVIOUS
<1>8. x \in Request
  BY <1>1, <1>3, <1>4, <1>7 DEF Fresh, Request, Steps
<1>9. Holds(x)
  BY <1>1, <1>3, <1>4 DEF Fresh, Holds, Preparing, Exchanging, Syncing
<1>10. Holds(x)'
  BY <1>1, <1>8, <1>9, HoldsStays DEF Typed, Kept
<1> QED BY <1>1, <1>6, <1>8, <1>10, OneRequest

LEMMA CallbackTyped ==
  ASSUME Typed, MixTyped', NEW a \in Actor, NEW t, Callback(a, t)
  PROVE  Typed' /\ Grows
<1>1. t \in transactions /\ t \in Txn /\ t.conn \in Conn /\ t.conn \in Nat
  BY DEF Callback, Typed, TablesTyped, Txn
<1>2. Kept
  BY DEF Callback, Typed, Kept, ServersTyped, TablesTyped, Grows, asVars, regVars, Conn
<1>3. PICK s : s = Snapshot(t.conn)
  OBVIOUS
<1>4. /\ s \in Snapshots /\ s.reg \in DOMAIN registrations \cup {None}
      /\ s.reg # None => s.issuer # None
      /\ s.issuer = connections[t.conn].issuer /\ connections[t.conn].url \in Url
  BY <1>1, <1>3, SnapshotTyped
<1>5. PICK x : x = Fresh("present", connections[t.conn].url, <<>>, None, t.conn, s, t)
  OBVIOUS
<1>6. [Idle EXCEPT !.pc = "present", !.conn = t.conn, !.seen = s,
                   !.url = connections[t.conn].url, !.code = t]
        = Fresh("present", connections[t.conn].url, <<>>, None, t.conn, s, t)
  <2>1. Returned("present", connections[t.conn].url, t.conn, s, t)
          = Fresh("present", connections[t.conn].url, <<>>, None, t.conn, s, t)
    BY CalledBack
  <2> QED BY <2>1 DEF Returned
<1>7. req' = [req EXCEPT ![a] = x]
  BY <1>3, <1>5, <1>6 DEF Callback
<1>8. <<>> \in Seq(Item)
  OBVIOUS
<1>9. x \in Request
  BY <1>1, <1>4, <1>5, <1>8 DEF Fresh, Request, Steps
<1>10. Holds(x)
  BY <1>1, <1>4, <1>5 DEF Fresh, Holds, Preparing, Exchanging, Syncing
<1>11. Holds(x)'
  BY <1>2, <1>9, <1>10, HoldsStays DEF Typed, Kept
<1> QED BY <1>2, <1>7, <1>9, <1>11, OneRequest

LEMMA DiscoverTyped ==
  ASSUME Typed, MixTyped', NEW a \in Actor, Discover(a)
  PROVE  Typed' /\ Grows
<1>1. Kept
  BY SameTables DEF Discover
<1>2. PICK r \in Request : r = req[a] /\ Holds(r)
  BY RequestIs
<1>3. r.pc = "discover" /\ r.url \in Url
  BY <1>2 DEF Discover, At, Holds
<1> DEFINE named == lists[r.url]
           i == IF r.seen.selected \in Range(named) THEN r.seen.selected ELSE named[1]
           p == IF r.seen.issuer \in {None, i} THEN "select" ELSE "clear"
<1>4. i \in Issuer
  <2>1. named \in Seq(Issuer) /\ named # <<>>
    BY <1>3 DEF Typed, TablesTyped, Lists
  <2>2. Range(named) \subseteq Issuer /\ named[1] \in Issuer
    BY <2>1, RangeOfTail DEF Range
  <2> QED BY <2>2
<1>5. req' = [req EXCEPT ![a].issuer = i, ![a].pc = p]
  BY <1>2 DEF Discover
<1>6. p \in {"select", "clear"}
  OBVIOUS
<1> HIDE DEF i, p
<1>7. PICK x : x = [r EXCEPT !.issuer = i, !.pc = p]
  OBVIOUS
<1>8. req' = [req EXCEPT ![a] = x]
  BY <1>2, <1>5, <1>7
<1>9. /\ x \in Request /\ x.pc = p /\ x.url = r.url /\ x.conn = r.conn /\ x.seen = r.seen
      /\ x.issuer = i
  BY <1>4, <1>6, <1>7 DEF Request, Steps
<1>10. Holds(r)'
  BY <1>1, <1>2, HoldsStays DEF Typed, Kept
<1>11. Holds(x)'
  BY <1>3, <1>4, <1>6, <1>9, <1>10 DEF Holds, Preparing, Exchanging, Syncing
<1> QED BY <1>1, <1>8, <1>9, <1>11, OneRequest

\* A request that only takes its next step.
LEMMA GotoIs ==
  ASSUME NEW r \in Request, NEW p \in Steps
  PROVE  \E x \in Request :
           /\ x = [r EXCEPT !.pc = p] /\ x.pc = p
           /\ x.url = r.url /\ x.conn = r.conn /\ x.seen = r.seen /\ x.issuer = r.issuer
           /\ x.reg = r.reg /\ x.type = r.type /\ x.code = r.code /\ x.answer = r.answer
           /\ x.name = r.name
<1>1. PICK x : x = [r EXCEPT !.pc = p]
  OBVIOUS
<1> QED BY <1>1 DEF Request

\* A step that only moves a request on.
LEMMA GotoTyped ==
  ASSUME Typed, Kept, NEW a \in Actor, NEW p \in Steps, Goto(a, p),
         \A x \in Request :
           /\ x.pc = p /\ x.url = req[a].url /\ x.conn = req[a].conn
           /\ x.seen = req[a].seen /\ x.issuer = req[a].issuer /\ x.reg = req[a].reg
           /\ x.type = req[a].type /\ x.code = req[a].code /\ x.answer = req[a].answer
           => Holds(x)'
  PROVE  Typed' /\ Grows
<1>1. PICK r \in Request : r = req[a]
  BY RequestIs
<1>2. PICK x \in Request :
        /\ x = [r EXCEPT !.pc = p] /\ x.pc = p
        /\ x.url = r.url /\ x.conn = r.conn /\ x.seen = r.seen /\ x.issuer = r.issuer
        /\ x.reg = r.reg /\ x.type = r.type /\ x.code = r.code /\ x.answer = r.answer
  BY GotoIs
<1>3. req' = [req EXCEPT ![a] = x]
  BY <1>1, <1>2 DEF Goto
<1>4. Holds(x)'
  BY <1>1, <1>2
<1> QED BY <1>2, <1>3, <1>4, OneRequest

LEMMA ClearGrantTyped ==
  ASSUME Typed, MixTyped', NEW a \in Actor, ClearGrant(a)
  PROVE  Typed' /\ Grows
<1>1. PICK r \in Request : r = req[a] /\ Holds(r)
  BY RequestIs
<1>2. r.pc = "clear" /\ r.conn \in Conn /\ r.seen \in Snapshots
  BY <1>1 DEF ClearGrant, At, Holds, Preparing
<1>3. /\ connections[r.conn] \in ConnectionRow
      /\ connections[r.conn].reg # None => connections[r.conn].issuer # None
  BY <1>2, RowsAre DEF Typed
<1>4. PICK row : row = [connections[r.conn] EXCEPT !.grant = None, !.reg = None,
                                                   !.version = r.seen.version + 1]
  OBVIOUS
<1>5. /\ row \in ConnectionRow /\ row.url = connections[r.conn].url /\ row.reg = None
      /\ row.issuer = connections[r.conn].issuer
  <2>1. PICK y : y = [connections[r.conn] EXCEPT !.grant = None, !.reg = None]
    OBVIOUS
  <2>2. row = [y EXCEPT !.version = r.seen.version + 1]
    BY <1>4, <2>1
  <2>3. r.seen.version + 1 \in Nat
    BY <1>2 DEF Snapshots
  <2>4. /\ y \in ConnectionRow /\ y.url = connections[r.conn].url /\ y.reg = None
        /\ y.issuer = connections[r.conn].issuer
    BY <1>3, <2>1 DEF ConnectionRow
  <2> QED BY <2>2, <2>3, <2>4 DEF ConnectionRow
<1>6. connections' = [connections EXCEPT ![r.conn] = row]
  BY <1>1, <1>4 DEF ClearGrant
<1>7. Kept
  BY <1>2, <1>5, <1>6, ConnectionSet DEF ClearGrant
<1>8. Holds(r)'
  BY <1>1, <1>7, HoldsStays DEF Typed, Kept
<1>9. Goto(a, "select") /\ "select" \in Steps
  BY DEF ClearGrant, Steps
<1> QED BY <1>1, <1>2, <1>7, <1>8, <1>9, GotoTyped DEF Holds, Preparing, Exchanging, Syncing

LEMMA SelectServerTyped ==
  ASSUME Typed, MixTyped', NEW a \in Actor, SelectServer(a)
  PROVE  Typed' /\ Grows
<1>1. PICK r \in Request : r = req[a] /\ Holds(r)
  BY RequestIs
<1>2. r.pc = "select" /\ r.url \in Url /\ r.issuer \in Issuer
  BY <1>1 DEF SelectServer, At, Holds, Preparing
<1>3. servers' = [servers EXCEPT ![r.url] = r.issuer]
  BY <1>1 DEF SelectServer
<1>4. Kept
  BY <1>2, <1>3, ServerSet DEF SelectServer
<1>5. Holds(r)'
  BY <1>1, <1>4, HoldsStays DEF Typed, Kept
<1>6. Goto(a, "choose") /\ "choose" \in Steps
  BY DEF SelectServer, Steps
<1> QED BY <1>1, <1>2, <1>4, <1>5, <1>6, GotoTyped DEF Holds, Preparing, Exchanging, Syncing

LEMMA NeedCredentialsTyped ==
  ASSUME Typed, MixTyped', NEW a \in Actor, NeedCredentials(a)
  PROVE  Typed' /\ Grows
<1>1. PICK r \in Request : r = req[a] /\ Holds(r)
  BY RequestIs
<1>2. r.pc = "needed" /\ r.conn \in Conn /\ r.issuer \in Issuer
  BY <1>1 DEF NeedCredentials, At, Holds, Preparing
<1>3. /\ connections[r.conn] \in ConnectionRow
      /\ connections[r.conn].reg \in DOMAIN registrations \cup {None}
  BY <1>2, RowsAre DEF Typed
<1>4. PICK row : row = [connections[r.conn] EXCEPT !.issuer = r.issuer,
                          !.status = "CLIENT_CREDENTIALS_REQUIRED"]
  OBVIOUS
<1>5. /\ row \in ConnectionRow /\ row.url = connections[r.conn].url
      /\ row.reg = connections[r.conn].reg /\ row.issuer = r.issuer
  BY <1>2, <1>3, <1>4 DEF ConnectionRow, Statuses
<1>6. connections' = [connections EXCEPT ![r.conn] = row]
  BY <1>1, <1>4 DEF NeedCredentials
<1>7. r.issuer # None
  BY <1>2, OnboardingAssumption
<1>8. Kept
  BY <1>2, <1>3, <1>5, <1>6, <1>7, ConnectionSet DEF NeedCredentials
<1> QED BY <1>8, EndTyped DEF NeedCredentials

LEMMA BindClientTyped ==
  ASSUME Typed, MixTyped', NEW a \in Actor, BindClient(a)
  PROVE  Typed' /\ Grows
<1>1. PICK r \in Request : r = req[a] /\ Holds(r)
  BY RequestIs
<1>2. /\ r.pc = "bind" /\ r.conn \in Conn /\ r.issuer \in Issuer
      /\ r.reg \in DOMAIN registrations /\ r.reg \in Nat
      /\ registrations[r.reg].issuer = r.issuer /\ UNCHANGED registrations
  BY <1>1 DEF regVars, BindClient, At, Holds, Preparing, Typed, TablesTyped
<1>3. connections[r.conn] \in ConnectionRow
  BY <1>2, RowsAre DEF Typed
<1>4. PICK row : row = [connections[r.conn] EXCEPT !.issuer = r.issuer, !.reg = r.reg,
                          !.status = "AUTHORIZATION_REQUIRED"]
  OBVIOUS
<1>5. /\ row \in ConnectionRow /\ row.url = connections[r.conn].url
      /\ row.reg = r.reg /\ row.issuer = r.issuer
  BY <1>2, <1>3, <1>4 DEF ConnectionRow, Statuses
<1>6. connections' = [connections EXCEPT ![r.conn] = row]
  BY <1>1, <1>4 DEF BindClient
<1>7. r.issuer # None
  BY <1>2, OnboardingAssumption
<1>8. Kept
  BY <1>2, <1>5, <1>6, <1>7, ConnectionSet DEF BindClient
<1>9. Holds(r)'
  BY <1>1, <1>8, HoldsStays DEF Typed, Kept
<1>10. Goto(a, "transaction") /\ "transaction" \in Steps
  BY DEF BindClient, Steps
<1> QED BY <1>1, <1>2, <1>8, <1>9, <1>10, GotoTyped DEF Holds, Preparing, Exchanging, Syncing

\* The status of what is held.
LEMMA HeldTyped == \A i : Held(i) \in {"CONNECTED", "CONNECTED_NON_REFRESHABLE"}
BY DEF Held

LEMMA StoreGrantTyped ==
  ASSUME Typed, MixTyped', NEW a \in Actor, StoreGrant(a)
  PROVE  Typed' /\ Grows
<1>1. PICK r \in Request : r = req[a] /\ Holds(r)
  BY RequestIs
<1>2. /\ r.pc = "store" /\ r.conn \in Conn /\ r.seen \in Snapshots
      /\ r.url = connections[r.conn].url /\ r.url \in Url
  BY <1>1 DEF StoreGrant, At, Holds, Preparing, Exchanging, Syncing
<1>3. ASSUME Kept PROVE Typed' /\ Grows
  <2>1. Holds(r)'
    BY <1>1, <1>3, HoldsStays DEF Typed, Kept
  <2>2. Goto(a, "activate") /\ "activate" \in Steps
    BY DEF StoreGrant, Steps
  <2> QED BY <1>1, <1>2, <1>3, <2>1, <2>2, GotoTyped DEF Holds, Preparing, Exchanging, Syncing
<1>4. CASE connections[r.conn].version # r.seen.version
  <2>1. Kept
    BY <1>1, <1>4, SameTables DEF StoreGrant
  <2> QED BY <1>3, <2>1
<1>5. CASE connections[r.conn].version = r.seen.version
  <2>1. /\ connections[r.conn] \in ConnectionRow
        /\ connections[r.conn].reg \in DOMAIN registrations \cup {None}
        /\ connections[r.conn].reg # None => connections[r.conn].issuer # None
    BY <1>2, RowsAre DEF Typed
  <2>2. PICK row : row = [connections[r.conn] EXCEPT !.version = r.seen.version + 1,
                            !.grant = r.seen.issuer, !.status = Held(r.seen.issuer)]
    OBVIOUS
  <2>3. /\ row \in ConnectionRow /\ row.url = connections[r.conn].url
        /\ row.reg = connections[r.conn].reg /\ row.issuer = connections[r.conn].issuer
    <3>1. PICK y : y = [connections[r.conn] EXCEPT !.version = r.seen.version + 1,
                          !.grant = r.seen.issuer]
      OBVIOUS
    <3>2. row = [y EXCEPT !.status = Held(r.seen.issuer)]
      BY <2>2, <3>1
    <3>3. /\ r.seen.version + 1 \in Nat /\ r.seen.issuer \in Issuer \cup {None}
          /\ Held(r.seen.issuer) \in Statuses
      BY <1>2, HeldTyped DEF Snapshots, Statuses
    <3>4. /\ y \in ConnectionRow /\ y.url = connections[r.conn].url
          /\ y.reg = connections[r.conn].reg /\ y.issuer = connections[r.conn].issuer
      BY <2>1, <3>1, <3>3 DEF ConnectionRow
    <3> QED BY <3>2, <3>3, <3>4 DEF ConnectionRow
  <2>4. connections' = [connections EXCEPT ![r.conn] = row]
    BY <1>1, <1>5, <2>2 DEF StoreGrant
  <2>5. UNCHANGED <<lists, servers, transactions, asVars, regVars>>
    BY DEF StoreGrant
  <2>6. Kept
    BY <1>2, <2>1, <2>3, <2>4, <2>5, ConnectionSet
  <2> QED BY <1>3, <2>6
<1> QED BY <1>4, <1>5

LEMMA RebindTyped ==
  ASSUME Typed, MixTyped', NEW a \in Actor, Rebind(a)
  PROVE  Typed' /\ Grows
<1>1. PICK r \in Request : r = req[a] /\ Holds(r)
  BY RequestIs
<1>2. /\ r.pc = "rebind" /\ r.conn \in Conn
      /\ r.reg \in DOMAIN registrations /\ r.reg \in Nat
      /\ connections[r.conn].issuer # None
  BY <1>1, OnboardingAssumption DEF Rebind, At, Holds, Preparing, Exchanging, Syncing, Typed, TablesTyped
<1>3. connections[r.conn] \in ConnectionRow
  BY <1>2, RowsAre DEF Typed
<1>4. PICK row : row = [connections[r.conn] EXCEPT !.reg = r.reg]
  OBVIOUS
<1>5. /\ row \in ConnectionRow /\ row.url = connections[r.conn].url
      /\ row.reg = r.reg /\ row.issuer = connections[r.conn].issuer
  BY <1>2, <1>3, <1>4 DEF ConnectionRow, Statuses
<1>6. connections' = [connections EXCEPT ![r.conn] = row]
  BY <1>1, <1>4 DEF Rebind
<1>7. Kept
  BY <1>2, <1>5, <1>6, ConnectionSet DEF Rebind
<1> QED BY <1>7, EndTyped DEF Rebind

\* A method is found whenever one is acceptable.
LEMMA MethodPicked ==
  ASSUME NEW supported \in SUBSET Method, NEW acceptable \in SUBSET Method, acceptable # {}
  PROVE  PickAuthMethod(supported, acceptable) \in Method
<1>1. ASSUME NEW methods \in SUBSET Method, methods # {}
      PROVE  MostPreferred(methods) \in Method
  <2> DEFINE T == {k \in DOMAIN Preference : Preference[k] \in methods}
  <2>1. /\ DOMAIN Preference = 1..4
        /\ Preference[1] = "private_key_jwt" /\ Preference[2] = "client_secret_basic"
        /\ Preference[3] = "client_secret_post" /\ Preference[4] = "none"
    BY DEF Preference
  <2>2. T \in SUBSET Nat /\ T # {}
    <3>1. PICK m \in methods : m \in Method
      BY <1>1
    <3>2. PICK k \in 1..4 : Preference[k] = m
      BY <2>1, <3>1 DEF Method
    <3> QED BY <2>1, <3>1, <3>2
  <2>3. Min(T) \in T
    BY <2>2, LeastIsLeast
  <2> QED BY <1>1, <2>3 DEF MostPreferred
<1>2. CASE supported = {}
  BY <1>1, <1>2 DEF PickAuthMethod
<1>3. CASE supported # {} /\ supported \cap acceptable # {}
  BY <1>1, <1>3 DEF PickAuthMethod
<1>4. CASE supported # {} /\ supported \cap acceptable = {}
  BY <1>4 DEF PickAuthMethod
<1> QED BY <1>2, <1>3, <1>4

\* And the one the server grants.
LEMMA MethodGranted ==
  ASSUME NEW i \in Issuer, NEW method
  PROVE  GrantedMethod(i, method) \in Method
<1>1. Feature[i].methods \in SUBSET Method /\ Feature[i].methods # {}
  BY FeatureAssumption
<1> QED BY <1>1 DEF GrantedMethod

\* The last strategy always applies.
LEMMA StrategyFound ==
  ASSUME NEW i \in Issuer
  PROVE  Strategy(i) \in Strategic \cup {"USER_SUPPLIED"}
<1> DEFINE T == {k \in DOMAIN Strategies : Supports(Strategies[k], i)}
<1>1. /\ DOMAIN Strategies = 1..4
      /\ Strategies[1] = "PRECONFIGURED" /\ Strategies[2] = "CIMD"
      /\ Strategies[3] = "DYNAMIC" /\ Strategies[4] = "USER_SUPPLIED"
  BY DEF Strategies
<1>2. 4 \in T
  BY <1>1 DEF Supports
<1>3. T \in SUBSET Nat /\ T # {}
  BY <1>1, <1>2
<1>4. Min(T) \in 1..4
  BY <1>1, <1>3, LeastIsLeast
<1>5. Min(T) = 1 \/ Min(T) = 2 \/ Min(T) = 3 \/ Min(T) = 4
  BY <1>4
<1> QED BY <1>1, <1>5 DEF Strategy, Strategic

\* A client adopted is a row of the server it was adopted for.
LEMMA AdoptTyped ==
  ASSUME Typed, MixTyped', NEW type \in Strategic, NEW i \in Issuer,
         NEW avoid \in SUBSET Method, avoid # Method, Adopt(type, i, avoid),
         UNCHANGED <<lists, servers, connections, transactions, preconfigured, home, lapsed>>
  PROVE  /\ Kept /\ Len(registrations) + 1 \in DOMAIN registrations'
         /\ Len(registrations) + 1 \in Nat
         /\ registrations'[Len(registrations) + 1].issuer = i
<1> DEFINE n == Len(registrations) + 1
           requested == PickAuthMethod(Feature[i].methods \ avoid, Method \ avoid)
           document  == PickAuthMethod(Feature[i].methods \cup {"none"}, {"private_key_jwt", "none"})
<1>1. n \in Nat /\ home \in Nat /\ preconfigured[i] \in Nat
  BY DEF Typed, TablesTyped, ServersTyped
<1>2. Feature[i].methods \in SUBSET Method
  BY FeatureAssumption
<1>3. requested \in Method /\ GrantedMethod(i, requested) \in Method
  <2>1. Method \ avoid # {}
    OBVIOUS
  <2> QED BY <1>2, <2>1, MethodPicked, MethodGranted
<1>4. document \in Method
  <2>1. /\ Feature[i].methods \cup {"none"} \in SUBSET Method
        /\ {"private_key_jwt", "none"} \in SUBSET Method
    BY <1>2 DEF Method
  <2> QED BY <2>1, MethodPicked
<1>5. clients \in [Issuer -> SUBSET [client : ClientOf, method : Method, home : Nat]]
  BY DEF Typed, ServersTyped
<1> HIDE DEF n, requested, document
<1>6. ASSUME NEW client \in ClientOf, NEW method \in Method, AddRow(i, type, client, method),
             clients' \in [Issuer -> SUBSET [client : ClientOf, method : Method, home : Nat]]
      PROVE  Kept /\ n \in DOMAIN registrations' /\ registrations'[n].issuer = i
  <2>1. PICK row : row = [issuer |-> i, type |-> type, client |-> client, method |-> method,
                          home |-> home, status |-> "ACTIVE"]
    OBVIOUS
  <2>2. row \in Row /\ row.issuer = i
    BY <1>1, <2>1 DEF Row, Strategic
  <2>3. registrations' = Append(registrations, row)
    BY <1>6, <2>1 DEF AddRow
  <2> QED BY <1>6, <2>2, <2>3, RowAdded DEF n
<1>7. CASE type = "PRECONFIGURED"
  <2>1. <<type, preconfigured[i]>> \in ClientOf /\ "client_secret_basic" \in Method
    BY <1>1, <1>7 DEF ClientOf, Method
  <2>2. AddRow(i, type, <<type, preconfigured[i]>>, "client_secret_basic") /\ clients' = clients
    BY <1>7 DEF Adopt
  <2> QED BY <1>1, <1>5, <1>6, <2>1, <2>2 DEF n
<1>8. CASE type = "CIMD"
  <2>1. <<type, home>> \in ClientOf
    BY <1>1, <1>8 DEF ClientOf
  <2>2. AddRow(i, type, <<type, home>>, document) /\ clients' = clients
    BY <1>8 DEF Adopt, document
  <2> QED BY <1>1, <1>4, <1>5, <1>6, <2>1, <2>2 DEF n
<1>9. CASE type = "DYNAMIC"
  <2>1. <<type, n>> \in ClientOf /\ <<"DYNAMIC", n>> \in ClientOf
    BY <1>1, <1>9 DEF ClientOf
  <2>2. AddRow(i, type, <<type, n>>, GrantedMethod(i, requested)) /\ RegisterAt(i, n, requested)
    BY <1>9 DEF Adopt, n, requested
  <2>3. clients' \in [Issuer -> SUBSET [client : ClientOf, method : Method, home : Nat]]
    BY <1>1, <1>3, <1>5, <2>1, <2>2 DEF RegisterAt
  <2> QED BY <1>1, <1>3, <1>6, <2>1, <2>2, <2>3 DEF n
<1> QED BY <1>7, <1>8, <1>9 DEF Strategic

LEMMA ChooseStrategyTyped ==
  ASSUME Typed, MixTyped', NEW a \in Actor, ChooseStrategy(a)
  PROVE  Typed' /\ Grows
<1>1. Kept
  BY SameTables DEF ChooseStrategy
<1>2. PICK r \in Request : r = req[a] /\ Holds(r)
  BY RequestIs
<1>3. r.pc = "choose" /\ r.issuer \in Issuer
  BY <1>2 DEF ChooseStrategy, At, Holds, Preparing
<1> DEFINE type == Strategy(r.issuer)
<1>4. type \in Strategic \cup {"USER_SUPPLIED"}
  BY <1>3, StrategyFound
<1>5. req' = [req EXCEPT ![a].pc = "client", ![a].type = type]
  BY <1>2 DEF ChooseStrategy
<1> HIDE DEF type
<1>6. PICK x : x = [r EXCEPT !.pc = "client", !.type = type]
  OBVIOUS
<1>7. req' = [req EXCEPT ![a] = x]
  BY <1>2, <1>5, <1>6
<1>8. /\ x \in Request /\ x.pc = "client" /\ x.url = r.url /\ x.conn = r.conn
      /\ x.seen = r.seen /\ x.issuer = r.issuer /\ x.type = type
  BY <1>4, <1>6 DEF Request, Steps
<1>9. Holds(r)'
  BY <1>1, <1>2, HoldsStays DEF Typed, Kept
<1>10. Holds(x)'
  BY <1>3, <1>4, <1>8, <1>9 DEF Holds, Preparing, Exchanging, Syncing
<1> QED BY <1>1, <1>7, <1>8, <1>10, OneRequest

LEMMA FindClientTyped ==
  ASSUME Typed, MixTyped', NEW a \in Actor, FindClient(a)
  PROVE  Typed' /\ Grows
<1>1. PICK r \in Request : r = req[a] /\ Holds(r)
  BY RequestIs
<1>2. /\ r.pc = "client" /\ r.conn \in Conn /\ r.issuer \in Issuer
      /\ r.type \in Strategic \cup {"USER_SUPPLIED"}
  BY <1>1 DEF FindClient, At, Holds, Preparing
<1>3. Kept /\ UNCHANGED registrations
  BY SameTables DEF FindClient, regVars
<1> DEFINE next(k) == IF Reusable(r.type, r.issuer, k) THEN "bind"
                      ELSE IF r.type = "USER_SUPPLIED" THEN "needed"
                      ELSE IF Retirable(r.type, k) THEN "retire" ELSE "adopt"
<1>4. PICK k \in FindActive(r.issuer) : req' = [req EXCEPT ![a].reg = k, ![a].pc = next(k)]
  BY <1>1 DEF FindClient
<1>5. /\ k = None \/ (k \in DOMAIN registrations /\ registrations[k].issuer = r.issuer)
      /\ DOMAIN registrations \subseteq Nat
  BY DEF FindActive, Rows, Typed, TablesTyped
<1> DEFINE p == next(k)
<1>6. /\ p \in {"bind", "needed", "retire", "adopt"}
      /\ p \in {"bind", "retire"} => k # None
      /\ p \in {"retire", "adopt"} => r.type \in Strategic
  <2>1. CASE Reusable(r.type, r.issuer, k)
    BY <2>1 DEF Reusable
  <2>2. CASE ~Reusable(r.type, r.issuer, k) /\ r.type = "USER_SUPPLIED"
    BY <2>2
  <2>3. CASE ~Reusable(r.type, r.issuer, k) /\ r.type # "USER_SUPPLIED"
    BY <1>2, <2>3 DEF Retirable
  <2> QED BY <2>1, <2>2, <2>3
<1>7. req' = [req EXCEPT ![a].reg = k, ![a].pc = p]
  BY <1>4
<1> HIDE DEF p, next
<1>8. PICK x : x = [r EXCEPT !.reg = k, !.pc = p]
  OBVIOUS
<1>9. req' = [req EXCEPT ![a] = x]
  BY <1>1, <1>7, <1>8
<1>10. /\ x \in Request /\ x.pc = p /\ x.reg = k /\ x.url = r.url /\ x.conn = r.conn
       /\ x.seen = r.seen /\ x.issuer = r.issuer /\ x.type = r.type
  BY <1>5, <1>6, <1>8 DEF Request, Steps
<1>11. Holds(r)'
  BY <1>1, <1>3, HoldsStays DEF Typed, Kept
<1>12. Holds(x)'
  BY <1>2, <1>3, <1>5, <1>6, <1>10, <1>11 DEF Holds, Preparing, Exchanging, Syncing
<1> QED BY <1>3, <1>9, <1>10, <1>12, OneRequest

LEMMA RetireClientTyped ==
  ASSUME Typed, MixTyped', NEW a \in Actor, RetireClient(a)
  PROVE  Typed' /\ Grows
<1>1. PICK r \in Request : r = req[a] /\ Holds(r)
  BY RequestIs
<1>2. r.pc = "retire" /\ r.reg \in DOMAIN registrations /\ r.type \in Strategic
  BY <1>1 DEF RetireClient, At, Holds
<1>3. registrations' = [registrations EXCEPT ![r.reg].status = "INVALID"]
  BY <1>1 DEF RetireClient, Retire
<1>4. Kept
  BY <1>2, <1>3, StatusSet DEF RetireClient
<1>5. Holds(r)'
  BY <1>1, <1>4, HoldsStays DEF Typed, Kept
<1>6. Goto(a, "adopt") /\ "adopt" \in Steps
  BY DEF RetireClient, Steps
<1> QED BY <1>1, <1>2, <1>4, <1>5, <1>6, GotoTyped DEF Holds, Preparing, Exchanging, Syncing

\* The new row is the one the request knows the number of.
LEMMA NumberedTyped ==
  ASSUME Typed, Kept, NEW a \in Actor, NEW p \in {"bind", "rebind"}, NEW n \in Nat,
         n \in DOMAIN registrations',
         p = "bind" => req[a].pc = "adopt" /\ registrations'[n].issuer = req[a].issuer,
         p = "rebind" => req[a].pc = "replace" /\ registrations'[n].issuer = req[a].seen.issuer,
         req' = [req EXCEPT ![a].pc = p, ![a].reg = n]
  PROVE  Typed' /\ Grows
<1>1. PICK r \in Request : r = req[a] /\ Holds(r)
  BY RequestIs
<1>2. PICK x : x = [r EXCEPT !.pc = p, !.reg = n]
  OBVIOUS
<1>3. req' = [req EXCEPT ![a] = x]
  BY <1>1, <1>2
<1>4. /\ x \in Request /\ x.pc = p /\ x.reg = n /\ x.url = r.url /\ x.conn = r.conn
      /\ x.seen = r.seen /\ x.issuer = r.issuer /\ x.code = r.code
  BY <1>2 DEF Request, Steps
<1>5. Holds(r)'
  BY <1>1, HoldsStays DEF Typed, Kept
<1>6. Holds(x)'
  BY <1>1, <1>4, <1>5 DEF Holds, Preparing, Exchanging, Syncing
<1> QED BY <1>3, <1>4, <1>6, OneRequest

LEMMA AdoptClientTyped ==
  ASSUME Typed, MixTyped', NEW a \in Actor, AdoptClient(a)
  PROVE  Typed' /\ Grows /\ Kept
         /\ registrations'[Len(registrations) + 1].issuer = req[a].issuer
<1>1. req[a].pc = "adopt" /\ req[a].type \in Strategic /\ req[a].issuer \in Issuer
  BY RequestIs DEF AdoptClient, At, Holds, Preparing
<1>2. {} \in SUBSET Method /\ {} # Method
  BY DEF Method
<1>3. /\ Kept /\ Len(registrations) + 1 \in DOMAIN registrations'
      /\ Len(registrations) + 1 \in Nat
      /\ registrations'[Len(registrations) + 1].issuer = req[a].issuer
  BY <1>1, <1>2, AdoptTyped DEF AdoptClient
<1> QED BY <1>1, <1>3, NumberedTyped DEF AdoptClient

LEMMA ReplaceClientTyped ==
  ASSUME Typed, MixTyped', NEW a \in Actor, ReplaceClient(a)
  PROVE  Typed' /\ Grows /\ Kept
         /\ registrations'[Len(registrations) + 1].issuer = req[a].seen.issuer
<1> DEFINE avoid == MethodsToAvoid(registrations[req[a].seen.reg], req[a].answer)
<1>1. /\ req[a].pc = "replace" /\ req[a].seen.reg \in DOMAIN registrations
      /\ req[a].seen.issuer \in Issuer /\ avoid # None
  BY RequestIs DEF ReplaceClient, At, Holds, Preparing, Exchanging, Syncing
<1>2. registrations[req[a].seen.reg].method \in Method
  <2>1. registrations \in Seq(Row)
    BY DEF Typed, TablesTyped
  <2>2. registrations[req[a].seen.reg] \in Row
    BY <1>1, <2>1
  <2> QED BY <2>2 DEF Row
<1>3. avoid = {registrations[req[a].seen.reg].method} \/ avoid = {}
  BY <1>1 DEF MethodsToAvoid
<1>4. avoid \in SUBSET Method /\ avoid # Method
  BY <1>2, <1>3 DEF Method
<1> HIDE DEF avoid
<1>5. "DYNAMIC" \in Strategic
  BY DEF Strategic
<1>6. /\ Kept /\ Len(registrations) + 1 \in DOMAIN registrations'
      /\ Len(registrations) + 1 \in Nat
      /\ registrations'[Len(registrations) + 1].issuer = req[a].seen.issuer
  <2>1. Adopt("DYNAMIC", req[a].seen.issuer, avoid)
    BY DEF ReplaceClient, avoid
  <2> QED BY <1>1, <1>4, <1>5, <2>1, AdoptTyped DEF ReplaceClient
<1> QED BY <1>1, <1>6, NumberedTyped DEF ReplaceClient

LEMMA OpenTransactionTyped ==
  ASSUME Typed, MixTyped', NEW a \in Actor, OpenTransaction(a)
  PROVE  Typed' /\ Grows
<1> DEFINE c == req[a].conn
           fresh == {n \in 1..MaxTxn : \A t \in Waiting(c) : t.nth # n}
<1>1. /\ c \in Conn /\ req[a].issuer \in Issuer /\ req[a].reg \in DOMAIN registrations
  BY RequestIs DEF OpenTransaction, At, Holds, Preparing
<1>2. c \in Nat /\ home \in Nat /\ registrations[req[a].reg].client \in ClientOf
  <2>1. registrations \in Seq(Row) /\ connections \in Seq(ConnectionRow) /\ home \in Nat
    BY DEF Typed, TablesTyped, ServersTyped
  <2>2. registrations[req[a].reg] \in Row
    BY <1>1, <2>1
  <2> QED BY <1>1, <2>1, <2>2 DEF Row, Conn
<1>3. Min(fresh) \in 1..MaxTxn
  <2>1. fresh \in SUBSET Nat /\ fresh # {}
    BY DEF OpenTransaction
  <2> QED BY <2>1, LeastIsLeast
<1>4. PICK t : t = [conn |-> c, nth |-> Min(fresh), issuer |-> req[a].issuer, home |-> home,
                    client |-> registrations[req[a].reg].client]
  OBVIOUS
<1>5. t \in Txn /\ t.conn \in Conn
  BY <1>1, <1>2, <1>3, <1>4 DEF Txn
<1>6. transactions' = transactions \cup {t}
  BY <1>4 DEF OpenTransaction
<1>7. TablesTyped'
  BY <1>5, <1>6 DEF OpenTransaction, Typed, TablesTyped, regVars, Conn
<1>8. Kept
  BY <1>7 DEF OpenTransaction, Typed, Kept, ServersTyped, Grows, asVars, regVars, Conn
<1> QED BY <1>8, EndTyped DEF OpenTransaction

LEMMA PresentCodeTyped ==
  ASSUME Typed, MixTyped', NEW a \in Actor, PresentCode(a)
  PROVE  Typed' /\ Grows
<1>1. PICK r \in Request : r = req[a] /\ Holds(r)
  BY RequestIs
<1>2. r.pc = "present"
  BY <1>1 DEF PresentCode, At
<1>3. Kept
  BY SameTables DEF PresentCode
<1> DEFINE row == registrations[r.seen.reg]
           answer == TokenAnswer(r.seen.issuer, row.client, row.method, r.code)
<1>4. answer \in Answers
  BY DEF TokenAnswer, Answers
<1> HIDE DEF answer
<1>5. CASE End(a)
  BY <1>3, <1>5, EndTyped
<1>6. CASE ~End(a)
  <2>1. /\ r.seen.reg # None
        /\ \/ Goto(a, "store")
           \/ /\ MethodsToAvoid(row, answer) # None
              /\ req' = [req EXCEPT ![a].pc = "refuse", ![a].answer = answer]
    BY <1>1, <1>6 DEF PresentCode, answer
  <2>2. /\ r.seen.reg \in DOMAIN registrations /\ r.seen.issuer \in Issuer
        /\ r.code \in Txn
    BY <1>1, <1>2, <2>1 DEF Holds, Preparing, Exchanging, Syncing, Snapshots
  <2>3. Holds(r)'
    BY <1>1, <1>3, HoldsStays DEF Typed, Kept
  <2>4. UNCHANGED registrations
    BY DEF PresentCode, regVars
  <2>5. CASE Goto(a, "store")
    <3>1. "store" \in Steps
      BY DEF Steps
    <3> QED BY <1>1, <1>2, <1>3, <2>2, <2>3, <2>4, <2>5, <3>1, GotoTyped
        DEF Holds, Preparing, Exchanging, Syncing
  <2>6. CASE /\ MethodsToAvoid(row, answer) # None
             /\ req' = [req EXCEPT ![a].pc = "refuse", ![a].answer = answer]
    <3>1. PICK x : x = [r EXCEPT !.pc = "refuse", !.answer = answer]
      OBVIOUS
    <3>2. req' = [req EXCEPT ![a] = x]
      BY <1>1, <2>6, <3>1
    <3>3. /\ x \in Request /\ x.pc = "refuse" /\ x.answer = answer /\ x.url = r.url
          /\ x.conn = r.conn /\ x.seen = r.seen /\ x.code = r.code
      BY <1>4, <3>1 DEF Request, Steps, Answers
    <3>4. MethodsToAvoid(registrations'[x.seen.reg], x.answer) # None
      BY <2>4, <2>6, <3>3
    <3>5. Holds(x)'
      BY <1>2, <2>2, <2>3, <2>4, <3>3, <3>4 DEF Holds, Preparing, Exchanging, Syncing
    <3> QED BY <1>3, <3>2, <3>3, <3>5, OneRequest
  <2> QED BY <2>1, <2>5, <2>6
<1> QED BY <1>5, <1>6

LEMMA RefuseClientTyped ==
  ASSUME Typed, MixTyped', NEW a \in Actor, RefuseClient(a)
  PROVE  Typed' /\ Grows
<1>1. PICK r \in Request : r = req[a] /\ Holds(r)
  BY RequestIs
<1>2. r.pc = "refuse" /\ r.seen.reg \in DOMAIN registrations
  BY <1>1 DEF RefuseClient, At, Holds, Exchanging
<1>3. registrations' = [registrations EXCEPT ![r.seen.reg].status = "REFUSED"]
  BY <1>1 DEF RefuseClient, Refuse
<1>4. Kept
  BY <1>2, <1>3, StatusSet DEF RefuseClient
<1>5. Holds(r)'
  BY <1>1, <1>4, HoldsStays DEF Typed, Kept
<1>6. Goto(a, "replace") /\ "replace" \in Steps
  BY DEF RefuseClient, Steps
<1> QED BY <1>1, <1>2, <1>4, <1>5, <1>6, GotoTyped DEF Holds, Preparing, Exchanging, Syncing

\* A status that is written.
LEMMA StatusWritten ==
  ASSUME Typed, MixTyped', NEW c \in Conn, NEW s \in Statuses, SetStatus(c, s),
         UNCHANGED <<lists, servers, transactions, asVars, regVars>>
  PROVE  Kept
<1>1. /\ connections[c] \in ConnectionRow
      /\ connections[c].reg \in DOMAIN registrations \cup {None}
      /\ connections[c].reg # None => connections[c].issuer # None
  BY RowsAre DEF Typed
<1>2. PICK row : row = [connections[c] EXCEPT !.status = s]
  OBVIOUS
<1>3. /\ row \in ConnectionRow /\ row.url = connections[c].url
      /\ row.reg = connections[c].reg /\ row.issuer = connections[c].issuer
  BY <1>1, <1>2 DEF ConnectionRow
<1>4. connections' = [connections EXCEPT ![c] = row]
  BY <1>2 DEF SetStatus
<1> QED BY <1>1, <1>3, <1>4, ConnectionSet

\* A request that goes on to another step with another status.
LEMMA AnsweredTyped ==
  ASSUME Typed, Kept, NEW a \in Actor, NEW p \in Syncing, NEW s \in Statuses,
         req[a].pc \in Syncing, req' = [req EXCEPT ![a].pc = p, ![a].answer = s]
  PROVE  Typed' /\ Grows
<1>1. PICK r \in Request : r = req[a] /\ Holds(r)
  BY RequestIs
<1>2. PICK x : x = [r EXCEPT !.pc = p, !.answer = s]
  OBVIOUS
<1>3. req' = [req EXCEPT ![a] = x]
  BY <1>1, <1>2
<1>4. /\ x \in Request /\ x.pc = p /\ x.answer = s /\ x.url = r.url /\ x.conn = r.conn
  BY <1>2 DEF Request, Steps, Syncing
<1>5. Holds(r)'
  BY <1>1, HoldsStays DEF Typed, Kept
<1>6. r.pc \in Syncing
  BY <1>1
<1>7. Holds(x)'
  BY <1>4, <1>5, <1>6 DEF Holds, Preparing, Exchanging, Syncing
<1> QED BY <1>3, <1>4, <1>7, OneRequest

LEMMA ActivateTyped ==
  ASSUME Typed, MixTyped', NEW a \in Actor, Activate(a)
  PROVE  Typed' /\ Grows
<1>1. req[a].pc = "activate" /\ req[a].conn \in Conn
  BY RequestIs DEF Activate, At, Holds, Syncing
<1>2. connections[req[a].conn].status \in Statuses
  BY <1>1, RowsAre DEF Typed, ConnectionRow
<1>3. Kept
  BY SameTables DEF Activate
<1> QED BY <1>1, <1>2, <1>3, AnsweredTyped DEF Activate, Syncing

\* What comes of a contact is a status.
LEMMA ContactedTyped ==
  \A c, before : Contacted(c, before) \in {"CONNECTED", "CONNECTED_NON_REFRESHABLE",
                                          "REAUTH_REQUIRED", "DEGRADED"}
BY DEF Contacted

LEMMA ContactTyped ==
  ASSUME Typed, MixTyped', NEW a \in Actor, Contact(a)
  PROVE  Typed' /\ Grows
<1>1. req[a].pc = "sync" /\ req[a].conn \in Conn
  BY RequestIs DEF Contact, At, Holds, Syncing
<1> DEFINE outcome == Contacted(req[a].conn, req[a].answer)
<1>2. outcome \in Statuses
  BY ContactedTyped DEF Statuses
<1>3. /\ req' = [req EXCEPT ![a].pc = "synced", ![a].answer = outcome]
      /\ SetStatus(req[a].conn, outcome) \/ UNCHANGED connections
      /\ UNCHANGED <<lists, servers, transactions, asVars, regVars>>
  BY DEF Contact
<1> HIDE DEF outcome
<1>4. Kept
  BY <1>1, <1>2, <1>3, StatusWritten, SameTables
<1> QED BY <1>1, <1>2, <1>3, <1>4, AnsweredTyped DEF Syncing

LEMMA ContactFailsTyped ==
  ASSUME Typed, MixTyped', NEW a \in Actor, ContactFails(a)
  PROVE  Typed' /\ Grows
<1>1. Kept
  BY SameTables DEF ContactFails
<1>2. req[a].pc \in Syncing /\ "synced" \in Syncing /\ "DEGRADED" \in Statuses
  BY DEF ContactFails, At, Syncing, Statuses
<1> QED BY <1>1, <1>2, AnsweredTyped DEF ContactFails

LEMMA WriteStatusTyped ==
  ASSUME Typed, MixTyped', NEW a \in Actor, WriteStatus(a)
  PROVE  Typed' /\ Grows
<1>1. req[a].conn \in Conn /\ req[a].answer \in Statuses
  BY RequestIs DEF WriteStatus, At, Holds, Syncing
<1>2. Kept
  BY <1>1, StatusWritten DEF WriteStatus
<1> QED BY <1>2, EndTyped DEF WriteStatus

LEMMA WriteEnabledTyped ==
  ASSUME Typed, MixTyped', NEW a \in Actor, WriteEnabled(a)
  PROVE  Typed' /\ Grows
<1>1. PICK r \in Request : r = req[a] /\ Holds(r)
  BY RequestIs
<1>2. r.pc = "enable" /\ r.conn \in Conn /\ r.answer \in Statuses
  BY <1>1 DEF WriteEnabled, At, Holds, Syncing
<1>3. Kept
  BY <1>1, <1>2, StatusWritten DEF WriteEnabled
<1>4. Holds(r)'
  BY <1>1, <1>3, HoldsStays DEF Typed, Kept
<1>5. Goto(a, "sync") /\ "sync" \in Steps
  BY DEF WriteEnabled, Steps
<1> QED BY <1>1, <1>2, <1>3, <1>4, <1>5, GotoTyped DEF Holds, Preparing, Exchanging, Syncing

LEMMA DisableTyped ==
  ASSUME Typed, MixTyped', NEW c, Disable(c)
  PROVE  Typed' /\ Grows
<1>1. "DISABLED" \in Statuses
  BY DEF Statuses
<1>2. Kept
  BY <1>1, StatusWritten DEF Disable
<1> QED BY <1>2, NoRequest DEF Disable

\* A request that begins with the status it read.
LEMMA TakesTyped ==
  ASSUME Typed, MixTyped', NEW a \in Actor, NEW c, NEW p \in {"sync", "enable"},
         NEW s \in Statuses, Takes(a, c, p, s)
  PROVE  Typed' /\ Grows
<1>1. Kept /\ c \in Conn /\ c \in Nat
  BY SameTables DEF Takes, Conn, Typed, TablesTyped
<1>2. connections[c].url \in Url
  BY <1>1, RowsAre DEF Typed, ConnectionRow
<1>3. Idle \in Request
  BY IdleTyped
<1>4. PICK y : y = [Idle EXCEPT !.pc = p, !.url = connections[c].url]
  OBVIOUS
<1>5. y \in Request /\ y.pc = p /\ y.url = connections[c].url
  BY <1>2, <1>3, <1>4 DEF Request, Steps
<1>6. PICK x : x = [y EXCEPT !.conn = c, !.answer = s]
  OBVIOUS
<1>7. /\ x \in Request /\ x.pc = p /\ x.url = connections[c].url /\ x.conn = c
      /\ x.answer = s
  BY <1>1, <1>5, <1>6 DEF Request
<1>8. req' = [req EXCEPT ![a] = x]
  BY <1>4, <1>6 DEF Takes
<1>9. Holds(x)
  BY <1>1, <1>2, <1>7 DEF Holds, Preparing, Exchanging, Syncing
<1>10. Holds(x)'
  BY <1>1, <1>7, <1>9, HoldsStays DEF Typed, Kept
<1> QED BY <1>1, <1>7, <1>8, <1>10, OneRequest

LEMMA RefreshTyped ==
  ASSUME Typed, MixTyped', NEW a \in Actor, NEW c, Refresh(a, c)
  PROVE  Typed' /\ Grows
<1>1. c \in Conn
  BY DEF Refresh
<1>2. connections[c].status \in Statuses
  BY <1>1, RowsAre DEF Typed, ConnectionRow
<1> QED BY <1>2, TakesTyped DEF Refresh

LEMMA EnableTyped ==
  ASSUME Typed, MixTyped', NEW a \in Actor, NEW c, Enable(a, c)
  PROVE  Typed' /\ Grows
<1>1. Held(connections[c].grant) \in Statuses
  BY HeldTyped DEF Statuses
<1> QED BY <1>1, TakesTyped DEF Enable

\* Every step of a request.
LEMMA RequestStepTyped ==
  ASSUME Typed, MixTyped', NEW a \in Actor, RequestStep(a)
  PROVE  Typed' /\ Grows
BY FindServerTyped, InsertServerTyped, ChooseAliasTyped, InsertConnectionTyped, DiscoverTyped,
   ClearGrantTyped, SelectServerTyped, ChooseStrategyTyped, FindClientTyped, RetireClientTyped,
   AdoptClientTyped, NeedCredentialsTyped, BindClientTyped, OpenTransactionTyped,
   PresentCodeTyped, StoreGrantTyped, RefuseClientTyped, ReplaceClientTyped, RebindTyped,
   ActivateTyped, ContactTyped, WriteStatusTyped, WriteEnabledTyped DEF RequestStep

\* uap-migrate imports URLs, under names that files give them.
LEMMA ImportItemsTyped == CliTyped => ImportItems \in Seq(Item)
<1> SUFFICES ASSUME CliTyped PROVE ImportItems \in Seq(Item)
  OBVIOUS
<1>1. \A f \in File : Remote(f) \subseteq Name
  BY EntriesOfContent DEF Remote
<1>2. ASSUME NEW f \in File, NEW n \in Remote(f)
      PROVE  Canonical[files[f][n]] \in Url
  <2>1. n \in Entries(f) /\ Readable(f)
    BY <1>2 DEF Remote, Entries
  <2>2. files[f][n] \in Spelling
    BY <2>1, EntriesOfContent
  <2> QED BY <1>2, <2>2, MigrationAssumption DEF Remote
<1>3. DiscoveredUrls \subseteq Url
  BY <1>2 DEF DiscoveredUrls
<1>4. IsFiniteSet(DiscoveredUrls)
  BY <1>3, OnboardingAssumption, FS_Subset
<1> DEFINE urls == SetToSeq(DiscoveredUrls)
<1>5. urls \in Seq(DiscoveredUrls)
  BY <1>4, OrderOfSet
<1>6. ASSUME NEW u \in DiscoveredUrls
      PROVE  (CHOOSE n \in NamesFor(u) : TRUE) \in Name
  <2>1. NamesFor(u) # {}
    BY DEF DiscoveredUrls, NamesFor
  <2>2. NamesFor(u) \subseteq Name
    BY <1>1 DEF NamesFor
  <2> QED BY <2>1, <2>2
<1> HIDE DEF urls
<1>7. /\ Len(urls) \in Nat /\ DOMAIN urls = 1..Len(urls)
      /\ \A k \in DOMAIN urls : urls[k] \in DiscoveredUrls
  BY <1>5
<1>8. \A k \in DOMAIN urls :
        [url |-> urls[k], name |-> CHOOSE n \in NamesFor(urls[k]) : TRUE] \in Item
  BY <1>3, <1>6, <1>7 DEF Item
<1>9. ImportItems = [k \in DOMAIN urls |->
         [url |-> urls[k], name |-> CHOOSE n \in NamesFor(urls[k]) : TRUE]]
  BY DEF ImportItems, urls
<1>10. ImportItems \in [1..Len(urls) -> Item]
  BY <1>7, <1>8, <1>9
<1> QED BY <1>7, <1>10

\* The mix loses events and nothing else.
LEMMA MixStays ==
  ASSUME MixTyped, [Next]_vars
  PROVE  MixTyped'
<1>1. CASE UNCHANGED mix
  BY <1>1 DEF MixTyped
<1>2. CASE Event
  <2>1. PICK e \in mix.does : mix' = [mix EXCEPT !.does = @ \ {e}]
    BY <1>2 DEF Event
  <2>2. mix' = [lists |-> mix.lists, together |-> mix.together, wants |-> mix.wants,
                does |-> mix.does \ {e}, name |-> mix.name]
    BY <2>1 DEF MixTyped
  <2> QED BY <2>2 DEF MixTyped
<1> QED BY <1>1, <1>2 DEF Next, Progress, vars

\* What happens besides: the operator, the clock, the resources, the process.
LEMMA ConfigureTyped ==
  ASSUME Typed, MixTyped', NEW i \in Issuer, Configure(i), UNCHANGED <<onVars, asVars>>
  PROVE  Typed' /\ Grows
<1>1. Kept
  BY DEF Configure, Typed, Kept, ServersTyped, TablesTyped, Grows, onVars, asVars, Conn
<1> QED BY <1>1, NoRequest DEF onVars

LEMMA LapseTyped ==
  ASSUME Typed, MixTyped', NEW i \in Issuer, Lapse(i), UNCHANGED <<onVars, regVars>>
  PROVE  Typed' /\ Grows
<1>1. lapsed' \subseteq ClientOf
  BY DEF Lapse, Typed, ServersTyped
<1>2. Kept
  BY <1>1 DEF Lapse, Typed, Kept, ServersTyped, TablesTyped, Grows, onVars, regVars, Conn
<1> QED BY <1>2, NoRequest DEF onVars

LEMMA MoveTyped ==
  ASSUME Typed, MixTyped', NEW u \in Url, NEW named \in Seq(Issuer) \ {<<>>}, Move(u, named)
  PROVE  Typed' /\ Grows
<1>1. lists' \in Lists
  BY DEF Move, Typed, TablesTyped, Lists
<1>2. Kept
  BY <1>1 DEF Move, Typed, Kept, ServersTyped, TablesTyped, Grows, asVars, regVars, Conn
<1> QED BY <1>2, NoRequest DEF Move

LEMMA ExpireTyped ==
  ASSUME Typed, MixTyped', NEW t, Expire(t)
  PROVE  Typed' /\ Grows
<1>1. Kept
  BY DEF Expire, Typed, Kept, ServersTyped, TablesTyped, Grows, asVars, regVars, Conn
<1> QED BY <1>1, NoRequest DEF Expire

LEMMA RestartTyped ==
  ASSUME Typed, MixTyped', NEW address \in Nat, Restart(address)
  PROVE  Typed' /\ Grows
<1>1. Kept
  BY DEF Restart, Typed, Kept, ServersTyped, TablesTyped, Grows, regVars, Conn
<1>2. req' \in [Actor -> Request] /\ \A a \in Actor : req'[a] = Idle
  BY IdleTyped DEF Restart
<1>3. \A a \in Actor : Holds(req[a])'
  BY <1>2, IdleTyped DEF Holds
<1> QED BY <1>1, <1>2, <1>3 DEF Typed, Kept, RequestsTyped

LEMMA MishapTyped ==
  ASSUME Typed, MixTyped', NEW a \in Actor, Mishap(a)
  PROVE  Typed' /\ Grows
<1>1. Kept
  BY SameTables DEF Mishap
<1> QED BY <1>1, EndTyped DEF Mishap

\* The user.
LEMMA AsksTyped ==
  ASSUME Typed, MixTyped', NEW a \in Actor, NEW u \in Url,
         Import(a, <<[url |-> u, name |-> mix.name]>>)
  PROVE  Typed' /\ Grows
<1>1. PICK item : item = [url |-> u, name |-> mix.name]
  OBVIOUS
<1>2. item \in Item /\ <<item>> \in Seq(Item)
  BY <1>1 DEF Item, Typed, MixTyped
<1>3. Import(a, <<item>>)
  BY <1>1
<1> QED BY <1>2, <1>3, ImportTyped

LEMMA UserStepTyped ==
  ASSUME Typed, MixTyped', UserStep
  PROVE  Typed' /\ Grows
<1>1. CASE \E a \in Actor : Free(a) /\ Asks(a)
  BY <1>1, AsksTyped DEF Asks, Typed, MixTyped
<1>2. CASE \E a \in Actor, c \in Conn : Free(a) /\ Authorizable(c) /\ StartAuthorization(a, c)
  BY <1>2, StartAuthorizationTyped
<1>3. CASE \E a \in Actor, t \in transactions : Free(a) /\ Callback(a, t)
  BY <1>3, CallbackTyped
<1>4. CASE \E t \in transactions : ~Approvable(t) /\ Expire(t)
  BY <1>4, ExpireTyped
<1> QED BY <1>1, <1>2, <1>3, <1>4 DEF UserStep

LEMMA HappensTyped ==
  ASSUME Typed, MixTyped', NEW e \in mix.does, Happens(e)
  PROVE  Typed' /\ Grows
<1>1. /\ e[1] = "move" => e[2] \in Url /\ e[3] \in Seq(Issuer) \ {<<>>}
      /\ e[1] = "create" => e[2] \in Url
      /\ e[1] = "restart" => e[2] \in Nat
      /\ e[1] \in {"lapse", "configure"} => e[2] \in Issuer
  BY DEF Typed, MixTyped
<1>2. CASE e[1] = "start"
  BY <1>2, StartAuthorizationTyped DEF Happens
<1>3. CASE e[1] = "create"
  BY <1>1, <1>3, AsksTyped DEF Happens
<1>4. CASE e[1] = "move"
  BY <1>1, <1>4, MoveTyped DEF Happens
<1>5. CASE e[1] = "restart"
  BY <1>1, <1>5, RestartTyped DEF Happens
<1>6. CASE e[1] = "lapse"
  BY <1>1, <1>6, LapseTyped DEF Happens
<1>7. CASE e[1] = "configure"
  BY <1>1, <1>7, ConfigureTyped DEF Happens
<1>8. CASE e[1] = "mishap"
  BY <1>8, MishapTyped, ContactFailsTyped DEF Happens
<1>9. CASE e[1] = "expire"
  BY <1>9, ExpireTyped DEF Happens
<1>10. CASE e[1] \in {"refresh", "disable", "enable"}
  BY <1>10, RefreshTyped, DisableTyped, EnableTyped DEF Happens
<1> QED BY <1>2, <1>3, <1>4, <1>5, <1>6, <1>7, <1>8, <1>9, <1>10 DEF Happens

\* Every step keeps the types.
LEMMA NextTyped ==
  ASSUME CliTyped, Typed, [Next]_vars
  PROVE  Typed' /\ Grows
<1>1. MixTyped'
  BY MixStays DEF Typed
<1>2. CASE UNCHANGED <<onVars, asVars, regVars>>
  <2>1. Kept /\ UNCHANGED req
    BY <1>1, <1>2, SameTables DEF onVars
  <2> QED BY <2>1, NoRequest
<1>3. CASE UNCHANGED vars
  BY <1>2, <1>3 DEF vars, onVars, asVars, regVars
<1>4. CASE Progress
  <2>1. \/ UserStep \/ (\E a \in Actor : RequestStep(a))
        \/ UNCHANGED <<onVars, asVars, regVars>>
        \/ \E i \in Issuer : Configure(i) /\ UNCHANGED <<onVars, asVars>>
    BY <1>4 DEF Progress
  <2> QED BY <1>1, <1>2, <2>1, UserStepTyped, RequestStepTyped, ConfigureTyped
<1>5. CASE Event
  <2>1. PICK e \in mix.does :
          \/ Happens(e)
          \/ UNCHANGED <<onVars, asVars, regVars>>
          \/ \E a \in Actor : Import(a, ImportItems)
    BY <1>5 DEF Event, ImportCommand
  <2> QED BY <1>1, <1>2, <2>1, HappensTyped, ImportItemsTyped, ImportTyped
<1> QED BY <1>3, <1>4, <1>5 DEF Next

\* They hold at first, and always.
LEMMA InitTyped == Init => Typed
<1> SUFFICES ASSUME Init PROVE Typed
  OBVIOUS
<1> USE DEF Init
<1>1. MixTyped
  BY MixesAssumption DEF MixTyped
<1>2. ServersTyped
  BY DEF ServersTyped, ServerInit, RegistrationsInit
<1>3. TablesTyped
  <2>1. lists \in Lists
    BY MixesAssumption DEF Lists
  <2>2. registrations \in Seq(Row) /\ connections \in Seq(ConnectionRow)
    BY DEF RegistrationsInit, OnboardingInit
  <2>3. Conn = {}
    BY DEF OnboardingInit, Conn
  <2> QED BY <2>1, <2>2, <2>3 DEF TablesTyped, OnboardingInit
<1>4. req \in [Actor -> Request] /\ \A a \in Actor : req[a] = Idle
  BY IdleTyped DEF OnboardingInit
<1>5. \A a \in Actor : Holds(req[a])
  BY <1>4 DEF Idle, Holds, Preparing, Exchanging, Syncing
<1> QED BY <1>1, <1>2, <1>3, <1>4, <1>5 DEF Typed, RequestsTyped

\* What is remembered is of URLs and connections there are.
HistoryTyped ==
  /\ served \subseteq Url /\ tried \subseteq Url /\ moved \subseteq Url
  /\ shared \subseteq Conn /\ crossed \subseteq Conn

LEMMA HistoryStays ==
  ASSUME HistoryTyped, Typed', Grows, Remember \/ UNCHANGED vars
  PROVE  HistoryTyped'
<1>1. CASE UNCHANGED vars
  BY <1>1 DEF HistoryTyped, vars, Conn
<1>2. CASE Remember
  <2>1. served' \subseteq Url
    <3>1. connections' \in Seq(ConnectionRow)
      BY DEF Typed, TablesTyped
    <3>2. \A c \in Conn' : connections'[c] \in ConnectionRow
      BY <3>1 DEF Conn
    <3>3. \A c \in Conn' : connections'[c].url \in Url
      BY <3>2 DEF ConnectionRow
    <3> QED BY <1>2, <3>3 DEF Remember, HistoryTyped
  <2>2. tried' \subseteq Url
    <3>1. \A a \in Actor : At(a, "sync")' => req'[a].url \in Url
      BY DEF Typed, RequestsTyped, Holds, At
    <3> QED BY <1>2, <3>1 DEF Remember, HistoryTyped
  <2>3. Conn \subseteq Conn'
    BY DEF Grows, Conn
  <2> QED BY <1>2, <2>1, <2>2, <2>3 DEF Remember, HistoryTyped
<1> QED BY <1>1, <1>2

LEMMA Remembered ==
  ASSUME [Next]_vars
  PROVE  Remember \/ UNCHANGED vars
BY DEF Next, Progress, Event

LEMMA AlwaysTyped == Spec => [](CliInv /\ Typed /\ HistoryTyped)
<1>1. Typed /\ HistoryTyped /\ CliInv /\ [Next]_vars => Typed' /\ HistoryTyped'
  BY NextTyped, Remembered, HistoryStays DEF CliInv
<1>2. Init => HistoryTyped
  BY DEF Init, HistoryTyped
<1> QED BY InitTyped, AlwaysCli, <1>1, <1>2, PTL DEF Spec

\* Every variable of the gateway and of the command line has its type; rows
\* refer to rows that exist, in the tables and in what a request holds.
THEOREM TablesAreTyped == Spec => []TypeOK
<1>1. CliInv /\ Typed /\ HistoryTyped => TypeOK
  <2> SUFFICES ASSUME CliInv, Typed, HistoryTyped PROVE TypeOK
    OBVIOUS
  <2>1. servers \in [Url -> Issuer \cup {None, NoServer}]
    BY DEF Typed, TablesTyped
  <2>2. ASSUME NEW c \in Conn
        PROVE  /\ connections[c] \in
                   [url : Url, alias : Name, issuer : Issuer \cup {None},
                    reg : DOMAIN registrations \cup {None}, grant : Issuer \cup {None},
                    version : Nat, status : Statuses]
               /\ servers[connections[c].url] # NoServer
    <3>1. /\ connections[c] \in ConnectionRow
          /\ connections[c].reg \in DOMAIN registrations \cup {None}
      BY RowsAre DEF Typed
    <3>2. servers[connections[c].url] # NoServer
      BY DEF Typed, TablesTyped
    <3> QED BY <3>1, <3>2 DEF ConnectionRow
  <2>3. \A k \in DOMAIN registrations : registrations[k] \in Row
    BY DEF Typed, TablesTyped
  <2>4. \A t \in transactions :
          t \in [conn : Conn, nth : 1..MaxTxn, issuer : Issuer, home : Nat, client : ClientOf]
    BY DEF Typed, TablesTyped, Txn
  <2>5. ASSUME NEW a \in Actor
        PROVE  /\ req[a].pc \in Steps
               /\ req[a].conn \in Conn \cup {0}
               /\ req[a].seen \in Snapshots \cup {None}
               /\ req[a].pc \in {"refuse", "store"} => req[a].seen.reg \in DOMAIN registrations
    <3>1. req[a] \in Request /\ Holds(req[a])
      BY RequestIs
    <3> QED BY <3>1 DEF Request, Holds, Exchanging
  <2>6. OnboardingTypeOK
    BY <2>1, <2>2, <2>3, <2>4, <2>5 DEF OnboardingTypeOK
  <2>7. CliTyped
    BY DEF CliInv
  <2>8. \A f \in File : Readable(f) => files[f] \in [Entries(f) -> Spelling]
    BY <2>7, EntriesOfContent
  <2>9. \A b \in Range(backups) : \A e \in Range(b) : e[1] \in File
    <3>1. backups \in Seq(Seq(Copied))
      BY <2>7 DEF CliTyped
    <3>2. \A b \in Range(backups) : b \in Seq(Copied)
      BY <3>1 DEF Range
    <3>3. \A b \in Range(backups) : \A e \in Range(b) : e \in Copied
      BY <3>2 DEF Range
    <3> QED BY <3>3 DEF Copied
  <2>10. MigrationTypeOK
    BY <2>7, <2>8, <2>9 DEF MigrationTypeOK, CliTyped, CommandStates
  <2> QED BY <2>6, <2>10 DEF TypeOK, HistoryTyped
<1> QED BY AlwaysTyped, <1>1, PTL

(***************************************************************************)
(* What a step does to a request, to the row of a connection and to that   *)
(* of a server, before and after: the parts that follow rest on this.      *)
(***************************************************************************)

Others(a) == \A b \in Actor : b # a => req'[b] = req[b]
SameHand(r, x) ==
  x.url = r.url /\ x.conn = r.conn /\ x.seen = r.seen /\ x.found = r.found

Lookup == {"probe", "alias", "insert"}
\* From the server chosen to the connection that names it.
Late == {"select", "choose", "client", "retire", "adopt", "needed", "bind"}

\* How a request r becomes x: it ends, it asks for a catalogue, ...
Ends(x) == x.pc \in {"idle", "find"}
Syncs(r, x) == x.pc \in Syncing /\ (x.pc = "synced" => r.pc = "sync" /\ x.url = r.url)

\* ... it looks for a server row and adds a connection, ...
Looks(r, x) ==
  /\ x.pc \in Lookup /\ x.url = r.url
  /\ \/ r.pc = "find" /\ x.found = servers[r.url]
     \/ r.pc \in Lookup /\ x.found = r.found
Adds(r, x) ==
  /\ r.pc = "insert" /\ x.pc = "discover" /\ x.url = r.url /\ x.conn \in Conn' \ Conn
  /\ x.seen = [issuer |-> None, reg |-> None, version |-> 1,
               selected |-> IF r.found = NoServer THEN None ELSE r.found]

\* ... or it authorizes one.
Begins(x) ==
  /\ x.pc \in {"discover", "present"} /\ x.conn \in Conn
  /\ x.url = connections[x.conn].url /\ x.seen = Snapshot(x.conn)
  /\ UNCHANGED connections
Finds(r, x) ==
  /\ SameHand(r, x) /\ r.pc = "discover"
  /\ x.issuer = IF r.seen.selected \in Range(lists[r.url]) THEN r.seen.selected
                ELSE lists[r.url][1]
  /\ x.pc = IF r.seen.issuer \in {None, x.issuer} THEN "select" ELSE "clear"
Prepares(r, x) ==
  /\ SameHand(r, x) /\ x.issuer = r.issuer
  /\ \/ r.pc = "clear" /\ x.pc = "select"
     \/ r.pc \in Late \ {"needed", "bind"} /\ x.pc \in Late
     \/ r.pc = "bind" /\ x.pc = "transaction"
Exchanges(r, x) ==
  /\ SameHand(r, x) /\ r.pc \in {"present", "refuse", "replace"}
  /\ x.pc \in {"store", "refuse", "replace", "rebind"}
HandStep(r, x) ==
  \/ x = r \/ Ends(x) \/ Syncs(r, x) \/ Looks(r, x) \/ Adds(r, x)
  \/ Begins(x) \/ Finds(r, x) \/ Prepares(r, x) \/ Exchanges(r, x)

\* How the row x of a connection becomes y: as it was but for the status, or as
\* its request r wrote it on the way to p.
SameRow(x, y) ==
  /\ y.url = x.url /\ y.alias = x.alias /\ y.issuer = x.issuer /\ y.reg = x.reg
  /\ y.grant = x.grant /\ y.version = x.version
Written(r, p, x, y) ==
  /\ y.url = x.url /\ y.alias = x.alias
  /\ \/ /\ r.pc = "clear" /\ p = "select"
        /\ y.issuer = x.issuer /\ y.reg = None /\ y.grant = None
        /\ y.version = r.seen.version + 1
     \/ /\ r.pc = "needed" /\ p \in {"idle", "find"}
        /\ y.issuer = r.issuer /\ y.reg = x.reg /\ y.grant = x.grant /\ y.version = x.version
     \/ /\ r.pc = "bind" /\ p = "transaction"
        /\ y.issuer = r.issuer /\ y.reg = r.reg /\ y.grant = x.grant /\ y.version = x.version
     \/ /\ r.pc = "store" /\ p = "activate" /\ x.version = r.seen.version
        /\ y.issuer = x.issuer /\ y.reg = x.reg /\ y.grant = r.seen.issuer
        /\ y.version = x.version + 1
     \/ /\ r.pc = "rebind" /\ p \in {"idle", "find"}
        /\ y.issuer = x.issuer /\ y.reg = r.reg /\ y.grant = x.grant /\ y.version = x.version
\* A connection begins to serve with a grant, or when its catalogue was asked for.
StatusStep(c) ==
  \/ connections'[c].status = connections[c].status
  \/ connections'[c].status \notin SERVING
  \/ connections'[c].grant # None
  \/ \E a \in Actor : req[a].conn = c /\ req[a].pc = "synced"
  \/ \E a \in Actor : req'[a].conn = c /\ req'[a].pc = "sync"
RowStep(c) ==
  /\ \/ SameRow(connections[c], connections'[c])
     \/ \E a \in Actor : /\ req[a].conn = c
                         /\ Written(req[a], req'[a].pc, connections[c], connections'[c])
  /\ StatusStep(c)
NewRow(y) ==
  /\ y.issuer = None /\ y.reg = None /\ y.grant = None /\ y.version = 1
  /\ y.status \in SERVING => y.url \notin Protected
Cleared(a) ==
  req[a].pc = "clear" /\ req'[a].pc = "select" =>
    connections'[req[a].conn].reg = None /\ connections'[req[a].conn].grant = None

ServerStep(u) ==
  \/ servers'[u] \in {servers[u], None}
  \/ \E a \in Actor : /\ req[a].pc = "select" /\ req[a].url = u
                      /\ servers'[u] = req[a].issuer

Moves ==
  /\ \A a \in Actor : HandStep(req[a], req'[a]) /\ Cleared(a)
  /\ \A c \in Conn : RowStep(c)
  /\ \A c \in Conn' \ Conn : NewRow(connections'[c])
  /\ \A u \in Url : ServerStep(u)

\* A step that leaves the rows of connections.
LEMMA HandMoves ==
  ASSUME NEW a \in Actor, Others(a), HandStep(req[a], req'[a]), Cleared(a),
         \A u \in Url : ServerStep(u), UNCHANGED connections
  PROVE  Moves
<1>1. \A b \in Actor : HandStep(req[b], req'[b]) /\ Cleared(b)
  BY DEF Others, HandStep, Cleared
<1>2. \A c \in Conn : RowStep(c)
  BY DEF RowStep, SameRow, StatusStep
<1>3. Conn' = Conn
  BY DEF Conn
<1> QED BY <1>1, <1>2, <1>3 DEF Moves

\* A step that writes one.
LEMMA RowMoves ==
  ASSUME Typed, NEW a \in Actor, Others(a), HandStep(req[a], req'[a]), Cleared(a),
         NEW c \in Conn, NEW y, connections' = [connections EXCEPT ![c] = y], UNCHANGED servers,
         connections'[c] = y => RowStep(c)
  PROVE  Moves
<1>1. connections \in Seq(ConnectionRow)
  BY DEF Typed, TablesTyped
<1>2. /\ Conn' = Conn /\ connections'[c] = y
      /\ \A d \in Conn : d # c => connections'[d] = connections[d]
  BY <1>1 DEF Conn
<1>3. \A b \in Actor : HandStep(req[b], req'[b]) /\ Cleared(b)
  BY DEF Others, HandStep, Cleared
<1>4. \A d \in Conn : RowStep(d)
  BY <1>2 DEF RowStep, SameRow, StatusStep
<1>5. \A u \in Url : ServerStep(u)
  BY DEF ServerStep
<1> QED BY <1>2, <1>3, <1>4, <1>5 DEF Moves

\* What a step of a request leaves of the others and of its own hand.
LEMMA GotoMoves ==
  ASSUME Typed, NEW a \in Actor, NEW p, Goto(a, p)
  PROVE  /\ Others(a) /\ req'[a].pc = p /\ SameHand(req[a], req'[a])
         /\ req'[a].issuer = req[a].issuer
<1>1. req[a] \in Request /\ req \in [Actor -> Request]
  BY DEF Typed
<1>2. PICK r \in Request : r = req[a]
  BY <1>1
<1>3. req'[a] = [r EXCEPT !.pc = p] /\ Others(a)
  BY <1>1, <1>2 DEF Goto, Others
<1> QED BY <1>2, <1>3 DEF Request, SameHand

LEMMA EndMoves ==
  ASSUME Typed, NEW a \in Actor, End(a)
  PROVE  Others(a) /\ req'[a].pc \in {"idle", "find"}
<1>1. req \in [Actor -> Request]
  BY DEF Typed
<1>2. Others(a)
  BY <1>1 DEF End, Others
<1>3. CASE req[a].queue = <<>>
  <2>1. req'[a] = Idle
    BY <1>1, <1>3 DEF End
  <2> QED BY <1>2, <2>1 DEF Idle
<1>4. CASE req[a].queue # <<>>
  <2> DEFINE item == Head(req[a].queue)
             x == [Idle EXCEPT !.pc = "find", !.url = item.url, !.name = item.name,
                               !.queue = Tail(req[a].queue)]
  <2>1. req'[a] = x
    BY <1>1, <1>4 DEF End
  <2>2. x = Fresh("find", item.url, Tail(req[a].queue), item.name, 0, None, None)
    BY Queued
  <2> HIDE DEF x
  <2> QED BY <1>2, <2>1, <2>2 DEF Fresh
<1> QED BY <1>3, <1>4

\* Where a step leads a request, and one thing it gives it there.
LEMMA GivenMoves ==
  ASSUME Typed, NEW a \in Actor, NEW p, NEW v,
         \/ req' = [req EXCEPT ![a].pc = p, ![a].name = v]
         \/ req' = [req EXCEPT ![a].pc = p, ![a].reg = v]
         \/ req' = [req EXCEPT ![a].reg = v, ![a].pc = p]
         \/ req' = [req EXCEPT ![a].pc = p, ![a].type = v]
         \/ req' = [req EXCEPT ![a].pc = p, ![a].answer = v]
  PROVE  /\ Others(a) /\ req'[a].pc = p /\ SameHand(req[a], req'[a])
         /\ req'[a].issuer = req[a].issuer
<1>1. req \in [Actor -> Request]
  BY DEF Typed
<1>2. PICK r \in Request : r = req[a]
  BY <1>1
<1>3. Others(a)
  BY <1>1 DEF Others
<1>4. \/ req'[a] = [r EXCEPT !.pc = p, !.name = v]
      \/ req'[a] = [r EXCEPT !.pc = p, !.reg = v]
      \/ req'[a] = [r EXCEPT !.reg = v, !.pc = p]
      \/ req'[a] = [r EXCEPT !.pc = p, !.type = v]
      \/ req'[a] = [r EXCEPT !.pc = p, !.answer = v]
  BY <1>1, <1>2
<1>5. req'[a].pc = p /\ SameHand(r, req'[a]) /\ req'[a].issuer = r.issuer
  BY <1>2, <1>4 DEF Request, SameHand
<1> QED BY <1>2, <1>3, <1>5

\* A step that changes no table that is looked at here.
LEMMA HandOnly ==
  ASSUME NEW a \in Actor, Others(a), HandStep(req[a], req'[a]), Cleared(a),
         UNCHANGED <<servers, connections>>
  PROVE  Moves
<1>1. \A u \in Url : ServerStep(u)
  BY DEF ServerStep
<1> QED BY <1>1, HandMoves

LEMMA EndOnly ==
  ASSUME Typed, NEW a \in Actor, End(a), UNCHANGED <<servers, connections>>
  PROVE  Moves
<1>1. Others(a) /\ req'[a].pc \in {"idle", "find"}
  BY EndMoves
<1>2. HandStep(req[a], req'[a]) /\ Cleared(a)
  BY <1>1 DEF HandStep, Ends, Cleared
<1> QED BY <1>1, <1>2, HandOnly

\* One lemma for each step of a request: it looks for a row and adds a connection, ...
LEMMA FindServerMoves ==
  ASSUME Typed, NEW a \in Actor, FindServer(a)
  PROVE  Moves
<1>1. PICK r \in Request : r = req[a]
  BY RequestIs
<1>2. CASE End(a)
  BY <1>2, EndOnly DEF FindServer
<1>3. CASE ~End(a)
  <2>1. PICK x : x = [r EXCEPT !.pc = "probe", !.found = servers[r.url]]
    OBVIOUS
  <2>2. req' = [req EXCEPT ![a].pc = "probe", ![a].found = servers[req[a].url]]
    BY <1>3 DEF FindServer
  <2>3. req' = [req EXCEPT ![a] = x]
    BY <1>1, <2>1, <2>2
  <2>4. Others(a) /\ req'[a] = x
    BY <2>3 DEF Others, Typed
  <2>5. x.pc = "probe" /\ x.found = servers[r.url] /\ x.url = r.url
    BY <2>1 DEF Request
  <2>6. r.pc = "find"
    BY <1>1 DEF FindServer, At
  <2>7. HandStep(req[a], req'[a]) /\ Cleared(a)
    BY <1>1, <2>4, <2>5, <2>6 DEF HandStep, Looks, Lookup, Cleared
  <2> QED BY <2>4, <2>7, HandOnly DEF FindServer
<1> QED BY <1>2, <1>3

LEMMA InsertServerMoves ==
  ASSUME Typed, NEW a \in Actor, InsertServer(a)
  PROVE  Moves
<1>1. CASE End(a) /\ UNCHANGED servers
  BY <1>1, EndOnly DEF InsertServer
<1>2. CASE ~(End(a) /\ UNCHANGED servers)
  <2> DEFINE u == req[a].url
  <2>1. /\ servers' = [servers EXCEPT ![u] = IF @ = NoServer THEN None ELSE @]
        /\ Goto(a, "alias")
    BY <1>2 DEF InsertServer
  <2>2. /\ Others(a) /\ req'[a].pc = "alias" /\ SameHand(req[a], req'[a])
    BY <2>1, GotoMoves
  <2>3. \A v \in Url : ServerStep(v)
    BY <2>1 DEF ServerStep, Typed, TablesTyped
  <2>4. HandStep(req[a], req'[a]) /\ Cleared(a)
    BY <2>2 DEF InsertServer, At, HandStep, Looks, Lookup, SameHand, Cleared
  <2> QED BY <2>2, <2>3, <2>4, HandMoves DEF InsertServer
<1> QED BY <1>1, <1>2

LEMMA ChooseAliasMoves ==
  ASSUME Typed, NEW a \in Actor, ChooseAlias(a)
  PROVE  Moves
<1>1. PICK name : req' = [req EXCEPT ![a].pc = "insert", ![a].name = name]
  <2>1. PICK r \in Request : r = req[a]
    BY RequestIs
  <2> DEFINE taken == {connections[c].alias : c \in Conn}
             free == {k \in DOMAIN Alias : Alias[k] \notin taken}
             asked == r.name # None /\ r.name \notin taken
             name == IF asked THEN r.name ELSE Alias[Min(free)]
  <2>2. req' = [req EXCEPT ![a].pc = "insert", ![a].name = name]
    BY <2>1 DEF ChooseAlias
  <2> HIDE DEF name
  <2> QED BY <2>2
<1>2. Others(a) /\ req'[a].pc = "insert" /\ SameHand(req[a], req'[a])
  BY <1>1, GivenMoves
<1>3. HandStep(req[a], req'[a]) /\ Cleared(a)
  BY <1>2 DEF ChooseAlias, At, HandStep, Looks, Lookup, SameHand, Cleared
<1> QED BY <1>2, <1>3, HandOnly DEF ChooseAlias

LEMMA InsertConnectionMoves ==
  ASSUME Typed, NEW a \in Actor, InsertConnection(a)
  PROVE  Moves
<1>1. PICK r \in Request : r = req[a] /\ Holds(r)
  BY RequestIs
<1>2. r.pc = "insert" /\ UNCHANGED servers
  BY <1>1 DEF InsertConnection, At
<1> DEFINE c == Len(connections) + 1
<1>3. CASE End(a) /\ UNCHANGED connections
  BY <1>2, <1>3, EndOnly
<1>4. CASE ~(End(a) /\ UNCHANGED connections)
  <2>1. PICK row : row = [url |-> r.url, alias |-> r.name, issuer |-> None, reg |-> None,
                          grant |-> None, version |-> 1,
                          status |-> IF r.url \in Protected THEN "AUTHORIZATION_REQUIRED"
                                     ELSE "CONNECTED"]
    OBVIOUS
  <2>2. NewRow(row)
    BY <2>1 DEF NewRow, SERVING
  <2>3. connections' = Append(connections, row)
    BY <1>1, <1>4, <2>1 DEF InsertConnection
  <2>4. /\ c \in Nat /\ Conn' = Conn \cup {c} /\ c \notin Conn /\ connections'[c] = row
        /\ \A d \in Conn : connections'[d] = connections[d]
    <3>1. connections \in Seq(ConnectionRow)
      BY DEF Typed, TablesTyped
    <3>2. c \in Nat /\ DOMAIN connections = 1..(c - 1) /\ DOMAIN connections' = 1..c
      BY <2>3, <3>1
    <3> QED BY <2>3, <3>1, <3>2 DEF Conn
  <2> HIDE DEF c
  <2>5. ASSUME r.url \notin Protected
        PROVE  Others(a) /\ HandStep(req[a], req'[a]) /\ Cleared(a)
    <3>1. req' = [req EXCEPT ![a].pc = "sync", ![a].conn = c, ![a].answer = "CONNECTED"]
      BY <1>1, <1>4, <2>5 DEF InsertConnection, c
    <3>2. PICK y : y = [r EXCEPT !.pc = "sync", !.conn = c]
      OBVIOUS
    <3>3. PICK x : x = [y EXCEPT !.answer = "CONNECTED"]
      OBVIOUS
    <3>4. req' = [req EXCEPT ![a] = x]
      BY <1>1, <3>1, <3>2, <3>3
    <3>5. y \in Request /\ y.pc = "sync"
      BY <2>4, <3>2 DEF Request, Steps
    <3>6. x.pc = "sync"
      BY <3>3, <3>5 DEF Request
    <3>7. Others(a) /\ req'[a].pc = "sync"
      BY <3>4, <3>6 DEF Others, Typed
    <3> QED BY <3>7 DEF HandStep, Syncs, Syncing, Cleared
  <2>6. ASSUME r.url \in Protected
        PROVE  Others(a) /\ HandStep(req[a], req'[a]) /\ Cleared(a)
    <3>1. PICK s : s = [issuer |-> None, reg |-> None, version |-> 1,
                        selected |-> IF r.found = NoServer THEN None ELSE r.found]
      OBVIOUS
    <3>2. s \in Snapshots
      BY <1>1, <3>1 DEF Snapshots, Request
    <3>3. req' = [req EXCEPT ![a].pc = "discover", ![a].conn = c, ![a].seen = s]
      BY <1>1, <1>4, <2>6, <3>1 DEF InsertConnection, c
    <3>5. PICK y : y = [r EXCEPT !.pc = "discover", !.conn = c]
      OBVIOUS
    <3>6. PICK x : x = [y EXCEPT !.seen = s]
      OBVIOUS
    <3>7. req' = [req EXCEPT ![a] = x]
      BY <1>1, <3>3, <3>5, <3>6
    <3>8. y \in Request /\ y.pc = "discover" /\ y.url = r.url /\ y.conn = c
      BY <2>4, <3>5 DEF Request, Steps
    <3>9. x.pc = "discover" /\ x.url = r.url /\ x.conn = c /\ x.seen = s
      BY <3>2, <3>6, <3>8 DEF Request
    <3>10. Others(a) /\ req'[a] = x
      BY <3>7 DEF Others, Typed
    <3>11. Adds(r, x)
      BY <1>2, <2>4, <3>1, <3>9 DEF Adds
    <3> QED BY <1>1, <3>9, <3>10, <3>11 DEF HandStep, Cleared
  <2>7. Others(a) /\ HandStep(req[a], req'[a]) /\ Cleared(a)
    BY <2>5, <2>6
  <2>8. \A b \in Actor : HandStep(req[b], req'[b]) /\ Cleared(b)
    BY <2>7 DEF Others, HandStep, Cleared
  <2>9. \A d \in Conn : RowStep(d)
    BY <2>4 DEF RowStep, SameRow, StatusStep
  <2>10. \A u \in Url : ServerStep(u)
    BY <1>2 DEF ServerStep
  <2> QED BY <2>2, <2>4, <2>8, <2>9, <2>10 DEF Moves
<1> QED BY <1>3, <1>4

\* ... prepares an authorization, ...
LEMMA DiscoverMoves ==
  ASSUME Typed, NEW a \in Actor, Discover(a)
  PROVE  Moves
<1>1. PICK r \in Request : r = req[a] /\ Holds(r)
  BY RequestIs
<1>2. r.pc = "discover"
  BY <1>1 DEF Discover, At
<1> DEFINE named == lists[r.url]
           i == IF r.seen.selected \in Range(named) THEN r.seen.selected ELSE named[1]
           p == IF r.seen.issuer \in {None, i} THEN "select" ELSE "clear"
<1>3. req' = [req EXCEPT ![a].issuer = i, ![a].pc = p]
  BY <1>1 DEF Discover
<1>4. /\ i = IF r.seen.selected \in Range(lists[r.url]) THEN r.seen.selected
             ELSE lists[r.url][1]
      /\ p = IF r.seen.issuer \in {None, i} THEN "select" ELSE "clear"
  OBVIOUS
<1> HIDE DEF i, p
<1>5. PICK x : x = [r EXCEPT !.issuer = i, !.pc = p]
  OBVIOUS
<1>6. req' = [req EXCEPT ![a] = x]
  BY <1>1, <1>3, <1>5
<1>7. x.pc = p /\ x.issuer = i /\ SameHand(r, x)
  BY <1>5 DEF Request, SameHand
<1>8. Others(a) /\ req'[a] = x
  BY <1>6 DEF Others, Typed
<1>9. Finds(r, x)
  BY <1>2, <1>4, <1>7 DEF Finds
<1>10. HandStep(req[a], req'[a]) /\ Cleared(a)
  BY <1>1, <1>2, <1>8, <1>9 DEF HandStep, Cleared
<1> QED BY <1>8, <1>10, HandOnly DEF Discover

LEMMA ClearGrantMoves ==
  ASSUME Typed, NEW a \in Actor, ClearGrant(a)
  PROVE  Moves
<1>1. PICK r \in Request : r = req[a] /\ Holds(r)
  BY RequestIs
<1>2. r.pc = "clear" /\ r.conn \in Conn
  BY <1>1 DEF ClearGrant, At, Holds, Preparing
<1>3. connections[r.conn] \in ConnectionRow
  BY <1>2, RowsAre DEF Typed
<1>4. PICK y : y = [connections[r.conn] EXCEPT !.grant = None, !.reg = None]
  OBVIOUS
<1>5. PICK row : row = [y EXCEPT !.version = r.seen.version + 1]
  OBVIOUS
<1>6. /\ y \in ConnectionRow /\ y.url = connections[r.conn].url
      /\ y.alias = connections[r.conn].alias /\ y.issuer = connections[r.conn].issuer
      /\ y.reg = None /\ y.grant = None /\ y.status = connections[r.conn].status
  BY <1>3, <1>4 DEF ConnectionRow
<1>7. /\ row.url = connections[r.conn].url
      /\ row.alias = connections[r.conn].alias /\ row.issuer = connections[r.conn].issuer
      /\ row.reg = None /\ row.grant = None /\ row.status = connections[r.conn].status
      /\ row.version = r.seen.version + 1
  BY <1>5, <1>6 DEF ConnectionRow
<1>8. connections' = [connections EXCEPT ![r.conn] = row]
  BY <1>1, <1>4, <1>5 DEF ClearGrant
<1>9. /\ Others(a) /\ req'[a].pc = "select" /\ SameHand(req[a], req'[a])
      /\ req'[a].issuer = req[a].issuer
  BY GotoMoves DEF ClearGrant
<1>10. HandStep(req[a], req'[a])
  BY <1>1, <1>2, <1>9 DEF HandStep, Prepares
<1>11. connections'[r.conn] = row
  BY <1>2, <1>8 DEF Typed, TablesTyped, Conn
<1>12. Cleared(a)
  BY <1>1, <1>7, <1>11 DEF Cleared
<1>13. RowStep(r.conn)
  <2>1. Written(r, "select", connections[r.conn], row)
    BY <1>2, <1>7 DEF Written
  <2> QED BY <1>1, <1>7, <1>9, <1>11, <2>1 DEF RowStep, StatusStep
<1> QED BY <1>2, <1>8, <1>9, <1>10, <1>12, <1>13, RowMoves DEF ClearGrant

LEMMA SelectServerMoves ==
  ASSUME Typed, NEW a \in Actor, SelectServer(a)
  PROVE  Moves
<1>1. /\ Others(a) /\ req'[a].pc = "choose" /\ SameHand(req[a], req'[a])
      /\ req'[a].issuer = req[a].issuer
  BY GotoMoves DEF SelectServer
<1>2. req[a].pc = "select" /\ servers' = [servers EXCEPT ![req[a].url] = req[a].issuer]
  BY DEF SelectServer, At
<1>3. HandStep(req[a], req'[a]) /\ Cleared(a)
  BY <1>1, <1>2 DEF HandStep, Prepares, Late, Cleared
<1>4. \A u \in Url : ServerStep(u)
  BY <1>2 DEF ServerStep, Typed, TablesTyped
<1> QED BY <1>1, <1>3, <1>4, HandMoves DEF SelectServer

\* A step on the way to a client.
LEMMA LateMoves ==
  ASSUME Typed, NEW a \in Actor, Others(a), SameHand(req[a], req'[a]),
         req'[a].issuer = req[a].issuer, req[a].pc \in Late \ {"needed", "bind"},
         req'[a].pc \in Late, UNCHANGED <<servers, connections>>
  PROVE  Moves
<1>1. HandStep(req[a], req'[a]) /\ Cleared(a)
  BY DEF HandStep, Prepares, Late, Cleared
<1> QED BY <1>1, HandOnly

LEMMA ChooseStrategyMoves ==
  ASSUME Typed, NEW a \in Actor, ChooseStrategy(a)
  PROVE  Moves
<1>1. PICK type : req' = [req EXCEPT ![a].pc = "client", ![a].type = type]
  BY DEF ChooseStrategy
<1>2. /\ Others(a) /\ req'[a].pc = "client" /\ SameHand(req[a], req'[a])
      /\ req'[a].issuer = req[a].issuer
  BY <1>1, GivenMoves
<1> QED BY <1>2, LateMoves DEF ChooseStrategy, At, Late

LEMMA FindClientMoves ==
  ASSUME Typed, NEW a \in Actor, FindClient(a)
  PROVE  Moves
<1> DEFINE next(k) == IF Reusable(req[a].type, req[a].issuer, k) THEN "bind"
                      ELSE IF req[a].type = "USER_SUPPLIED" THEN "needed"
                      ELSE IF Retirable(req[a].type, k) THEN "retire" ELSE "adopt"
<1>1. PICK k : req' = [req EXCEPT ![a].reg = k, ![a].pc = next(k)]
  BY DEF FindClient
<1>2. PICK p \in {"bind", "needed", "retire", "adopt"} : p = next(k)
  OBVIOUS
<1> HIDE DEF next
<1>3. req' = [req EXCEPT ![a].reg = k, ![a].pc = p]
  BY <1>1, <1>2
<1>4. /\ Others(a) /\ req'[a].pc = p /\ SameHand(req[a], req'[a])
      /\ req'[a].issuer = req[a].issuer
  BY <1>3, GivenMoves
<1> QED BY <1>4, LateMoves DEF FindClient, At, Late

LEMMA RetireClientMoves ==
  ASSUME Typed, NEW a \in Actor, RetireClient(a)
  PROVE  Moves
<1>1. /\ Others(a) /\ req'[a].pc = "adopt" /\ SameHand(req[a], req'[a])
      /\ req'[a].issuer = req[a].issuer
  BY GotoMoves DEF RetireClient
<1> QED BY <1>1, LateMoves DEF RetireClient, At, Late

LEMMA AdoptClientMoves ==
  ASSUME Typed, NEW a \in Actor, AdoptClient(a)
  PROVE  Moves
<1>1. PICK n : req' = [req EXCEPT ![a].pc = "bind", ![a].reg = n]
  BY DEF AdoptClient
<1>2. /\ Others(a) /\ req'[a].pc = "bind" /\ SameHand(req[a], req'[a])
      /\ req'[a].issuer = req[a].issuer
  BY <1>1, GivenMoves
<1> QED BY <1>2, LateMoves DEF AdoptClient, At, Late

LEMMA OpenTransactionMoves ==
  ASSUME Typed, NEW a \in Actor, OpenTransaction(a)
  PROVE  Moves
BY EndOnly DEF OpenTransaction

LEMMA NeedCredentialsMoves ==
  ASSUME Typed, NEW a \in Actor, NeedCredentials(a)
  PROVE  Moves
<1>1. PICK r \in Request : r = req[a] /\ Holds(r)
  BY RequestIs
<1>2. r.pc = "needed" /\ r.conn \in Conn
  BY <1>1 DEF NeedCredentials, At, Holds, Preparing
<1>3. connections[r.conn] \in ConnectionRow
  BY <1>2, RowsAre DEF Typed
<1>4. PICK row : row = [connections[r.conn] EXCEPT !.issuer = r.issuer,
                          !.status = "CLIENT_CREDENTIALS_REQUIRED"]
  OBVIOUS
<1>5. /\ row.url = connections[r.conn].url /\ row.alias = connections[r.conn].alias
      /\ row.issuer = r.issuer /\ row.reg = connections[r.conn].reg
      /\ row.grant = connections[r.conn].grant /\ row.version = connections[r.conn].version
      /\ row.status = "CLIENT_CREDENTIALS_REQUIRED"
  BY <1>3, <1>4 DEF ConnectionRow
<1>6. connections' = [connections EXCEPT ![r.conn] = row]
  BY <1>1, <1>4 DEF NeedCredentials
<1>7. Others(a) /\ req'[a].pc \in {"idle", "find"}
  BY EndMoves DEF NeedCredentials
<1>8. HandStep(req[a], req'[a]) /\ Cleared(a)
  BY <1>7 DEF HandStep, Ends, Cleared
<1>9. ASSUME connections'[r.conn] = row PROVE RowStep(r.conn)
  <2>1. Written(r, req'[a].pc, connections[r.conn], row)
    BY <1>2, <1>5, <1>7 DEF Written
  <2> QED BY <1>1, <1>5, <1>9, <2>1 DEF RowStep, StatusStep, SERVING
<1> QED BY <1>2, <1>6, <1>7, <1>8, <1>9, RowMoves DEF NeedCredentials

LEMMA BindClientMoves ==
  ASSUME Typed, NEW a \in Actor, BindClient(a)
  PROVE  Moves
<1>1. PICK r \in Request : r = req[a] /\ Holds(r)
  BY RequestIs
<1>2. r.pc = "bind" /\ r.conn \in Conn
  BY <1>1 DEF BindClient, At, Holds, Preparing
<1>3. connections[r.conn] \in ConnectionRow
  BY <1>2, RowsAre DEF Typed
<1>4. PICK y : y = [connections[r.conn] EXCEPT !.issuer = r.issuer, !.reg = r.reg]
  OBVIOUS
<1>5. PICK row : row = [y EXCEPT !.status = "AUTHORIZATION_REQUIRED"]
  OBVIOUS
<1>6. /\ y.url = connections[r.conn].url /\ y.alias = connections[r.conn].alias
      /\ y.issuer = r.issuer /\ y.reg = r.reg
      /\ y.grant = connections[r.conn].grant /\ y.version = connections[r.conn].version
      /\ DOMAIN y = DOMAIN connections[r.conn]
  BY <1>3, <1>4 DEF ConnectionRow
<1>7. /\ row.url = connections[r.conn].url /\ row.alias = connections[r.conn].alias
      /\ row.issuer = r.issuer /\ row.reg = r.reg
      /\ row.grant = connections[r.conn].grant /\ row.version = connections[r.conn].version
      /\ row.status = "AUTHORIZATION_REQUIRED"
  BY <1>3, <1>5, <1>6 DEF ConnectionRow
<1>8. connections' = [connections EXCEPT ![r.conn] = row]
  BY <1>1, <1>4, <1>5 DEF BindClient
<1>9. /\ Others(a) /\ req'[a].pc = "transaction" /\ SameHand(req[a], req'[a])
      /\ req'[a].issuer = req[a].issuer
  BY GotoMoves DEF BindClient
<1>10. HandStep(req[a], req'[a]) /\ Cleared(a)
  BY <1>1, <1>2, <1>9 DEF HandStep, Prepares, Cleared
<1>11. ASSUME connections'[r.conn] = row PROVE RowStep(r.conn)
  <2>1. Written(r, "transaction", connections[r.conn], row)
    BY <1>2, <1>7 DEF Written
  <2> QED BY <1>1, <1>7, <1>9, <1>11, <2>1 DEF RowStep, StatusStep, SERVING
<1> QED BY <1>2, <1>8, <1>9, <1>10, <1>11, RowMoves DEF BindClient

\* ... exchanges a code, ...
LEMMA ExchangeMoves ==
  ASSUME NEW a \in Actor, Others(a), SameHand(req[a], req'[a]),
         req[a].pc \in {"present", "refuse", "replace"},
         req'[a].pc \in {"store", "refuse", "replace", "rebind"},
         UNCHANGED <<servers, connections>>
  PROVE  Moves
<1>1. HandStep(req[a], req'[a]) /\ Cleared(a)
  BY DEF HandStep, Exchanges, Cleared
<1> QED BY <1>1, HandOnly

LEMMA PresentCodeMoves ==
  ASSUME Typed, NEW a \in Actor, PresentCode(a)
  PROVE  Moves
<1>1. \/ End(a) \/ Goto(a, "store")
      \/ \E v : req' = [req EXCEPT ![a].pc = "refuse", ![a].answer = v]
  BY DEF PresentCode
<1>2. CASE End(a)
  BY <1>2, EndOnly DEF PresentCode
<1>3. CASE Goto(a, "store")
  <2>1. Others(a) /\ req'[a].pc = "store" /\ SameHand(req[a], req'[a])
    BY <1>3, GotoMoves
  <2> QED BY <2>1, ExchangeMoves DEF PresentCode, At
<1>4. CASE \E v : req' = [req EXCEPT ![a].pc = "refuse", ![a].answer = v]
  <2>1. Others(a) /\ req'[a].pc = "refuse" /\ SameHand(req[a], req'[a])
    BY <1>4, GivenMoves
  <2> QED BY <2>1, ExchangeMoves DEF PresentCode, At
<1> QED BY <1>1, <1>2, <1>3, <1>4

LEMMA StoreGrantMoves ==
  ASSUME Typed, NEW a \in Actor, StoreGrant(a)
  PROVE  Moves
<1>1. PICK r \in Request : r = req[a] /\ Holds(r)
  BY RequestIs
<1>2. /\ r.pc = "store" /\ r.conn \in Conn /\ r.seen.issuer # None
  BY <1>1, OnboardingAssumption DEF StoreGrant, At, Holds, Preparing, Exchanging, Syncing
<1>3. Others(a) /\ req'[a].pc = "activate"
  BY GotoMoves DEF StoreGrant
<1>4. HandStep(req[a], req'[a]) /\ Cleared(a)
  BY <1>3 DEF HandStep, Syncs, Syncing, Cleared
<1>5. CASE connections[r.conn].version # r.seen.version
  BY <1>1, <1>3, <1>4, <1>5, HandOnly DEF StoreGrant
<1>6. CASE connections[r.conn].version = r.seen.version
  <2>1. connections[r.conn] \in ConnectionRow
    BY <1>2, RowsAre DEF Typed
  <2>2. PICK y : y = [connections[r.conn] EXCEPT !.version = r.seen.version + 1,
                        !.grant = r.seen.issuer]
    OBVIOUS
  <2>3. PICK row : row = [y EXCEPT !.status = Held(r.seen.issuer)]
    OBVIOUS
  <2>4. /\ y.url = connections[r.conn].url /\ y.alias = connections[r.conn].alias
        /\ y.issuer = connections[r.conn].issuer /\ y.reg = connections[r.conn].reg
        /\ y.grant = r.seen.issuer /\ y.version = r.seen.version + 1
        /\ DOMAIN y = DOMAIN connections[r.conn]
    BY <2>1, <2>2 DEF ConnectionRow
  <2>5. /\ row.url = connections[r.conn].url /\ row.alias = connections[r.conn].alias
        /\ row.issuer = connections[r.conn].issuer /\ row.reg = connections[r.conn].reg
        /\ row.grant = r.seen.issuer /\ row.version = r.seen.version + 1
    BY <2>1, <2>3, <2>4 DEF ConnectionRow
  <2>6. connections' = [connections EXCEPT ![r.conn] = row]
    BY <1>1, <1>6, <2>2, <2>3 DEF StoreGrant
  <2>7. ASSUME connections'[r.conn] = row PROVE RowStep(r.conn)
    <3>1. Written(r, "activate", connections[r.conn], row)
      BY <1>2, <1>6, <2>5 DEF Written
    <3> QED BY <1>1, <1>2, <1>3, <2>5, <2>7, <3>1 DEF RowStep, StatusStep
  <2>8. UNCHANGED servers
    BY DEF StoreGrant
  <2> QED BY <1>2, <1>3, <1>4, <2>6, <2>7, <2>8, RowMoves
<1> QED BY <1>5, <1>6

LEMMA RefuseClientMoves ==
  ASSUME Typed, NEW a \in Actor, RefuseClient(a)
  PROVE  Moves
<1>1. Others(a) /\ req'[a].pc = "replace" /\ SameHand(req[a], req'[a])
  BY GotoMoves DEF RefuseClient
<1> QED BY <1>1, ExchangeMoves DEF RefuseClient, At

LEMMA ReplaceClientMoves ==
  ASSUME Typed, NEW a \in Actor, ReplaceClient(a)
  PROVE  Moves
<1>1. PICK n : req' = [req EXCEPT ![a].pc = "rebind", ![a].reg = n]
  BY DEF ReplaceClient
<1>2. Others(a) /\ req'[a].pc = "rebind" /\ SameHand(req[a], req'[a])
  BY <1>1, GivenMoves
<1> QED BY <1>2, ExchangeMoves DEF ReplaceClient, At

LEMMA RebindMoves ==
  ASSUME Typed, NEW a \in Actor, Rebind(a)
  PROVE  Moves
<1>1. PICK r \in Request : r = req[a] /\ Holds(r)
  BY RequestIs
<1>2. r.pc = "rebind" /\ r.conn \in Conn
  BY <1>1 DEF Rebind, At, Holds, Exchanging
<1>3. connections[r.conn] \in ConnectionRow
  BY <1>2, RowsAre DEF Typed
<1>4. PICK row : row = [connections[r.conn] EXCEPT !.reg = r.reg]
  OBVIOUS
<1>5. /\ row.url = connections[r.conn].url /\ row.alias = connections[r.conn].alias
      /\ row.issuer = connections[r.conn].issuer /\ row.reg = r.reg
      /\ row.grant = connections[r.conn].grant /\ row.version = connections[r.conn].version
      /\ row.status = connections[r.conn].status
  BY <1>3, <1>4 DEF ConnectionRow
<1>6. connections' = [connections EXCEPT ![r.conn] = row]
  BY <1>1, <1>4 DEF Rebind
<1>7. Others(a) /\ req'[a].pc \in {"idle", "find"}
  BY EndMoves DEF Rebind
<1>8. HandStep(req[a], req'[a]) /\ Cleared(a)
  BY <1>7 DEF HandStep, Ends, Cleared
<1>9. ASSUME connections'[r.conn] = row PROVE RowStep(r.conn)
  <2>1. Written(r, req'[a].pc, connections[r.conn], row)
    BY <1>2, <1>5, <1>7 DEF Written
  <2> QED BY <1>1, <1>5, <1>9, <2>1 DEF RowStep, StatusStep
<1> QED BY <1>2, <1>6, <1>7, <1>8, <1>9, RowMoves DEF Rebind

\* ... or syncs a catalogue.
LEMMA StatusMoves ==
  ASSUME Typed, NEW a \in Actor, Others(a), HandStep(req[a], req'[a]), Cleared(a),
         NEW c \in Conn, NEW s, SetStatus(c, s), UNCHANGED servers,
         \/ s \notin SERVING
         \/ req[a].conn = c /\ req[a].pc = "synced"
         \/ req'[a].conn = c /\ req'[a].pc = "sync"
  PROVE  Moves
<1>1. connections[c] \in ConnectionRow
  BY RowsAre DEF Typed
<1>2. PICK row : row = [connections[c] EXCEPT !.status = s]
  OBVIOUS
<1>3. SameRow(connections[c], row) /\ row.status = s
  BY <1>1, <1>2 DEF ConnectionRow, SameRow
<1>4. connections' = [connections EXCEPT ![c] = row]
  BY <1>2 DEF SetStatus
<1>5. ASSUME connections'[c] = row PROVE RowStep(c)
  BY <1>3, <1>5 DEF RowStep, StatusStep
<1> QED BY <1>4, <1>5, RowMoves

LEMMA ActivateMoves ==
  ASSUME Typed, NEW a \in Actor, Activate(a)
  PROVE  Moves
<1>1. PICK v : req' = [req EXCEPT ![a].pc = "sync", ![a].answer = v]
  BY DEF Activate
<1>2. Others(a) /\ req'[a].pc = "sync"
  BY <1>1, GivenMoves
<1>3. HandStep(req[a], req'[a]) /\ Cleared(a)
  BY <1>2 DEF HandStep, Syncs, Syncing, Cleared
<1> QED BY <1>2, <1>3, HandOnly DEF Activate

LEMMA ContactMoves ==
  ASSUME Typed, NEW a \in Actor, Contact(a)
  PROVE  Moves
<1>1. PICK v : /\ req' = [req EXCEPT ![a].pc = "synced", ![a].answer = v]
               /\ (v = "REAUTH_REQUIRED" /\ SetStatus(req[a].conn, v)) \/ UNCHANGED connections
  BY DEF Contact
<1>2. Others(a) /\ req'[a].pc = "synced" /\ SameHand(req[a], req'[a])
  BY <1>1, GivenMoves
<1>3. HandStep(req[a], req'[a]) /\ Cleared(a)
  BY <1>2 DEF Contact, At, HandStep, Syncs, Syncing, SameHand, Cleared
<1>4. CASE UNCHANGED connections
  BY <1>2, <1>3, <1>4, HandOnly DEF Contact
<1>5. CASE v = "REAUTH_REQUIRED" /\ SetStatus(req[a].conn, v)
  <2>1. req[a].conn \in Conn
    BY RequestIs DEF Contact, At, Holds, Syncing
  <2>2. v \notin SERVING
    BY <1>5 DEF SERVING
  <2> QED BY <1>2, <1>3, <1>5, <2>1, <2>2, StatusMoves DEF Contact
<1> QED BY <1>1, <1>4, <1>5

LEMMA ContactFailsMoves ==
  ASSUME Typed, NEW a \in Actor, ContactFails(a)
  PROVE  Moves
<1>1. Others(a) /\ req'[a].pc = "synced" /\ SameHand(req[a], req'[a])
  BY GivenMoves DEF ContactFails
<1>2. HandStep(req[a], req'[a]) /\ Cleared(a)
  BY <1>1 DEF ContactFails, At, HandStep, Syncs, Syncing, SameHand, Cleared
<1> QED BY <1>1, <1>2, HandOnly DEF ContactFails

LEMMA WriteStatusMoves ==
  ASSUME Typed, NEW a \in Actor, WriteStatus(a)
  PROVE  Moves
<1>1. req[a].conn \in Conn
  BY RequestIs DEF WriteStatus, At, Holds, Syncing
<1>2. Others(a) /\ req'[a].pc \in {"idle", "find"}
  BY EndMoves DEF WriteStatus
<1>3. HandStep(req[a], req'[a]) /\ Cleared(a)
  BY <1>2 DEF HandStep, Ends, Cleared
<1> QED BY <1>1, <1>2, <1>3, StatusMoves DEF WriteStatus, At

LEMMA WriteEnabledMoves ==
  ASSUME Typed, NEW a \in Actor, WriteEnabled(a)
  PROVE  Moves
<1>1. req[a].conn \in Conn
  BY RequestIs DEF WriteEnabled, At, Holds, Syncing
<1>2. Others(a) /\ req'[a].pc = "sync" /\ SameHand(req[a], req'[a])
  BY GotoMoves DEF WriteEnabled
<1>3. HandStep(req[a], req'[a]) /\ Cleared(a)
  BY <1>2 DEF HandStep, Syncs, Syncing, Cleared
<1>4. req'[a].conn = req[a].conn
  BY <1>2 DEF SameHand
<1> QED BY <1>1, <1>2, <1>3, <1>4, StatusMoves DEF WriteEnabled

LEMMA RequestStepMoves ==
  ASSUME Typed, NEW a \in Actor, RequestStep(a)
  PROVE  Moves
BY FindServerMoves, InsertServerMoves, ChooseAliasMoves, InsertConnectionMoves, DiscoverMoves,
   ClearGrantMoves, SelectServerMoves, ChooseStrategyMoves, FindClientMoves, RetireClientMoves,
   AdoptClientMoves, NeedCredentialsMoves, BindClientMoves, OpenTransactionMoves,
   PresentCodeMoves, StoreGrantMoves, RefuseClientMoves, ReplaceClientMoves, RebindMoves,
   ActivateMoves, ContactMoves, WriteStatusMoves, WriteEnabledMoves DEF RequestStep

\* A request that begins.
LEMMA BegunMoves ==
  ASSUME Typed, NEW a \in Actor, NEW x, req' = [req EXCEPT ![a] = x],
         UNCHANGED <<servers, connections>>,
         Ends(x) \/ Syncs(req[a], x) \/ Begins(x)
  PROVE  Moves
<1>1. Others(a) /\ req'[a] = x
  BY DEF Others, Typed
<1>2. HandStep(req[a], req'[a])
  BY <1>1 DEF HandStep
<1>3. x.pc # "select"
  BY DEF Ends, Syncs, Syncing, Begins
<1> QED BY <1>1, <1>2, <1>3, HandOnly DEF Cleared

LEMMA ImportMoves ==
  ASSUME Typed, NEW a \in Actor, NEW items, Import(a, items)
  PROVE  Moves
<1>1. PICK x : x = Fresh("find", items[1].url, Tail(items), items[1].name, 0, None, None)
  OBVIOUS
<1>2. [Idle EXCEPT !.pc = "find", !.url = items[1].url, !.name = items[1].name,
                   !.queue = Tail(items)]
        = Fresh("find", items[1].url, Tail(items), items[1].name, 0, None, None)
  BY Queued
<1>3. req' = [req EXCEPT ![a] = x]
  BY <1>1, <1>2 DEF Import
<1>4. Ends(x)
  BY <1>1 DEF Fresh, Ends
<1> QED BY <1>3, <1>4, BegunMoves DEF Import

LEMMA StartAuthorizationMoves ==
  ASSUME Typed, NEW a \in Actor, NEW c, StartAuthorization(a, c)
  PROVE  Moves
<1>1. PICK s : s = Snapshot(c)
  OBVIOUS
<1>2. PICK x : x = Fresh("discover", connections[c].url, <<>>, None, c, s, None)
  OBVIOUS
<1>3. [Idle EXCEPT !.pc = "discover", !.url = connections[c].url, !.conn = c, !.seen = s]
        = Fresh("discover", connections[c].url, <<>>, None, c, s, None)
  BY Started
<1>4. req' = [req EXCEPT ![a] = x]
  BY <1>1, <1>2, <1>3 DEF StartAuthorization
<1>5. /\ x.pc = "discover" /\ x.url = connections[c].url /\ x.conn = c /\ x.seen = s
  BY <1>2 DEF Fresh
<1>6. Begins(x)
  BY <1>1, <1>5 DEF Begins, StartAuthorization
<1> QED BY <1>4, <1>6, BegunMoves DEF StartAuthorization

LEMMA CallbackMoves ==
  ASSUME Typed, NEW a \in Actor, NEW t, Callback(a, t)
  PROVE  Moves
<1>1. t.conn \in Conn
  BY DEF Callback, Typed, TablesTyped
<1>2. PICK s : s = Snapshot(t.conn)
  OBVIOUS
<1>3. PICK x : x = Fresh("present", connections[t.conn].url, <<>>, None, t.conn, s, t)
  OBVIOUS
<1>4. Returned("present", connections[t.conn].url, t.conn, s, t)
        = Fresh("present", connections[t.conn].url, <<>>, None, t.conn, s, t)
  BY CalledBack
<1>5. req' = [req EXCEPT ![a] = x]
  BY <1>2, <1>3, <1>4 DEF Callback, Returned
<1>6. /\ x.pc = "present" /\ x.url = connections[t.conn].url /\ x.conn = t.conn
      /\ x.seen = s
  BY <1>3 DEF Fresh
<1>7. Begins(x)
  BY <1>1, <1>2, <1>6 DEF Begins, Callback
<1> QED BY <1>5, <1>7, BegunMoves DEF Callback

LEMMA TakesMoves ==
  ASSUME Typed, NEW a \in Actor, NEW c, NEW p \in {"sync", "enable"}, NEW s, Takes(a, c, p, s)
  PROVE  Moves
<1>1. PICK y : y = [Idle EXCEPT !.pc = p, !.url = connections[c].url]
  OBVIOUS
<1>2. PICK x : x = [y EXCEPT !.conn = c, !.answer = s]
  OBVIOUS
<1>3. y.pc = p /\ DOMAIN y = DOMAIN Idle
  BY <1>1 DEF Idle
<1>4. x.pc = p
  BY <1>2, <1>3 DEF Idle
<1>5. req' = [req EXCEPT ![a] = x]
  BY <1>1, <1>2 DEF Takes
<1>6. Syncs(req[a], x)
  BY <1>4 DEF Syncs, Syncing
<1> QED BY <1>5, <1>6, BegunMoves DEF Takes

\* A step that is not of a request.
LEMMA RestMoves ==
  ASSUME UNCHANGED <<servers, connections, req>>
  PROVE  Moves
<1>1. \A a \in Actor : HandStep(req[a], req'[a]) /\ Cleared(a)
  BY DEF HandStep, Cleared
<1>2. \A c \in Conn : RowStep(c)
  BY DEF RowStep, SameRow, StatusStep
<1>3. Conn' = Conn /\ \A u \in Url : ServerStep(u)
  BY DEF Conn, ServerStep
<1> QED BY <1>1, <1>2, <1>3 DEF Moves

LEMMA RestartMoves ==
  ASSUME NEW address, Restart(address)
  PROVE  Moves
<1>1. ASSUME NEW a \in Actor PROVE HandStep(req[a], req'[a]) /\ Cleared(a)
  <2>1. req'[a] = Idle
    BY DEF Restart
  <2>2. req'[a].pc = "idle"
    BY <2>1 DEF Idle
  <2> QED BY <2>2 DEF HandStep, Ends, Cleared
<1>2. \A c \in Conn : RowStep(c)
  BY DEF Restart, RowStep, SameRow, StatusStep
<1>3. Conn' = Conn /\ \A u \in Url : ServerStep(u)
  BY DEF Restart, Conn, ServerStep
<1> QED BY <1>1, <1>2, <1>3 DEF Moves

LEMMA DisableMoves ==
  ASSUME Typed, NEW c, Disable(c)
  PROVE  Moves
<1>1. c \in Conn /\ connections[c] \in ConnectionRow /\ connections \in Seq(ConnectionRow)
  BY RowsAre DEF Typed, TablesTyped, Disable
<1>2. PICK row : row = [connections[c] EXCEPT !.status = "DISABLED"]
  OBVIOUS
<1>3. SameRow(connections[c], row) /\ row.status \notin SERVING
  BY <1>1, <1>2 DEF ConnectionRow, SameRow, SERVING
<1>4. connections' = [connections EXCEPT ![c] = row]
  BY <1>2 DEF Disable, SetStatus
<1>5. /\ Conn' = Conn /\ connections'[c] = row
      /\ \A d \in Conn : d # c => connections'[d] = connections[d]
  BY <1>1, <1>4 DEF Conn
<1>6. \A d \in Conn : RowStep(d)
  BY <1>3, <1>5 DEF RowStep, SameRow, StatusStep
<1>7. \A a \in Actor : HandStep(req[a], req'[a]) /\ Cleared(a)
  BY DEF Disable, HandStep, Cleared
<1>8. \A u \in Url : ServerStep(u)
  BY DEF Disable, ServerStep
<1> QED BY <1>5, <1>6, <1>7, <1>8 DEF Moves

LEMMA HappensMoves ==
  ASSUME Typed, NEW e, Happens(e)
  PROVE  Moves
<1>1. CASE e[1] \in {"start", "create"}
  BY <1>1, StartAuthorizationMoves, ImportMoves DEF Happens
<1>2. CASE e[1] \in {"refresh", "enable"}
  BY <1>2, TakesMoves DEF Happens, Refresh, Enable
<1>3. CASE e[1] = "disable"
  BY <1>3, DisableMoves DEF Happens
<1>4. CASE e[1] = "restart"
  BY <1>4, RestartMoves DEF Happens
<1>5. CASE e[1] = "mishap"
  BY <1>5, EndOnly, ContactFailsMoves DEF Happens, Mishap
<1>6. CASE e[1] \in {"move", "lapse", "configure", "expire"}
  BY <1>6, RestMoves DEF Happens, Move, Lapse, Configure, Expire, onVars
<1> QED BY <1>1, <1>2, <1>3, <1>4, <1>5, <1>6 DEF Happens

\* Every step.
LEMMA NextMoves ==
  ASSUME Typed, [Next]_vars
  PROVE  Moves
<1>1. CASE UNCHANGED onVars
  BY <1>1, RestMoves DEF onVars
<1>2. CASE UNCHANGED vars
  BY <1>2, RestMoves DEF vars
<1>3. CASE UserStep
  BY <1>3, ImportMoves, StartAuthorizationMoves, CallbackMoves, RestMoves
     DEF UserStep, Asks, Expire
<1>4. CASE Progress
  BY <1>1, <1>3, <1>4, RequestStepMoves DEF Progress
<1>5. CASE Event
  <2>1. PICK e \in mix.does :
          Happens(e) \/ UNCHANGED onVars \/ \E a \in Actor : Import(a, ImportItems)
    BY <1>5 DEF Event, ImportCommand
  <2> QED BY <1>1, <2>1, HappensMoves, ImportMoves
<1> QED BY <1>2, <1>4, <1>5 DEF Next

(***************************************************************************)
(* Pruning                                                                 *)
(***************************************************************************)

\* Contents of a file that keep to what was there first: an unreadable file
\* stays so, and in a readable one each name leads where it did, or has gone
\* with a URL in S.
KeepsTo(f, x, S) ==
  /\ Served0[f] = Unreadable => x = Unreadable
  /\ Served0[f] \in Configuration =>
       /\ x \in Configuration
       /\ \A n \in DOMAIN Served0[f] :
            IF n \in DOMAIN x THEN n = Gateway \/ x[n] = Served0[f][n]
            ELSE Canonical[Served0[f][n]] \in S
AllKeepTo(b, S) == \A e \in Range(b) : KeepsTo(e[1], e[2], S)

Keeping(S) ==
  /\ cli.urls \subseteq S
  /\ \A f \in File : KeepsTo(f, files[f], S)
  /\ \A k \in DOMAIN backups : AllKeepTo(backups[k], S)
  /\ AllKeepTo(cli.entries, S) /\ AllKeepTo(cli.plan, S)

\* An installed entry takes nothing away.
LEMMA InstallKeeps ==
  ASSUME CliTyped, NEW S, Keeping(S), NEW f \in File, files[f] # Unreadable
  PROVE  KeepsTo(f, With(f, Gateway, Gateway), S)
<1> DEFINE x == With(f, Gateway, Gateway)
<1>1. x \in Configuration /\ KeepsTo(f, files[f], S)
  BY EditsAreContent DEF Keeping
<1>2. Served0[f] # Unreadable
  BY <1>1 DEF KeepsTo
<1>3. ASSUME Served0[f] \in Configuration, NEW n \in DOMAIN Served0[f]
      PROVE  IF n \in DOMAIN x THEN n = Gateway \/ x[n] = Served0[f][n]
             ELSE Canonical[Served0[f][n]] \in S
  <2>1. files[f] \in Configuration
    BY <1>1, <1>3 DEF KeepsTo
  <2>2. Readable(f) /\ Entries(f) = DOMAIN files[f]
    BY <2>1, EntriesOfContent DEF Entries
  <2>3. DOMAIN x = DOMAIN files[f] \cup {Gateway} /\ (n # Gateway => (n \in DOMAIN x => x[n] = files[f][n]))
    BY <2>2 DEF With
  <2> QED BY <1>1, <1>3, <2>3 DEF KeepsTo
<1> QED BY <1>1, <1>2, <1>3 DEF KeepsTo

\* A pruned file has lost entries of the given URLs only.
LEMMA PruneKeeps ==
  ASSUME CliTyped, NEW S, Keeping(S), NEW f \in File, NEW urls \in SUBSET S, Readable(f)
  PROVE  KeepsTo(f, Without(f, Removable(f, urls)), S)
<1> DEFINE x == Without(f, Removable(f, urls))
<1>1. x \in Configuration /\ KeepsTo(f, files[f], S)
  BY EditsAreContent DEF Keeping
<1>2. Served0[f] # Unreadable
  BY <1>1 DEF KeepsTo, Readable
<1>3. /\ DOMAIN x = DOMAIN files[f] \ Removable(f, urls)
      /\ \A n \in DOMAIN x : x[n] = files[f][n]
  BY DEF Without, Restrict
<1>4. \A n \in Removable(f, urls) : n # Gateway /\ Canonical[files[f][n]] \in S
  BY DEF Removable
<1>5. ASSUME Served0[f] \in Configuration, NEW n \in DOMAIN Served0[f]
      PROVE  IF n \in DOMAIN x THEN n = Gateway \/ x[n] = Served0[f][n]
             ELSE Canonical[Served0[f][n]] \in S
  BY <1>1, <1>3, <1>4, <1>5 DEF KeepsTo
<1> QED BY <1>1, <1>2, <1>5 DEF KeepsTo

\* What a command plans, writes, copies and restores.
LEMMA CommandKeeps ==
  ASSUME CliTyped, NEW S, ServingUrls \subseteq S, Keeping(S), CommandSide
  PROVE  Keeping(S)'
<1>1. /\ cli \in CommandStates /\ backups \in Seq(Seq(Copied)) /\ files \in [File -> Content]
      /\ cli.plan \in Seq(Copied) /\ cli.entries \in Seq(Copied)
  BY DEF CliTyped, CommandStates
<1>2. Range(<<>>) = {}
  BY DEF Range
<1>3. AllKeepTo(<<>>, S)
  BY <1>2 DEF AllKeepTo
<1>6. CASE InstallCommand
  <2>1. AllKeepTo(cli'.plan, S) /\ cli'.entries = <<>> /\ cli'.urls = {}
        /\ UNCHANGED <<files, backups>>
    <3>1. /\ UNCHANGED <<files, backups>>
          /\ \/ cli' = NoCommand
             \/ /\ cli'.entries = <<>> /\ cli'.urls = {}
                /\ Range(cli'.plan) \subseteq InstallChanges
      BY <1>6, ChangesTyped, BeginTyped DEF InstallCommand
    <3>2. \A e \in InstallChanges : KeepsTo(e[1], e[2], S)
      BY InstallKeeps DEF InstallChanges
    <3> QED BY <1>2, <3>1, <3>2 DEF AllKeepTo, NoCommand
  <2> QED BY <1>3, <1>6, <2>1 DEF Keeping
<1>7. CASE PlanPrune
  <2>1. AllKeepTo(cli'.plan, S) /\ cli'.entries = <<>> /\ cli'.urls = {}
        /\ UNCHANGED <<files, backups>>
    <3>1. /\ UNCHANGED <<files, backups>>
          /\ \/ cli' = NoCommand
             \/ /\ cli'.entries = <<>> /\ cli'.urls = {}
                /\ Range(cli'.plan) \subseteq PruneChanges(cli.urls)
      BY <1>7, ChangesTyped, BeginTyped DEF PlanPrune
    <3>2. \A g \in File : Removable(g, cli.urls) # {} => Readable(g)
      BY DEF Removable, Entries
    <3>3. \A e \in PruneChanges(cli.urls) : KeepsTo(e[1], e[2], S)
      BY <3>2, PruneKeeps DEF PruneChanges, Keeping
    <3> QED BY <1>2, <3>1, <3>3 DEF AllKeepTo, NoCommand
  <2> QED BY <1>3, <1>7, <2>1 DEF Keeping
<1>8. CASE PruneCommand
  BY <1>3, <1>8 DEF PruneCommand, Keeping, NoCommand
<1>9. CASE Capture
  <2> DEFINE f == cli.plan[1][1]
             c == <<f, files[f]>>
  <2>1. cli.plan[1] \in Copied /\ f \in File
    <3>1. cli.plan[1] \in Copied
      BY <1>1, <1>9, RangeOfTail DEF Capture, CliTyped
    <3> QED BY <3>1 DEF Copied
  <2>2. c[1] = f /\ c[2] = files[f] /\ c \in Copied
    BY <1>1, <2>1 DEF Copied
  <2> HIDE DEF c
  <2>3. Range(Append(cli.entries, c)) = Range(cli.entries) \cup {c}
    BY <1>1, <2>2, RangeOfAppend
  <2>4. KeepsTo(c[1], c[2], S)
    BY <2>1, <2>2 DEF Keeping
  <2>5. AllKeepTo(Append(cli.entries, c), S)
    BY <2>3, <2>4 DEF Keeping, AllKeepTo
  <2>6. /\ cli'.entries = cli.entries \/ cli'.entries = Append(cli.entries, c)
        /\ cli'.plan = cli.plan /\ cli'.urls = cli.urls /\ UNCHANGED <<files, backups>>
    BY <1>1, <1>9 DEF Capture, CommandStates, c
  <2> QED BY <1>9, <2>5, <2>6 DEF Keeping
<1>10. CASE Write
  <2> DEFINE c == cli.plan[1]
  <2>1. /\ c \in Copied /\ Range(cli.plan) = {c} \cup Range(Tail(cli.plan))
    BY <1>1, <1>10, RangeOfTail DEF Write, CliTyped
  <2>2. KeepsTo(c[1], c[2], S) /\ AllKeepTo(Tail(cli.plan), S) /\ c[1] \in File
    BY <2>1 DEF Keeping, AllKeepTo, Copied
  <2>3. /\ cli'.entries = cli.entries /\ cli'.plan = Tail(cli.plan) /\ cli'.urls = cli.urls
        /\ files' = [files EXCEPT ![c[1]] = c[2]] /\ UNCHANGED <<backups>>
    BY <1>1, <1>10 DEF Write, CommandStates
  <2>4. \A g \in File : KeepsTo(g, files'[g], S)
    BY <1>1, <2>2, <2>3 DEF Keeping
  <2> QED BY <1>10, <2>2, <2>3, <2>4 DEF Keeping
<1>11. CASE Commit
  <2>1. \A k \in DOMAIN Append(backups, cli.entries) :
           AllKeepTo(Append(backups, cli.entries)[k], S)
    BY <1>1 DEF Keeping
  <2> QED BY <1>3, <1>11, <2>1 DEF Commit, Keeping, NoCommand
<1>12. CASE RollbackCommand(Len(backups))
  <2>1. /\ cli'.entries = backups[Len(backups)] /\ Len(backups) \in DOMAIN backups
        /\ cli'.plan = <<>> /\ cli'.urls = {} /\ UNCHANGED <<files, backups>>
    BY <1>12 DEF RollbackCommand, NoCommand
  <2> QED BY <1>3, <1>12, <2>1 DEF Keeping
<1>13. CASE Restore
  <2> DEFINE c == cli.entries[1]
  <2>1. /\ c \in Copied /\ Range(cli.entries) = {c} \cup Range(Tail(cli.entries))
    BY <1>1, <1>13, RangeOfTail DEF Restore
  <2>2. KeepsTo(c[1], c[2], S) /\ AllKeepTo(Tail(cli.entries), S) /\ c[1] \in File
    BY <2>1 DEF Keeping, AllKeepTo, Copied
  <2>3. /\ cli'.entries = Tail(cli.entries) /\ cli'.plan = cli.plan /\ cli'.urls = cli.urls
        /\ files' = [files EXCEPT ![c[1]] = c[2]] /\ UNCHANGED <<backups>>
    BY <1>1, <1>13 DEF Restore, CommandStates
  <2>4. \A g \in File : KeepsTo(g, files'[g], S)
    BY <1>1, <2>2, <2>3 DEF Keeping
  <2> QED BY <1>13, <2>2, <2>3, <2>4 DEF Keeping
<1>14. CASE Forgotten \/ ForgetDies
  <2> DEFINE n == Len(backups)
  <2>1. /\ backups # <<>> /\ cli.command = n /\ cli' = NoCommand /\ UNCHANGED files
        /\ \/ backups' = RemoveAt(backups, n)
           \/ \E m \in 0..Len(backups[n]) - 1 :
                backups' = [backups EXCEPT ![n] = SubSeq(backups[n], 1, m)]
    BY <1>1, <1>14 DEF Forgotten, ForgetDies, CliTyped
  <2>2. /\ DOMAIN RemoveAt(backups, n) = 1..(n - 1)
        /\ \A i \in 1..(n - 1) : RemoveAt(backups, n)[i] = backups[i]
        /\ n \in Nat \ {0} /\ DOMAIN backups = 1..n
    BY <1>1, <2>1, LastTaken
  <2>3. n \in 1..n /\ \A k \in 1..(n - 1) : k \in 1..n
    BY <2>2
  <2> HIDE DEF n
  <2>4. CASE backups' = RemoveAt(backups, n)
    <3>1. \A k \in DOMAIN backups' : AllKeepTo(backups'[k], S)
      BY <2>2, <2>3, <2>4 DEF Keeping
    <3> QED BY <1>3, <2>1, <3>1 DEF Keeping, NoCommand
  <2>5. ASSUME NEW m \in 0..Len(backups[n]) - 1,
               backups' = [backups EXCEPT ![n] = SubSeq(backups[n], 1, m)]
        PROVE  Keeping(S)'
    <3>1. Range(SubSeq(backups[n], 1, m)) \subseteq Range(backups[n])
      BY <1>1, <2>2, <2>3, <2>5, FrontOfCopies
    <3>2. AllKeepTo(SubSeq(backups[n], 1, m), S)
      BY <2>2, <2>3, <3>1 DEF Keeping, AllKeepTo
    <3>3. \A k \in DOMAIN backups' : AllKeepTo(backups'[k], S)
      BY <2>5, <3>2 DEF Keeping
    <3> QED BY <1>3, <2>1, <3>3 DEF Keeping, NoCommand
  <2> QED BY <2>1, <2>4, <2>5
<1>15. CASE Die \/ RestoreThrows
  BY <1>3, <1>15 DEF Die, RestoreThrows, Keeping, NoCommand
<1>16. CASE Forget
  <2>1. /\ cli'.entries = cli.entries /\ cli'.plan = cli.plan /\ cli'.urls = cli.urls
        /\ UNCHANGED <<files, backups>>
    BY <1>1, <1>16 DEF Forget, CommandStates
  <2> QED BY <1>16, <2>1 DEF Keeping
<1> QED BY <1>6, <1>7, <1>8, <1>9, <1>10, <1>11, <1>12, <1>13, <1>14, <1>15, <1>16 DEF CommandSide

\* What a connection serves has a grant, or its catalogue was asked for.
Asked == served \cup tried
ServingInv ==
  /\ \A c \in Conn : Equipped(c) => connections[c].url \in served
  /\ \A a \in Actor : req[a].pc = "sync" => req[a].url \in tried
  /\ \A a \in Actor : req[a].pc = "synced" => req[a].url \in Asked
  /\ \A c \in Conn : connections[c].status \in SERVING => connections[c].url \in Asked

LEMMA ServingStays ==
  ASSUME Typed, Typed', Grows, Moves, ServingInv, Remember
  PROVE  ServingInv' /\ Asked \subseteq Asked'
<1>1. /\ served \subseteq served' /\ tried \subseteq tried' /\ Asked \subseteq Asked'
      /\ \A c \in Conn' : Equipped(c)' => connections'[c].url \in served'
      /\ \A a \in Actor : req'[a].pc = "sync" => req'[a].url \in tried'
  BY DEF Remember, Asked, At
<1>2. ASSUME NEW a \in Actor, req'[a].pc = "synced"
      PROVE  req'[a].url \in Asked'
  <2>1. \/ req'[a] = req[a]
        \/ req[a].pc = "sync" /\ req'[a].url = req[a].url
    BY <1>2 DEF Moves, HandStep, Ends, Syncs, Looks, Lookup, Adds, Begins, Finds, Prepares,
                Late, Exchanges
  <2> QED BY <1>1, <1>2, <2>1 DEF ServingInv, Asked
<1>3. ASSUME NEW c \in Conn', connections'[c].status \in SERVING
      PROVE  connections'[c].url \in Asked'
  <2>1. CASE c \in Conn
    <3>1. connections'[c].url = connections[c].url
      BY <2>1 DEF Grows
    <3>2. StatusStep(c)
      BY <2>1 DEF Moves, RowStep
    <3>3. CASE connections'[c].status = connections[c].status
      BY <1>1, <1>3, <2>1, <3>1, <3>3 DEF ServingInv
    <3>4. CASE connections'[c].grant # None
      BY <1>1, <3>4 DEF Equipped, Asked
    <3>5. CASE \E a \in Actor : req[a].conn = c /\ req[a].pc = "synced"
      <4>1. PICK a \in Actor : req[a].conn = c /\ req[a].pc = "synced"
        BY <3>5
      <4>2. connections[c].url = req[a].url
        BY <4>1 DEF Typed, RequestsTyped, Holds, Syncing
      <4> QED BY <1>1, <3>1, <4>1, <4>2 DEF ServingInv
    <3>6. CASE \E a \in Actor : req'[a].conn = c /\ req'[a].pc = "sync"
      <4>1. PICK a \in Actor : req'[a].conn = c /\ req'[a].pc = "sync"
        BY <3>6
      <4>2. connections'[c].url = req'[a].url
        BY <4>1 DEF Typed, RequestsTyped, Holds, Syncing
      <4> QED BY <1>1, <4>1, <4>2 DEF Asked
    <3> QED BY <1>3, <3>2, <3>3, <3>4, <3>5, <3>6 DEF StatusStep
  <2>2. CASE c \notin Conn
    <3>1. connections'[c].url \notin Protected
      BY <1>3, <2>2 DEF Moves, NewRow
    <3> QED BY <1>1, <3>1 DEF Equipped, Asked
  <2> QED BY <2>1, <2>2
<1> QED BY <1>1, <1>2, <1>3 DEF ServingInv

PruneInv == ServingInv /\ Keeping(Asked)

LEMMA PruneStays ==
  ASSUME CliTyped, Typed, Typed', Grows, [Next]_vars, PruneInv
  PROVE  PruneInv'
<1>1. CASE UNCHANGED vars
  BY <1>1 DEF vars, PruneInv, ServingInv, Keeping, Asked, Equipped, Conn
<1>2. CASE Remember
  <2>1. ServingInv' /\ Asked \subseteq Asked'
    BY <1>2, ServingStays, NextMoves DEF PruneInv
  <2>2. PICK S : S = Asked
    OBVIOUS
  <2>3. Keeping(S)
    BY <2>2 DEF PruneInv
  <2>4. ServingUrls \subseteq S
    BY <2>2 DEF PruneInv, ServingInv, ServingUrls, ConnectionsOf
  <2>5. Keeping(S)'
    <3>1. CASE GatewaySide
      BY <2>3, <3>1 DEF GatewaySide, Keeping
    <3> QED BY <2>3, <2>4, <3>1, CommandKeeps, EitherSide
  <2>6. PICK T : T = Asked'
    OBVIOUS
  <2>7. \A f, x : KeepsTo(f, x, S) => KeepsTo(f, x, T)
    BY <2>1, <2>2, <2>6 DEF KeepsTo
  <2>8. Keeping(T)'
    BY <2>1, <2>2, <2>5, <2>6, <2>7 DEF Keeping, AllKeepTo
  <2>9. Keeping(Asked)'
    BY <2>6, <2>8 DEF Keeping
  <2> QED BY <2>1, <2>9 DEF PruneInv
<1> QED BY <1>1, <1>2, Remembered

\* Whatever is missing from a file was served by the gateway, or its catalogue
\* was asked for, before prune took it out, also after rollbacks and
\* interrupted commands (plan.ts, commands.ts:35).
THEOREM PrunedAfterAsked == Spec => []PrunedWasAskedFor
<1>1. Init => PruneInv
  <2> SUFFICES ASSUME Init PROVE PruneInv
    OBVIOUS
  <2>1. Conn = {} /\ \A a \in Actor : req[a].pc = "idle"
    BY DEF Init, OnboardingInit, Conn, Idle
  <2>2. cli = NoCommand /\ backups = <<>> /\ files = Served0
    BY DEF Init, MigrationInit
  <2>3. \A f \in File : KeepsTo(f, files[f], Asked)
    BY <2>2 DEF KeepsTo
  <2>4. AllKeepTo(<<>>, Asked)
    BY DEF AllKeepTo, Range
  <2> QED BY <2>1, <2>2, <2>3, <2>4 DEF PruneInv, ServingInv, Keeping, NoCommand
<1>2. CliInv /\ Typed /\ PruneInv /\ [Next]_vars => PruneInv'
  <2> SUFFICES ASSUME CliInv, Typed, PruneInv, [Next]_vars PROVE PruneInv'
    OBVIOUS
  <2>1. Typed' /\ Grows /\ CliTyped
    BY NextTyped DEF CliInv
  <2> QED BY <2>1, PruneStays
<1>3. PruneInv => PrunedWasAskedFor
  <2> SUFFICES ASSUME PruneInv, NEW f \in File, Readable(f), Served0[f] # Absent,
                      NEW n \in DOMAIN Served0[f] \ DOMAIN files[f]
               PROVE  Canonical[Served0[f][n]] \in Asked
    BY DEF PrunedWasAskedFor, Pruned, Asked
  <2>1. KeepsTo(f, files[f], Asked)
    BY DEF PruneInv, Keeping
  <2>2. Served0[f] # Unreadable
    BY <2>1 DEF KeepsTo, Readable
  <2>3. Served0[f] \in Configuration
    BY <2>2, MigrationAssumption DEF Configuration
  <2> QED BY <2>1, <2>3 DEF KeepsTo
<1> QED BY AlwaysTyped, <1>1, <1>2, <1>3, PTL DEF Spec

(***************************************************************************)
(* Whose clients and grants a connection holds                             *)
(***************************************************************************)

\* The first server a URL names: the only one until the resource moves.
First(u) == lists[u][1]

\* Until a resource moves, a connection, what it holds and what a request knows
\* of it are of the first server named.
FirstOnly(c) ==
  LET i == First(connections[c].url)
  IN  /\ connections[c].issuer \in {None, i} /\ connections[c].grant \in {None, i}
      /\ connections[c].grant # None => connections[c].issuer # None
      /\ connections[c].reg # None => registrations[connections[c].reg].issuer = i
FirstKnown(r) ==
  /\ r.pc \in Lookup => r.found \in {NoServer, None, First(r.url)}
  /\ r.pc \in Preparing \cup Exchanging =>
       /\ r.seen.issuer \in {None, First(r.url)} /\ r.seen.selected \in {None, First(r.url)}
       /\ r.seen.reg # None => registrations[r.seen.reg].issuer = First(r.url)
  /\ r.pc \in Preparing \ {"discover"} => r.issuer = First(r.url)
  /\ r.pc # "clear"
UnmovedInv ==
  /\ \A u \in Url \ moved : servers[u] \in {NoServer, None, First(u)}
  /\ \A c \in Conn : connections[c].url \in moved \/ FirstOnly(c)
  /\ \A a \in Actor : req[a].url \in moved \/ FirstKnown(req[a])

\* What does not move keeps its list, and its clients their servers.
Stays(u) == lists'[u] = lists[u]
LEMMA UnmovedServers ==
  ASSUME Typed, Moves, UnmovedInv, NEW u \in Url, u \notin moved, Stays(u)
  PROVE  servers'[u] \in {NoServer, None, First(u)'}
<1>1. First(u)' = First(u) /\ servers[u] \in {NoServer, None, First(u)} /\ ServerStep(u)
  BY DEF Stays, First, UnmovedInv, Moves
<1>2. CASE \E a \in Actor : /\ req[a].pc = "select" /\ req[a].url = u
                            /\ servers'[u] = req[a].issuer
  <2>1. PICK a \in Actor : /\ req[a].pc = "select" /\ req[a].url = u
                           /\ servers'[u] = req[a].issuer
    BY <1>2
  <2>2. FirstKnown(req[a])
    BY <2>1 DEF UnmovedInv
  <2>3. req[a].issuer = First(u)
    BY <2>1, <2>2 DEF FirstKnown, Preparing
  <2> QED BY <1>1, <2>1, <2>3
<1> QED BY <1>1, <1>2 DEF ServerStep

LEMMA UnmovedConnections ==
  ASSUME Typed, Typed', Grows, Moves, UnmovedInv,
         NEW c \in Conn', connections'[c].url \notin moved, Stays(connections'[c].url)
  PROVE  FirstOnly(c)'
<1>0. PICK u, i : u = connections'[c].url /\ i = lists[u][1]
  OBVIOUS
<1>1. CASE c \notin Conn
  BY <1>1 DEF Moves, NewRow, FirstOnly
<1>2. CASE c \in Conn
  <2>1. /\ u = connections[c].url /\ RowStep(c) /\ FirstOnly(c) /\ lists'[u][1] = i
        /\ connections[c].reg \in DOMAIN registrations \cup {None}
    BY <1>0, <1>2, RowsAre DEF Grows, Moves, UnmovedInv, Stays, Typed
  <2>2. u \in Url /\ i \in Issuer
    <3>1. connections'[c] \in ConnectionRow
      BY DEF Typed, TablesTyped, Conn
    <3>2. lists[u] \in Seq(Issuer) /\ lists[u] # <<>> /\ u \in Url
      BY <1>0, <3>1 DEF ConnectionRow, Typed, TablesTyped, Lists
    <3> QED BY <1>0, <3>2
  <2>3. \A k \in DOMAIN registrations : registrations'[k].issuer = registrations[k].issuer
    BY DEF Grows
  <2>4. /\ connections[c].issuer \in {None, i} /\ connections[c].grant \in {None, i}
        /\ connections[c].grant # None => connections[c].issuer # None
        /\ connections[c].reg # None => registrations[connections[c].reg].issuer = i
    BY <1>0, <2>1 DEF FirstOnly, First
  <2> SUFFICES /\ connections'[c].issuer \in {None, i} /\ connections'[c].grant \in {None, i}
               /\ connections'[c].grant # None => connections'[c].issuer # None
               /\ connections'[c].reg # None => registrations'[connections'[c].reg].issuer = i
    BY <1>0, <2>1 DEF FirstOnly, First
  <2>5. CASE SameRow(connections[c], connections'[c])
    BY <2>1, <2>3, <2>4, <2>5 DEF SameRow
  <2>6. ASSUME NEW a \in Actor, req[a].conn = c,
               Written(req[a], req'[a].pc, connections[c], connections'[c])
        PROVE  /\ connections'[c].issuer \in {None, i} /\ connections'[c].grant \in {None, i}
               /\ connections'[c].grant # None => connections'[c].issuer # None
               /\ connections'[c].reg # None => registrations'[connections'[c].reg].issuer = i
    <3>1. req[a].pc \in {"clear", "needed", "bind", "store", "rebind"}
      BY <2>6 DEF Written
    <3>2. Holds(req[a]) /\ req[a].url = u
      BY <2>1, <2>6, <3>1 DEF Typed, RequestsTyped, Holds, Preparing, Exchanging
    <3>3. FirstKnown(req[a])
      BY <1>0, <3>2 DEF UnmovedInv
    <3>4. i # None
      BY <2>2, OnboardingAssumption
    <3>5. CASE req[a].pc \in {"clear", "needed", "bind"}
      <4>1. req[a].pc # "clear" /\ req[a].issuer = i
        BY <1>0, <3>2, <3>3, <3>5 DEF FirstKnown, Preparing, First
      <4>2. CASE req[a].pc = "needed"
        BY <2>1, <2>3, <2>4, <2>6, <3>4, <4>1, <4>2 DEF Written
      <4>3. CASE req[a].pc = "bind"
        <5>1. req[a].reg \in DOMAIN registrations /\ registrations[req[a].reg].issuer = i
          BY <3>2, <4>1, <4>3 DEF Holds
        <5> QED BY <2>3, <2>4, <2>6, <3>4, <4>1, <4>3, <5>1 DEF Written
      <4> QED BY <3>5, <4>1, <4>2, <4>3
    <3>6. CASE req[a].pc \in {"store", "rebind"}
      <4>1. /\ req[a].seen.issuer = i /\ connections[c].issuer # None
        <5>1. req[a].seen.issuer \in {None, i} /\ req[a].seen.issuer # None
          BY <1>0, <3>2, <3>3, <3>6, OnboardingAssumption DEF FirstKnown, Exchanging, Holds, First
        <5> QED BY <2>6, <3>2, <3>6, <5>1 DEF Holds, Exchanging
      <4>2. CASE req[a].pc = "store"
        BY <2>1, <2>3, <2>4, <2>6, <4>1, <4>2 DEF Written
      <4>3. CASE req[a].pc = "rebind"
        <5>1. req[a].reg \in DOMAIN registrations /\ registrations[req[a].reg].issuer = i
          BY <3>2, <4>1, <4>3 DEF Holds
        <5> QED BY <2>3, <2>4, <2>6, <4>1, <4>3, <5>1 DEF Written
      <4> QED BY <3>6, <4>2, <4>3
    <3> QED BY <3>1, <3>5, <3>6
  <2> QED BY <2>1, <2>5, <2>6 DEF RowStep
<1> QED BY <1>1, <1>2

LEMMA UnmovedRequests ==
  ASSUME Typed, Typed', Grows, Moves, UnmovedInv,
         NEW a \in Actor, req'[a].url \notin moved, Stays(req'[a].url)
  PROVE  FirstKnown(req[a])'
<1>1. PICK r \in Request : r = req[a] /\ Holds(r)
  BY RequestIs
<1>2. PICK x \in Request : x = req'[a]
  BY DEF Typed
<1> DEFINE i == First(x.url)
<1>3. /\ First(x.url)' = i /\ x.url \notin moved
      /\ \A k \in DOMAIN registrations : registrations'[k].issuer = registrations[k].issuer
  BY <1>2 DEF Stays, First, Grows
<1>4. SUFFICES FirstKnown(x)'
  BY <1>2 DEF FirstKnown, First
<1>5. HandStep(r, x)
  BY <1>1, <1>2 DEF Moves
<1>6. x.url = r.url => FirstKnown(r)
  BY <1>1, <1>3 DEF UnmovedInv
<1>7. CASE Ends(x) \/ Syncs(r, x)
  BY <1>7 DEF Ends, Syncs, Syncing, FirstKnown, Lookup, Preparing, Exchanging
\* The hand it holds is the one it held.
<1>8. ASSUME SameHand(r, x), r.pc \in Preparing \cup Exchanging
      PROVE  /\ x.seen.issuer \in {None, i} /\ x.seen.selected \in {None, i}
             /\ x.seen.reg # None => registrations'[x.seen.reg].issuer = i
  <2>1. x.url = r.url /\ x.seen = r.seen /\ FirstKnown(r)
    BY <1>6, <1>8 DEF SameHand
  <2>2. r.seen.reg \in DOMAIN registrations \cup {None}
    BY <1>1, <1>8 DEF Holds
  <2> QED BY <1>3, <1>8, <2>1, <2>2 DEF FirstKnown
<1>9. CASE x = r
  <2>1. FirstKnown(r) /\ SameHand(r, x)
    BY <1>6, <1>9 DEF SameHand
  <2> QED BY <1>3, <1>8, <1>9, <2>1 DEF FirstKnown
<1>10. CASE Looks(r, x)
  <2>1. x.found \in {NoServer, None, i}
    <3>1. CASE r.pc = "find" /\ x.found = servers[r.url]
      <4>1. r.url \in Url /\ x.url = r.url
        BY <1>1, <1>10, <3>1 DEF Holds, Looks
      <4> QED BY <1>3, <3>1, <4>1 DEF UnmovedInv
    <3>2. CASE r.pc \in Lookup /\ x.found = r.found
      BY <1>6, <1>10, <3>2 DEF Looks, FirstKnown
    <3> QED BY <1>10, <3>1, <3>2 DEF Looks
  <2>2. x.pc \in Lookup
    BY <1>10 DEF Looks
  <2> QED BY <1>3, <2>1, <2>2 DEF FirstKnown, Lookup, Preparing, Exchanging
<1>11. CASE Adds(r, x)
  <2>1. r.found \in {NoServer, None, i}
    BY <1>6, <1>11 DEF Adds, FirstKnown, Lookup
  <2>2. x.seen.issuer = None /\ x.seen.reg = None /\ x.seen.selected \in {None, i}
    BY <1>11, <2>1 DEF Adds
  <2> QED BY <1>3, <1>11, <2>2 DEF Adds, FirstKnown, Lookup, Preparing, Exchanging
<1>12. CASE Begins(x)
  <2>1. /\ x.conn \in Conn /\ x.url = connections[x.conn].url /\ FirstOnly(x.conn)
        /\ connections[x.conn].reg \in DOMAIN registrations \cup {None}
        /\ servers[x.url] \in Issuer \cup {None} /\ x.url \in Url
    <3>1. x.conn \in Conn /\ x.url = connections[x.conn].url
      BY <1>12 DEF Begins
    <3> QED BY <1>3, <3>1, RowsAre, SnapshotTyped DEF UnmovedInv, Typed
  <2>2. servers[x.url] \in {None, i}
    BY <1>3, <2>1, OnboardingAssumption DEF UnmovedInv
  <2>3. /\ x.seen.issuer = connections[x.conn].issuer /\ x.seen.reg = connections[x.conn].reg
        /\ x.seen.selected = servers[x.url]
    BY <1>12, <2>1 DEF Begins, Snapshot
  <2>4. /\ x.seen.issuer \in {None, i} /\ x.seen.selected \in {None, i}
        /\ x.seen.reg # None => registrations'[x.seen.reg].issuer = i
    BY <1>3, <2>1, <2>2, <2>3 DEF FirstOnly
  <2> QED BY <1>3, <1>12, <2>4 DEF Begins, FirstKnown, Lookup, Preparing, Exchanging
<1>13. CASE Finds(r, x)
  <2>1. /\ r.pc = "discover" /\ SameHand(r, x) /\ x.url = r.url /\ x.seen = r.seen
        /\ x.pc \in {"select", "clear"} /\ r.url \in Url
    BY <1>1, <1>13 DEF Finds, SameHand, Holds
  <2>2. /\ x.seen.issuer \in {None, i} /\ x.seen.selected \in {None, i}
        /\ x.seen.reg # None => registrations'[x.seen.reg].issuer = i
    BY <1>8, <2>1 DEF Preparing
  <2>3. lists[r.url] \in Seq(Issuer)
    BY <2>1 DEF Typed, TablesTyped, Lists
  <2>4. None \notin Range(lists[r.url])
    BY <2>3, OnboardingAssumption DEF Range
  <2>5. x.issuer = i
    BY <1>13, <2>1, <2>2, <2>4 DEF Finds, First
  <2>6. x.pc = "select"
    BY <1>13, <2>1, <2>2, <2>5 DEF Finds
  <2> QED BY <1>3, <2>2, <2>5, <2>6 DEF FirstKnown, Lookup, Preparing, Exchanging
<1>14. CASE Prepares(r, x)
  <2>1. SameHand(r, x) /\ x.issuer = r.issuer /\ FirstKnown(r) /\ x.url = r.url
    BY <1>6, <1>14 DEF Prepares, SameHand
  <2>2. r.pc \in Preparing \ {"discover"} /\ x.pc \in Preparing \ {"clear", "discover"}
    BY <1>14 DEF Prepares, Late, Preparing
  <2>3. x.issuer = i
    BY <2>1, <2>2 DEF FirstKnown
  <2>4. /\ x.seen.issuer \in {None, i} /\ x.seen.selected \in {None, i}
        /\ x.seen.reg # None => registrations'[x.seen.reg].issuer = i
    BY <1>8, <2>1, <2>2
  <2> QED BY <1>3, <2>2, <2>3, <2>4 DEF FirstKnown, Lookup, Preparing, Exchanging
<1>15. CASE Exchanges(r, x)
  <2>1. SameHand(r, x) /\ r.pc \in Exchanging /\ x.pc \in Exchanging
    BY <1>15 DEF Exchanges, Exchanging
  <2>2. /\ x.seen.issuer \in {None, i} /\ x.seen.selected \in {None, i}
        /\ x.seen.reg # None => registrations'[x.seen.reg].issuer = i
    BY <1>8, <2>1
  <2> QED BY <1>3, <2>1, <2>2 DEF FirstKnown, Lookup, Preparing, Exchanging
<1> QED BY <1>5, <1>7, <1>9, <1>10, <1>11, <1>12, <1>13, <1>14, <1>15 DEF HandStep

LEMMA UnmovedStays ==
  ASSUME Typed, Typed', Grows, Moves, UnmovedInv, HistoryTyped, Remember
  PROVE  UnmovedInv'
<1>1. /\ moved \subseteq moved'
      /\ \A u \in Url \ moved' : Stays(u)
  BY DEF Remember, Stays
<1>2. \A u \in Url \ moved' : servers'[u] \in {NoServer, None, First(u)'}
  BY <1>1, UnmovedServers
<1>3. ASSUME NEW c \in Conn', connections'[c].url \notin moved' PROVE FirstOnly(c)'
  <2>1. connections'[c] \in ConnectionRow
    BY DEF Typed, TablesTyped, Conn
  <2>2. connections'[c].url \in Url
    BY <2>1 DEF ConnectionRow
  <2> QED BY <1>1, <1>3, <2>2, UnmovedConnections
<1>4. ASSUME NEW a \in Actor, req'[a].url \notin moved' PROVE FirstKnown(req[a])'
  <2>1. CASE req'[a].pc = "idle"
    BY <2>1 DEF FirstKnown, Lookup, Preparing, Exchanging
  <2>2. CASE req'[a].pc # "idle"
    <3>1. req'[a].url \in Url
      BY <2>2 DEF Typed, RequestsTyped, Holds
    <3> QED BY <1>1, <1>4, <3>1, UnmovedRequests
  <2> QED BY <2>1, <2>2
<1> QED BY <1>2, <1>3, <1>4 DEF UnmovedInv

\* A resource moves in a step of its own.
LEMMA ListsMove ==
  ASSUME [Next]_vars
  PROVE  UNCHANGED lists \/ UNCHANGED req
<1>1. CASE UNCHANGED vars
  BY <1>1 DEF vars
<1>2. CASE Progress
  <2>1. ASSUME NEW a \in Actor, RequestStep(a) PROVE UNCHANGED lists
    BY <2>1 DEF RequestStep, FindServer, InsertServer, ChooseAlias, InsertConnection, Discover,
       ClearGrant, SelectServer, ChooseStrategy, FindClient, RetireClient, AdoptClient,
       NeedCredentials, BindClient, OpenTransaction, PresentCode, StoreGrant, RefuseClient,
       ReplaceClient, Rebind, Activate, Contact, WriteStatus, WriteEnabled
  <2>2. UserStep => UNCHANGED lists
    BY DEF UserStep, Asks, Import, StartAuthorization, Callback, Expire
  <2> QED BY <1>2, <2>1, <2>2 DEF Progress, onVars
<1>3. CASE Event
  <2>1. PICK e \in mix.does : \/ Happens(e) \/ UNCHANGED onVars
                              \/ \E a \in Actor : Import(a, ImportItems)
    BY <1>3 DEF Event, ImportCommand
  <2>2. Happens(e) => UNCHANGED lists \/ UNCHANGED req
    BY DEF Happens, StartAuthorization, Import, Refresh, Takes, Disable, Enable, Move, Restart,
       Lapse, Configure, Mishap, ContactFails, Expire, onVars
  <2> QED BY <2>1, <2>2 DEF Import, onVars
<1> QED BY <1>1, <1>2, <1>3 DEF Next

\* The connections that are remembered as shared.
SharedInv ==
  /\ \A c \in Conn : Together(c) => c \in shared
  /\ \A c \in shared : Authorized(c)
  /\ \A c \in shared : connections[c].url \in moved => c \in crossed

LEMMA SharedStays ==
  ASSUME Remember
  PROVE  SharedInv'
BY DEF Remember, SharedInv, Together, Authorized

\* What a request that authorizes a connection alone knows of it.
Ready(r) ==
  /\ r.pc \in {"discover", "clear"} \cup Exchanging =>
       r.seen.issuer = connections[r.conn].issuer
  /\ r.pc \in {"discover", "clear"} => r.seen.version = connections[r.conn].version
  /\ r.pc \in Exchanging /\ r.seen.reg # None =>
       registrations[r.seen.reg].issuer = r.seen.issuer
  /\ r.pc \in Late =>
       \/ connections[r.conn].issuer \in {None, r.issuer}
       \/ connections[r.conn].reg = None /\ connections[r.conn].grant = None
AloneInv ==
  \A c \in Conn \ (shared \cup crossed) :
    Consistent(c) /\ \A a \in Actor : Authorizing(a, c) => Ready(req[a])

\* Of such a connection only that request writes the row.
LEMMA OneWriter ==
  ASSUME Typed, Moves, NEW c \in Conn, ~Together(c), NEW a \in Actor, Authorizing(a, c)
  PROVE  \/ SameRow(connections[c], connections'[c])
         \/ Written(req[a], req'[a].pc, connections[c], connections'[c])
<1>1. ASSUME NEW b \in Actor, req[b].conn = c,
             Written(req[b], req'[b].pc, connections[c], connections'[c])
      PROVE  b = a
  <2>1. Authorizing(b, c)
    BY <1>1 DEF Written, Authorizing, Preparing, Exchanging
  <2> QED BY <2>1 DEF Together
<1> QED BY <1>1 DEF Moves, RowStep

LEMMA ConsistentStays ==
  ASSUME Typed, Typed', Grows, Moves, NEW c \in Conn, Consistent(c),
         \A a \in Actor : Authorizing(a, c) => Ready(req[a])
  PROVE  Consistent(c)'
<1>1. /\ connections[c].reg \in DOMAIN registrations \cup {None}
      /\ connections[c].reg # None => connections[c].issuer # None
  BY RowsAre DEF Typed
<1>2. \A k \in DOMAIN registrations : registrations'[k].issuer = registrations[k].issuer
  BY DEF Grows
<1>3. CASE SameRow(connections[c], connections'[c])
  BY <1>1, <1>2, <1>3 DEF SameRow, Consistent
<1>4. ASSUME NEW a \in Actor, req[a].conn = c,
             Written(req[a], req'[a].pc, connections[c], connections'[c])
      PROVE  Consistent(c)'
  <2>1. PICK r : r = req[a]
    OBVIOUS
  <2>2. r.pc \in {"clear", "needed", "bind", "store", "rebind"}
    BY <1>4, <2>1 DEF Written
  <2>3. Holds(r) /\ Ready(r)
    <3>1. Authorizing(a, c)
      BY <1>4, <2>1, <2>2 DEF Authorizing, Preparing, Exchanging
    <3> QED BY <2>1, <3>1 DEF Typed, RequestsTyped
  <2>4. r.conn = c
    BY <1>4, <2>1
  <2>5. CASE r.pc \in {"needed", "bind"}
    <3>1. \/ connections[c].issuer = r.issuer
          \/ connections[c].reg = None /\ connections[c].grant = None
      BY <1>1, <2>3, <2>4, <2>5 DEF Ready, Late, Consistent
    <3>2. r.pc = "bind" => r.reg \in DOMAIN registrations /\ registrations[r.reg].issuer = r.issuer
      BY <2>3 DEF Holds
    <3> QED BY <1>1, <1>2, <1>4, <2>1, <2>5, <3>1, <3>2 DEF Written, Consistent
  <2>6. CASE r.pc \in {"store", "rebind"}
    <3>1. r.seen.issuer = connections[c].issuer
      BY <2>3, <2>4, <2>6 DEF Ready, Exchanging
    <3>2. r.pc = "rebind" =>
            r.reg \in DOMAIN registrations /\ registrations[r.reg].issuer = r.seen.issuer
      BY <2>3 DEF Holds
    <3> QED BY <1>1, <1>2, <1>4, <2>1, <2>6, <3>1, <3>2 DEF Written, Consistent
  <2>7. CASE r.pc = "clear"
    BY <1>4, <2>1, <2>7 DEF Written, Consistent
  <2> QED BY <2>2, <2>5, <2>6, <2>7
<1> QED BY <1>3, <1>4 DEF Moves, RowStep

LEMMA ReadyStays ==
  ASSUME Typed, Typed', Grows, Moves, NEW c \in Conn, ~Together(c), Consistent(c),
         \A b \in Actor : Authorizing(b, c) => Ready(req[b]),
         NEW a \in Actor, Authorizing(a, c)'
  PROVE  Ready(req[a])'
<1>1. PICK r \in Request : r = req[a] /\ Holds(r)
  BY RequestIs
<1>2. PICK x \in Request : x = req'[a]
  BY DEF Typed
<1>3. x.conn = c /\ x.pc \in Preparing \cup Exchanging
  BY <1>2 DEF Authorizing
<1>4. SUFFICES Ready(x)'
  BY <1>2 DEF Ready
<1>5. HandStep(r, x)
  BY <1>1, <1>2 DEF Moves
<1>6. \A k \in DOMAIN registrations : registrations'[k].issuer = registrations[k].issuer
  BY DEF Grows
<1>7. ASSUME r.conn = c, r.pc \in Preparing \cup Exchanging
      PROVE  /\ Ready(r)
             /\ \/ SameRow(connections[c], connections'[c])
                \/ Written(r, x.pc, connections[c], connections'[c])
  <2>1. Authorizing(a, c)
    BY <1>1, <1>7 DEF Authorizing
  <2> QED BY <1>1, <1>2, <2>1, OneWriter
<1>8. CASE x = r
  <2>1. Ready(r) /\ SameRow(connections[c], connections'[c])
    BY <1>3, <1>7, <1>8 DEF Written
  <2>2. r.pc \in Exchanging => r.seen.reg \in DOMAIN registrations \cup {None}
    BY <1>1 DEF Holds
  <2> QED BY <1>3, <1>6, <1>8, <2>1, <2>2 DEF SameRow, Ready
<1>9. CASE Ends(x) \/ Syncs(r, x) \/ Looks(r, x)
  BY <1>3, <1>9 DEF Ends, Syncs, Syncing, Looks, Lookup, Preparing, Exchanging
<1>10. CASE Adds(r, x)
  BY <1>3, <1>10 DEF Adds
<1>11. CASE Begins(x)
  <2>1. /\ x.pc \in {"discover", "present"} /\ connections'[c] = connections[c]
        /\ x.seen.issuer = connections[c].issuer /\ x.seen.version = connections[c].version
        /\ x.seen.reg = connections[c].reg
    BY <1>3, <1>11 DEF Begins, Snapshot
  <2>2. connections[c].reg \in DOMAIN registrations \cup {None}
    BY RowsAre DEF Typed
  <2> QED BY <1>3, <1>6, <2>1, <2>2 DEF Ready, Late, Exchanging, Consistent
<1>12. CASE Finds(r, x)
  <2>1. /\ r.pc = "discover" /\ r.conn = c /\ x.seen = r.seen /\ x.pc \in {"select", "clear"}
        /\ x.pc = "select" => r.seen.issuer \in {None, x.issuer}
    BY <1>3, <1>12 DEF Finds, SameHand
  <2>2. Ready(r) /\ SameRow(connections[c], connections'[c])
    BY <1>7, <2>1 DEF Preparing, Written
  <2> QED BY <1>3, <2>1, <2>2 DEF SameRow, Ready, Late, Exchanging
<1>13. CASE Prepares(r, x)
  <2>1. r.conn = c /\ x.issuer = r.issuer
    BY <1>3, <1>13 DEF Prepares, SameHand
  <2>2. CASE r.pc = "clear" /\ x.pc = "select"
    <3>1. connections'[c].reg = None /\ connections'[c].grant = None
      BY <1>1, <1>2, <2>1, <2>2 DEF Moves, Cleared
    <3> QED BY <1>3, <2>2, <3>1 DEF Ready, Late, Exchanging
  <2>3. CASE r.pc \in Late \ {"needed", "bind"} /\ x.pc \in Late
    <3>1. Ready(r) /\ SameRow(connections[c], connections'[c])
      BY <1>7, <2>1, <2>3 DEF Late, Preparing, Written
    <3> QED BY <1>3, <2>1, <2>3, <3>1 DEF SameRow, Ready, Late, Exchanging
  <2>4. CASE x.pc = "transaction"
    BY <2>4 DEF Ready, Late, Exchanging
  <2> QED BY <1>13, <2>2, <2>3, <2>4 DEF Prepares
<1>14. CASE Exchanges(r, x)
  <2>1. /\ r.conn = c /\ x.seen = r.seen /\ r.pc \in {"present", "refuse", "replace"}
        /\ x.pc \in {"store", "refuse", "replace", "rebind"}
    BY <1>3, <1>14 DEF Exchanges, SameHand
  <2>2. Ready(r) /\ SameRow(connections[c], connections'[c])
    BY <1>7, <2>1 DEF Exchanging, Written
  <2>3. r.seen.reg \in DOMAIN registrations \cup {None}
    BY <1>1, <2>1 DEF Holds, Exchanging
  <2> QED BY <1>3, <1>6, <2>1, <2>2, <2>3 DEF SameRow, Ready, Late, Exchanging
<1> QED BY <1>5, <1>8, <1>9, <1>10, <1>11, <1>12, <1>13, <1>14 DEF HandStep

\* A connection just added, and the request that added it.
LEMMA AddedIsReady ==
  ASSUME Typed, Moves, NEW c \in Conn' \ Conn
  PROVE  Consistent(c)' /\ \A a \in Actor : Authorizing(a, c)' => Ready(req[a])'
<1>1. NewRow(connections'[c])
  BY DEF Moves
<1>2. ASSUME NEW a \in Actor, Authorizing(a, c)' PROVE Ready(req[a])'
  <2>1. PICK r : r = req[a] /\ Holds(r)
    BY DEF Typed, RequestsTyped
  <2>2. PICK x : x = req'[a]
    OBVIOUS
  <2>3. x.conn = c /\ x.pc \in Preparing \cup Exchanging /\ HandStep(r, x)
    BY <1>2, <2>1, <2>2 DEF Authorizing, Moves
  <2>4. r.pc \in Preparing \cup Exchanging => r.conn \in Conn
    BY <2>1 DEF Holds
  <2>5. Adds(r, x)
    BY <2>3, <2>4 DEF HandStep, Ends, Syncs, Syncing, Looks, Lookup, Begins, Finds, Prepares,
       Late, Exchanges, SameHand, Preparing, Exchanging
  <2> QED BY <1>1, <2>2, <2>3, <2>5 DEF Adds, NewRow, Ready, Late, Exchanging
<1> QED BY <1>1, <1>2 DEF NewRow, Consistent

LEMMA AloneStays ==
  ASSUME Typed, Typed', Grows, [Next]_vars, Moves, Remember, SharedInv, UnmovedInv', AloneInv
  PROVE  AloneInv'
<1> SUFFICES ASSUME NEW c \in Conn', c \notin shared', c \notin crossed'
             PROVE  Consistent(c)' /\ \A a \in Actor : Authorizing(a, c)' => Ready(req[a])'
  BY DEF AloneInv
<1>1. CASE c \notin Conn
  BY <1>1, AddedIsReady
<1>2. c \notin crossed
  BY DEF Remember
<1>3. CASE c \in Conn \ shared
  <2>1. ~Together(c) /\ Consistent(c) /\ \A a \in Actor : Authorizing(a, c) => Ready(req[a])
    BY <1>2, <1>3 DEF AloneInv, SharedInv
  <2> QED BY <1>3, <2>1, ConsistentStays, ReadyStays
<1>4. CASE c \in Conn /\ c \in shared
  <2>1. ~Authorized(c)'
    BY <1>4 DEF Remember
  <2>2. UNCHANGED lists
    BY <1>4, <2>1, ListsMove DEF SharedInv, Authorized, Authorizing
  <2>3. connections'[c].url \notin moved'
    BY <1>2, <1>4, <2>2 DEF SharedInv, Remember, Grows
  <2>4. FirstOnly(c)'
    BY <2>3 DEF UnmovedInv
  <2>5. connections'[c].reg # None => connections'[c].issuer # None
    BY DEF Typed, TablesTyped
  <2>6. Consistent(c)'
    BY <2>4, <2>5 DEF FirstOnly, Consistent
  <2> QED BY <2>1, <2>6 DEF Authorized
<1> QED BY <1>1, <1>3, <1>4

HomeInv == UnmovedInv /\ SharedInv /\ AloneInv

LEMMA HomeStays ==
  ASSUME CliTyped, Typed, HistoryTyped, HomeInv, [Next]_vars
  PROVE  HomeInv'
<1>1. Typed' /\ Grows /\ Moves
  BY NextTyped, NextMoves
<1>2. CASE UNCHANGED vars
  BY <1>2 DEF vars, HomeInv, UnmovedInv, SharedInv, AloneInv, FirstOnly, FirstKnown, First,
     Together, Authorized, Authorizing, Ready, Consistent, Conn
<1>3. CASE Remember
  <2>1. UnmovedInv'
    BY <1>1, <1>3, UnmovedStays DEF HomeInv
  <2>2. SharedInv'
    BY <1>3, SharedStays
  <2>3. AloneInv'
    BY <1>1, <1>3, <2>1, AloneStays DEF HomeInv
  <2> QED BY <2>1, <2>2, <2>3 DEF HomeInv
<1> QED BY <1>2, <1>3, Remembered

LEMMA InitHome == Init => HomeInv
<1> SUFFICES ASSUME Init PROVE HomeInv
  OBVIOUS
<1>1. /\ Conn = {} /\ shared = {} /\ servers = [u \in Url |-> NoServer]
      /\ \A a \in Actor : req[a].pc = "idle"
  BY DEF Init, OnboardingInit, Conn, Idle
<1> QED BY <1>1 DEF HomeInv, UnmovedInv, SharedInv, AloneInv, FirstKnown, Lookup, Preparing, Exchanging

LEMMA AlwaysHome == Spec => []HomeInv
<1>1. CliInv /\ Typed /\ HistoryTyped /\ HomeInv /\ [Next]_vars => HomeInv'
  BY HomeStays DEF CliInv
<1> QED BY AlwaysTyped, InitHome, <1>1, PTL DEF Spec

\* Credentials are bound to the issuer (connection-service.ts:292): however
\* requests interleave, fail and resume, and however often a resource moves, what
\* a connection holds is of the server it names and its client is presented to no
\* other, except in a connection that two requests authorized when its resource
\* had moved, where the code does not keep this.
THEOREM CredentialsStayHome == Spec => []ClientsStayHome
<1>1. Typed /\ HomeInv => ClientsStayHome
  <2> SUFFICES ASSUME Typed, HomeInv PROVE ClientsStayHome
    OBVIOUS
  <2>1. \A a \in Actor :
          At(a, "transaction") => registrations[req[a].reg].issuer = req[a].issuer
    BY DEF Typed, RequestsTyped, Holds, At
  <2>2. ASSUME NEW c \in Conn, c \notin crossed
        PROVE  /\ Consistent(c)
               /\ \A a \in Actor :
                    At(a, "present") /\ req[a].conn = c /\ req[a].seen.reg # None =>
                      registrations[req[a].seen.reg].issuer = req[a].seen.issuer
    <3>1. CASE c \notin shared
      BY <2>2, <3>1 DEF HomeInv, AloneInv, Authorizing, At, Ready, Exchanging
    <3>2. CASE c \in shared
      <4>1. connections[c].url \notin moved /\ FirstOnly(c)
        BY <2>2, <3>2 DEF HomeInv, SharedInv, UnmovedInv
      <4>2. connections[c].reg # None => connections[c].issuer # None
        BY DEF Typed, TablesTyped
      <4>3. ASSUME NEW a \in Actor, At(a, "present"), req[a].conn = c, req[a].seen.reg # None
            PROVE  registrations[req[a].seen.reg].issuer = req[a].seen.issuer
        <5>1. req[a].url = connections[c].url /\ req[a].seen.issuer # None
          BY <4>3 DEF Typed, RequestsTyped, Holds, At, Exchanging
        <5>2. FirstKnown(req[a])
          BY <4>1, <5>1 DEF HomeInv, UnmovedInv
        <5> QED BY <4>3, <5>1, <5>2 DEF FirstKnown, At, Exchanging
      <4> QED BY <4>1, <4>2, <4>3 DEF FirstOnly, Consistent
    <3> QED BY <3>1, <3>2
  <2> QED BY <2>1, <2>2 DEF ClientsStayHome
<1> QED BY AlwaysTyped, AlwaysHome, <1>1, PTL
-----------------------------------------------------------------------------
(***************************************************************************)
(* Rows move on: what the compare-and-swap of persistTokens rests on       *)
(***************************************************************************)

\* A connection keeps its URL and alias, and names a server once it has named one.
Onward(x, y) ==
  /\ y.url = x.url /\ y.alias = x.alias
  /\ x.issuer # None => y.issuer # None
\* Its version counts the grants it was given or lost: as long as the version
\* stands nobody has changed the grant.
Counted(x, y) ==
  \/ y.version = x.version + 1
  \/ y.version = x.version /\ y.grant = x.grant

\* A client keeps everything but its status, and never comes back to ACTIVE.
OnlyRetires(x, y) ==
  /\ y = [x EXCEPT !.status = y.status]
  /\ x.status # "ACTIVE" => y.status # "ACTIVE"

ClientsMoveOn ==
  \A k \in DOMAIN registrations :
    k \in DOMAIN registrations' /\ OnlyRetires(registrations[k], registrations'[k])
ConnectionsMoveOn ==
  \A c \in Conn :
    /\ c \in Conn' /\ Onward(connections[c], connections'[c])
    /\ c \in crossed \/ Counted(connections[c], connections'[c])
RowsMoveOn == ClientsMoveOn /\ ConnectionsMoveOn

LEMMA RowRests ==
  ASSUME Typed
  PROVE  \A k \in DOMAIN registrations : OnlyRetires(registrations[k], registrations[k])
<1>1. \A x \in Row : OnlyRetires(x, x)
  BY DEF OnlyRetires, Row
<1>2. \A k \in DOMAIN registrations : registrations[k] \in Row
  BY DEF Typed, TablesTyped
<1> QED BY <1>1, <1>2

LEMMA ClientsRest ==
  ASSUME Typed, UNCHANGED registrations
  PROVE  ClientsMoveOn
BY RowRests DEF ClientsMoveOn

LEMMA ClientRetires ==
  ASSUME Typed, NEW k \in DOMAIN registrations, NEW s \in {"INVALID", "REFUSED"},
         registrations' = [registrations EXCEPT ![k].status = s]
  PROVE  ClientsMoveOn
<1>1. registrations \in Seq(Row) /\ registrations[k] \in Row
  BY DEF Typed, TablesTyped
<1>2. PICK row : row = [registrations[k] EXCEPT !.status = s]
  OBVIOUS
<1>3. OnlyRetires(registrations[k], row)
  BY <1>1, <1>2 DEF OnlyRetires, Row
<1>4. /\ DOMAIN registrations' = DOMAIN registrations /\ registrations'[k] = row
      /\ \A j \in DOMAIN registrations : j # k => registrations'[j] = registrations[j]
  BY <1>1, <1>2
<1> QED BY <1>3, <1>4, RowRests DEF ClientsMoveOn

LEMMA ClientAdded ==
  ASSUME Typed, NEW row, registrations' = Append(registrations, row)
  PROVE  ClientsMoveOn
<1>1. registrations \in Seq(Row)
  BY DEF Typed, TablesTyped
<1>2. PICK n \in Nat : n = Len(registrations)
  BY <1>1
<1>3. /\ DOMAIN registrations = 1..n /\ DOMAIN registrations' = 1..(n + 1)
      /\ \A j \in 1..n : registrations'[j] = registrations[j]
  BY <1>1, <1>2
<1> QED BY <1>3, RowRests DEF ClientsMoveOn

\* The steps that write clients: a row found ACTIVE is retired whatever it has
\* become, so one that was refused meanwhile becomes INVALID, never ACTIVE.
LEMMA ClientsStep ==
  ASSUME Typed, NEW a \in Actor, RequestStep(a)
  PROVE  ClientsMoveOn
<1>1. PICK r \in Request : r = req[a] /\ Holds(r)
  BY RequestIs
<1>2. CASE RetireClient(a)
  <2>1. /\ r.reg \in DOMAIN registrations
        /\ registrations' = [registrations EXCEPT ![r.reg].status = "INVALID"]
    BY <1>1, <1>2 DEF RetireClient, Retire, At, Holds
  <2> QED BY <2>1, ClientRetires
<1>3. CASE AdoptClient(a) \/ ReplaceClient(a)
  <2>1. \E row : registrations' = Append(registrations, row)
    BY <1>3 DEF AdoptClient, ReplaceClient, Adopt, AddRow
  <2> QED BY <2>1, ClientAdded
<1>4. CASE RefuseClient(a)
  <2>1. /\ r.seen.reg \in DOMAIN registrations
        /\ registrations' = [registrations EXCEPT ![r.seen.reg].status = "REFUSED"]
    BY <1>1, <1>4 DEF RefuseClient, Refuse, At, Holds, Exchanging
  <2> QED BY <2>1, ClientRetires
<1>5. CASE UNCHANGED registrations
  BY <1>5, ClientsRest
<1> QED BY <1>2, <1>3, <1>4, <1>5
    DEF RequestStep, FindServer, InsertServer, ChooseAlias, InsertConnection, Discover,
        ClearGrant, SelectServer, ChooseStrategy, FindClient, NeedCredentials, BindClient,
        OpenTransaction, PresentCode, StoreGrant, Rebind, Activate, Contact, WriteStatus,
        WriteEnabled, regVars

LEMMA ClientsNext ==
  ASSUME Typed, [Next]_vars
  PROVE  ClientsMoveOn
<1>1. CASE UNCHANGED registrations
  BY <1>1, ClientsRest
<1>2. CASE \E a \in Actor : RequestStep(a)
  BY <1>2, ClientsStep
<1>3. CASE Progress
  BY <1>1, <1>2, <1>3
     DEF Progress, UserStep, Asks, Import, StartAuthorization, Callback, Expire, Configure, regVars
<1>4. CASE Event
  <2>1. PICK e \in mix.does :
          \/ Happens(e) \/ UNCHANGED regVars
          \/ \E a \in Actor : Import(a, ImportItems)
    BY <1>4 DEF Event, ImportCommand
  <2>2. Happens(e) => UNCHANGED registrations
    BY DEF Happens, StartAuthorization, Import, Refresh, Takes, Disable, Enable, Move, Restart,
       Lapse, Configure, Mishap, ContactFails, Expire, regVars
  <2> QED BY <1>1, <2>1, <2>2 DEF Import, regVars
<1> QED BY <1>1, <1>3, <1>4 DEF Next, vars

\* A request about to clear a connection has read it as it is, or it shares a
\* connection whose resource has moved.
LEMMA ClearsWhatItRead ==
  ASSUME Typed, HomeInv, NEW a \in Actor, NEW c \in Conn, c \notin crossed,
         req[a].pc = "clear", req[a].conn = c
  PROVE  req[a].seen.version = connections[c].version
<1>1. Authorizing(a, c) /\ req[a].url = connections[c].url
  BY DEF Authorizing, Preparing, Typed, RequestsTyped, Holds
<1>2. CASE c \in shared
  <2>1. connections[c].url \notin moved
    BY <1>2 DEF HomeInv, SharedInv
  <2> QED BY <1>1, <2>1 DEF HomeInv, UnmovedInv, FirstKnown
<1>3. CASE c \notin shared
  <2>1. Ready(req[a])
    BY <1>1, <1>3 DEF HomeInv, AloneInv
  <2> QED BY <2>1 DEF Ready
<1> QED BY <1>2, <1>3

LEMMA ConnectionsNext ==
  ASSUME Typed, Typed', Grows, Moves, HomeInv
  PROVE  ConnectionsMoveOn
<1> SUFFICES ASSUME NEW c \in Conn
             PROVE  /\ c \in Conn' /\ Onward(connections[c], connections'[c])
                    /\ c \in crossed \/ Counted(connections[c], connections'[c])
  BY DEF ConnectionsMoveOn
<1>1. c \in Conn' /\ RowStep(c)
  BY DEF Grows, Moves, Conn
<1>2. CASE SameRow(connections[c], connections'[c])
  BY <1>1, <1>2 DEF SameRow, Onward, Counted
<1>3. ASSUME NEW a \in Actor, req[a].conn = c,
             Written(req[a], req'[a].pc, connections[c], connections'[c])
      PROVE  /\ Onward(connections[c], connections'[c])
             /\ c \in crossed \/ Counted(connections[c], connections'[c])
  <2>1. PICK r \in Request : r = req[a] /\ Holds(r)
    BY RequestIs
  <2>2. CASE r.pc = "clear"
    <3>1. c \in crossed \/ r.seen.version = connections[c].version
      BY <1>3, <2>1, <2>2, ClearsWhatItRead
    <3> QED BY <1>3, <2>1, <2>2, <3>1 DEF Written, Onward, Counted
  <2>3. CASE r.pc \in {"needed", "bind"}
    <3>1. r.issuer # None
      BY <2>1, <2>3, OnboardingAssumption DEF Holds, Preparing
    <3> QED BY <1>3, <2>1, <2>3, <3>1 DEF Written, Onward, Counted
  <2>4. CASE r.pc \in {"store", "rebind"}
    BY <1>3, <2>1, <2>4 DEF Written, Onward, Counted
  <2> QED BY <1>3, <2>1, <2>2, <2>3, <2>4 DEF Written
<1> QED BY <1>1, <1>2, <1>3 DEF RowStep

\* Rows only move on.  A client is never brought back nor changed, so what a
\* connection refers to stays what it was registered as; a connection whose version
\* is unchanged holds the grant it held, which is what the compare-and-swap of
\* persistTokens relies on (registration.ts, connection-service.ts, token-manager.ts).
\* prepareAuthorization counts on from the version it read, without comparing: that
\* is exact as long as no two requests authorize the connection once its resource
\* has moved, and a crossed connection may lose a grant at an unchanged version.
THEOREM RowsOnlyMoveOn == Spec => [][RowsMoveOn]_vars
<1>1. CliTyped /\ Typed /\ HomeInv /\ [Next]_vars => [RowsMoveOn]_vars
  <2> SUFFICES ASSUME CliTyped, Typed, HomeInv, [Next]_vars PROVE RowsMoveOn
    OBVIOUS
  <2>1. Typed' /\ Grows /\ Moves
    BY NextTyped, NextMoves
  <2> QED BY <2>1, ClientsNext, ConnectionsNext DEF RowsMoveOn
<1>2. CliInv => CliTyped
  BY DEF CliInv
<1> QED BY AlwaysTyped, AlwaysHome, <1>1, <1>2, PTL DEF Spec
=============================================================================
