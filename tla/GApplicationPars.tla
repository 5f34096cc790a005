--------------------------- MODULE GApplicationPars ---------------------------
(***************************************************************************)
(* The parameters of applications (src/src/app/GApplicationPars.cpp) and   *)
(* the parameter file they share.  An application keeps its parameters,    *)
(* the lines of the file it has read, and for each parameter the number of *)
(* its line and the place of the value in it, so that a value is replaced  *)
(* in the line when the parameters are saved.  The file is read and        *)
(* written under the locks of fcntl(), except where it is created.         *)
(*                                                                         *)
(* insert() writes the line of another parameter, load() keeps the old     *)
(* parameters with their line numbers, and what it could not parse it      *)
(* keeps in part: sound becomes FALSE with them.                           *)
(***************************************************************************)
EXTENDS Integers, Sequences, SequencesExt, FiniteSets

CONSTANTS
    Apps,          \* the applications
    Names,         \* names of parameters
    Values,        \* values of parameters
    Lists,         \* values with commas, which need quotes in a line
    AutoMode,      \* the mode that stands for "a": value of parameter "mode"
    MaxLines,      \* bound: lines of a file
    Settings       \* the circumstances to consider

Methods == {"load", "save", "append", "insert", "remove", "value", "query", "clear"}

(* "q" and "h" are the same, as the constructor of a parameter knows its   *)
(* value and asks no more; so are "ql", "lq" and "hl", "lh".               *)
Modes == {"h", "hl", "ql", "a"}

Comment == "#"

(* A line of the file, which stands for a parameter or is a comment.  It   *)
(* is intact as long as its seven fields can be told apart.                *)
Line == [name : Names \cup {Comment}, mode : Modes, value : Values,
         quoted : BOOLEAN, indented : BOOLEAN, intact : BOOLEAN]

Setting == [users     : SUBSET Apps,     \* applications that call something
            methods   : SUBSET Methods,  \* what they call
            max_calls : Nat,             \* bound: number of calls
            system    : Seq(Line),       \* the file that comes with the tool
            present   : BOOLEAN]         \* the user has a copy of it

ASSUME ConstantAssumption ==
    /\ Comment \notin Names /\ Lists \subseteq Values /\ AutoMode \in Modes \ {"a"}
    /\ MaxLines \in Nat
    /\ \A s \in Settings : s \in Setting

VARIABLES
    setting,       \* the circumstances, which do not change
    file,          \* the parameter file of the user
    content,       \* history: what was last written to it in whole
    lock,          \* the lock each application holds on it
    pc,            \* where each application is
    m_pars,        \* per application, its parameters: name, mode, value, update,
    m_parfile,     \*   the lines,
    m_line,        \*   the line of each parameter,
    m_vstop,       \*   and what it takes for the end of the value:
                   \*   the comma behind it, or the minimum
    sound,         \* nothing was inserted, loaded twice or in part
    calls          \* number of calls

container == <<m_pars, m_parfile, m_line, m_vstop, sound>>
shared == <<file, content, lock>>
vars == <<setting, shared, pc, container, calls>>

Init ==
    /\ setting \in Settings
    /\ file = [exists |-> setting.present,
               lines |-> IF setting.present THEN setting.system ELSE <<>>]
    /\ content = setting.system
    /\ lock = [p \in Apps |-> "none"]
    /\ pc = [p \in Apps |-> "idle"]
    /\ m_pars = [p \in Apps |-> <<>>]
    /\ m_parfile = [p \in Apps |-> <<>>]
    /\ m_line = [p \in Apps |-> <<>>]
    /\ m_vstop = [p \in Apps |-> <<>>]
    /\ sound = [p \in Apps |-> TRUE]
    /\ calls = 0

-----------------------------------------------------------------------------
(* Parameters: GApplicationPar                                             *)

IsLearn(par) == par.mode \in {"hl", "ql"}
IsQuery(par) == par.mode = "ql"

StopQuery(mode) == IF mode = "ql" THEN "hl" ELSE mode

SetValue(par, v) ==
    [par EXCEPT !.value = v, !.update = TRUE, !.mode = StopQuery(@)]

Construct(name, mode, v) ==
    [name |-> name, mode |-> StopQuery(mode), value |-> v, update |-> TRUE]

(* value() asks the user for a parameter that is to be queried; an empty   *)
(* answer keeps the value.                                                 *)
NoAnswer == "none"

Queried(par, answer) ==
    IF ~IsQuery(par) THEN par
    ELSE IF answer = NoAnswer THEN [par EXCEPT !.mode = StopQuery(@)]
    ELSE SetValue(par, answer)

-----------------------------------------------------------------------------
(* Lines: parline(), parse(), update()                                     *)

(* parline() puts no quotes, and places the end of the value behind the    *)
(* comma that follows it.                                                  *)
ParLine(par, answer) ==
    [name |-> par.name, mode |-> par.mode, value |-> Queried(par, answer).value,
     quoted |-> FALSE, indented |-> FALSE, intact |-> TRUE]

ParStop == "min"

(* A line that parse() takes has seven fields.                             *)
Parses(l) == l.intact /\ (l.value \in Lists => l.quoted)

NameIn(pars, name) == \E i \in DOMAIN pars : pars[i].name = name

(* The first line that makes parse() throw, if any: it has other fields,   *)
(* or the name of another parameter.                                       *)
Refused(pars, lines) ==
    {k \in DOMAIN lines :
        /\ lines[k].name # Comment
        /\ \/ ~Parses(lines[k])
           \/ NameIn(pars, lines[k].name)
           \/ \E j \in 1..(k - 1) : lines[j].name = lines[k].name}

Throws(pars, lines) == Refused(pars, lines) # {}

(* The numbers of the lines whose parameters are added, in their order.     *)
Taken(pars, lines) ==
    LET taken == {k \in DOMAIN lines :
                    /\ lines[k].name # Comment
                    /\ \A j \in Refused(pars, lines) : k < j}
    IN  CHOOSE number \in [1..Cardinality(taken) -> taken] :
            \A i, j \in DOMAIN number : i < j => number[i] < number[j]

Resolved(par) == [par EXCEPT !.mode = IF @ = "a" THEN AutoMode ELSE @]

Parsed(pars, lines) ==
    LET taken == Taken(pars, lines)
        all   == pars \o [i \in DOMAIN taken |->
                    Construct(lines[taken[i]].name, lines[taken[i]].mode,
                              lines[taken[i]].value)]
    IN  IF Throws(pars, lines) THEN all
        ELSE [i \in DOMAIN all |-> Resolved(all[i])]

(* A value is written without quotes.  The positions are those of a line   *)
(* without leading blanks.                                                 *)
Written(line, stop, v) ==
    [line EXCEPT !.value = v, !.quoted = FALSE,
                 !.intact = @ /\ stop = "comma" /\ ~line.indented]

MutantUpdatesHidden(par) == par.update /\ ~IsLearn(par)

Updates(par) == par.update /\ IsLearn(par)

(* The parameters of a line that are written into it: only insert() makes  *)
(* two of them share a line.                                               *)
Writers(p, k) == {i \in DOMAIN m_pars[p] : m_line[p][i] = k /\ Updates(m_pars[p][i])}

Updated(p) ==
    [k \in DOMAIN m_parfile[p] |->
        IF Writers(p, k) = {} THEN m_parfile[p][k]
        ELSE Written(m_parfile[p][k],
                     IF \E i \in Writers(p, k) : m_vstop[p][i] = ParStop
                     THEN ParStop ELSE "comma",
                     m_pars[p][Max(Writers(p, k))].value)]

-----------------------------------------------------------------------------
(* Calls of an application                                                 *)

Call(p, method) ==
    /\ pc[p] = "idle"
    /\ p \in setting.users /\ method \in setting.methods
    /\ calls < setting.max_calls
    /\ calls' = calls + 1
    /\ UNCHANGED setting

Store(p, pars, lines, number, stop) ==
    /\ m_pars' = [m_pars EXCEPT ![p] = pars]
    /\ m_parfile' = [m_parfile EXCEPT ![p] = lines]
    /\ m_line' = [m_line EXCEPT ![p] = number]
    /\ m_vstop' = [m_vstop EXCEPT ![p] = stop]

(* append(), and extend() and append_standard(), which call it.            *)
AppendPar(p, par) ==
    /\ Call(p, "append")
    /\ ~NameIn(m_pars[p], par.name) /\ Len(m_parfile[p]) < MaxLines
    /\ Store(p, Append(m_pars[p], par),
                Append(m_parfile[p], ParLine(par, NoAnswer)),
                Append(m_line[p], Len(m_parfile[p]) + 1),
                Append(m_vstop[p], ParStop))
    /\ UNCHANGED <<shared, pc, sound>>

(* insert() builds the line of the last parameter, which may be queried    *)
(* for it, and puts it where the new one should be.  There must be a       *)
(* parameter in the container.                                             *)
Insert(p, index, par, answer) ==
    LET pars == InsertAt(m_pars[p], index, par)
        last == Len(pars)
        at   == m_line[p][index]
        number == InsertAt(m_line[p], index, at)
    IN  /\ Call(p, "insert")
        /\ ~NameIn(m_pars[p], par.name) /\ Len(m_parfile[p]) < MaxLines
        /\ at \in 1..(Len(m_parfile[p]) + 1)
        /\ Store(p, [pars EXCEPT ![last] = Queried(@, answer)],
                    InsertAt(m_parfile[p], at, ParLine(pars[last], answer)),
                    [i \in DOMAIN number |->
                        IF i > index THEN number[i] + 1 ELSE number[i]],
                    InsertAt(m_vstop[p], index, ParStop))
        /\ sound' = [sound EXCEPT ![p] = FALSE]
        /\ UNCHANGED <<shared, pc>>

MutantNoShift(number, index) == RemoveAt(number, index)

Shifted(number, index) ==
    LET rest == RemoveAt(number, index)
    IN  [i \in DOMAIN rest |-> IF i >= index THEN rest[i] - 1 ELSE rest[i]]

RemovePar(p, index) ==
    /\ Call(p, "remove")
    /\ m_line[p][index] \in DOMAIN m_parfile[p]
    /\ Store(p, RemoveAt(m_pars[p], index),
                RemoveAt(m_parfile[p], m_line[p][index]),
                Shifted(m_line[p], index),
                RemoveAt(m_vstop[p], index))
    /\ UNCHANGED <<shared, pc, sound>>

(* value(v), by the program or from the command line.                      *)
Value(p, index, v) ==
    /\ Call(p, "value")
    /\ m_pars' = [m_pars EXCEPT ![p][index] = SetValue(@, v)]
    /\ UNCHANGED <<shared, pc, m_parfile, m_line, m_vstop, sound>>

Query(p, index, answer) ==
    /\ Call(p, "query")
    /\ IsQuery(m_pars[p][index])
    /\ m_pars' = [m_pars EXCEPT ![p][index] = Queried(@, answer)]
    /\ UNCHANGED <<shared, pc, m_parfile, m_line, m_vstop, sound>>

Clear(p) ==
    /\ Call(p, "clear")
    /\ Store(p, <<>>, <<>>, <<>>, <<>>)
    /\ sound' = [sound EXCEPT ![p] = TRUE]
    /\ UNCHANGED <<shared, pc>>

-----------------------------------------------------------------------------
(* load(): the lines are cleared, the parameters are not.  Without a copy  *)
(* of the user, the file that comes with the tool is read.                 *)

GoTo(p, place) == pc' = [pc EXCEPT ![p] = place]

Parse(p, lines) ==
    LET taken == Taken(m_pars[p], lines)
    IN  /\ Store(p, Parsed(m_pars[p], lines), lines, m_line[p] \o taken,
                 m_vstop[p] \o [i \in DOMAIN taken |-> "comma"])
        /\ sound' = [sound EXCEPT ![p] = m_pars[p] = <<>> /\ ~Throws(<<>>, lines)]

Load(p) ==
    /\ Call(p, "load")
    /\ IF file.exists
       THEN /\ GoTo(p, "read_lock")
            /\ m_parfile' = [m_parfile EXCEPT ![p] = <<>>]
            /\ UNCHANGED <<m_pars, m_line, m_vstop, sound>>
       ELSE /\ Parse(p, setting.system)
            /\ UNCHANGED pc
    /\ UNCHANGED shared

MutantNoReadLock(p) == TRUE

MayRead(p) == \A q \in Apps \ {p} : lock[q] # "write"
MayWrite(p) == \A q \in Apps \ {p} : lock[q] = "none"

Lock(p, kind) == lock' = [lock EXCEPT ![p] = kind]

ReadLock(p) ==
    /\ pc[p] = "read_lock" /\ MayRead(p)
    /\ Lock(p, "read") /\ GoTo(p, "read")
    /\ UNCHANGED <<setting, file, content, container, calls>>

Read(p) ==
    /\ pc[p] = "read"
    /\ Parse(p, file.lines)
    /\ Lock(p, "none") /\ GoTo(p, "idle")
    /\ UNCHANGED <<setting, file, content, calls>>

-----------------------------------------------------------------------------
(* save(), by the destructor of the application: the lines are updated,    *)
(* and written over a file that is emptied under the lock; a file that     *)
(* does not exist is created, and locked then.                             *)

Save(p) ==
    /\ Call(p, "save")
    /\ \A i \in DOMAIN m_line[p] : m_line[p][i] \in DOMAIN m_parfile[p]
    /\ m_parfile' = [m_parfile EXCEPT ![p] = Updated(p)]
    /\ GoTo(p, IF file.exists THEN "write_lock" ELSE "create")
    /\ UNCHANGED <<shared, m_pars, m_line, m_vstop, sound>>

WriteLock(p) ==
    /\ pc[p] = "write_lock" /\ MayWrite(p)
    /\ Lock(p, "write") /\ GoTo(p, "truncate")
    /\ UNCHANGED <<setting, file, content, container, calls>>

Truncate(p) ==
    /\ pc[p] = "truncate"
    /\ file' = [file EXCEPT !.lines = <<>>]
    /\ GoTo(p, "write")
    /\ UNCHANGED <<setting, content, lock, container, calls>>

Create(p) ==
    /\ pc[p] = "create"
    /\ file' = [exists |-> TRUE, lines |-> <<>>]
    /\ GoTo(p, "create_lock")
    /\ UNCHANGED <<setting, content, lock, container, calls>>

CreateLock(p) ==
    /\ pc[p] = "create_lock" /\ MayWrite(p)
    /\ Lock(p, "write") /\ GoTo(p, "write")
    /\ UNCHANGED <<setting, file, content, container, calls>>

(* Lines that are written over others leave an end of them if they are     *)
(* longer.                                                                 *)
Over(old, new) ==
    {new} \cup IF old \in {<<>>, new} THEN {}
               ELSE {Append(new, [old[Len(old)] EXCEPT !.intact = FALSE])}

MutantKeepsLock(p) == UNCHANGED lock

Unlock(p) == Lock(p, "none")

Write(p) ==
    /\ pc[p] = "write"
    /\ \E lines \in Over(file.lines, m_parfile[p]) :
          file' = [file EXCEPT !.lines = lines]
    /\ content' = m_parfile[p]
    /\ Unlock(p) /\ GoTo(p, "idle")
    /\ UNCHANGED <<setting, container, calls>>

-----------------------------------------------------------------------------
Calls(p) ==
    \/ \E name \in Names, mode \in {"h", "hl"}, v \in Values :
          AppendPar(p, Construct(name, mode, v))
    \/ \E index \in DOMAIN m_pars[p] :
          \/ \E name \in Names, mode \in {"h", "hl"}, v \in Values,
                answer \in Values \cup {NoAnswer} :
                Insert(p, index, Construct(name, mode, v), answer)
          \/ RemovePar(p, index)
          \/ \E v \in Values : Value(p, index, v)
          \/ \E answer \in Values \cup {NoAnswer} : Query(p, index, answer)
    \/ Clear(p) \/ Load(p) \/ Save(p)

InCall(p) ==
    \/ ReadLock(p) \/ Read(p)
    \/ WriteLock(p) \/ Truncate(p) \/ Create(p) \/ CreateLock(p) \/ Write(p)

Next == \E p \in Apps : Calls(p) \/ InCall(p)

(* An application that loads or saves runs on.                             *)
Spec == Init /\ [][Next]_vars /\ \A p \in Apps : WF_vars(InCall(p))

-----------------------------------------------------------------------------
(* Properties                                                              *)

(* The line of a parameter has its name, and the lines are in the order of *)
(* the parameters, whatever was appended and removed.                      *)
LinesBelong ==
    \A p \in Apps : sound[p] /\ pc[p] \notin {"read_lock", "read"} =>
        \A i \in DOMAIN m_pars[p] :
            /\ m_line[p][i] \in DOMAIN m_parfile[p]
            /\ m_parfile[p][m_line[p][i]].name = m_pars[p][i].name
            /\ \A j \in 1..(i - 1) : m_line[p][j] < m_line[p][i]

(* What is saved can be loaded, although values are replaced in the lines  *)
(* by their places: an application that starts with the lines gets the     *)
(* parameters of the one that has saved, with the values to be learned.    *)
(* That is, if no line with blanks in front, and none that was appended,   *)
(* is updated, and if no value with commas is written without its quotes.  *)
Saving(p) == pc[p] \in {"write_lock", "truncate", "create", "create_lock", "write"}

Ordinary(p) ==
    \A i \in DOMAIN m_pars[p] :
        LET line == m_parfile[p][m_line[p][i]]
        IN  /\ Updates(m_pars[p][i]) => m_vstop[p][i] = "comma" /\ ~line.indented
            /\ line.value \in Lists => line.quoted

SavedIsReadBack ==
    \A p \in Apps :
        Saving(p) /\ sound[p] /\ Ordinary(p) =>
            LET back == Parsed(<<>>, m_parfile[p])
            IN  /\ Len(back) = Len(m_pars[p])
                /\ \A i \in DOMAIN back :
                      /\ back[i].name = m_pars[p][i].name
                      /\ IsLearn(m_pars[p][i]) => back[i].value = m_pars[p][i].value

(* Applications that share a file: who reads it finds in it what the last  *)
(* one to save has written, all of it and nothing else.                    *)
Alone == \A p, q \in setting.users : p = q

FileIsWhole ==
    setting.present \/ Alone =>
        \A p \in Apps : pc[p] = "read" => file.lines = content

(* Whoever waits for a lock gets it: load() and save() come to an end.     *)
CallsEnd == \A p \in Apps : pc[p] # "idle" ~> pc[p] = "idle"
=============================================================================
