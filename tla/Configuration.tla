----------------------------- MODULE Configuration -----------------------------
(***************************************************************************)
(* The modules' configuration files: AppSettings::readModules, the         *)
(* PersistantObject each file is read into, ModuleConf's setters, and what *)
(* AppController::loadModules changes in them: it makes the UIDs unique.   *)
(*                                                                         *)
(* A setter saves at once.  QFile::open(WriteOnly) empties the file, and   *)
(* the text comes after it, so a save is two steps here and the process    *)
(* may end between them; a file that is empty or cut off does not parse.   *)
(* The setters differ in their tag only: setActive, which the bus calls,   *)
(* and setModuleUID stand for all of them.                                 *)
(***************************************************************************)
EXTENDS Naturals, Sequences, FiniteSets

CONSTANTS Files,    \* the files, in the order readModules lists them
          Name,     \* UIDs without the dots at their end
          Unnamed,  \* the UID of a configuration that has none
          Known,    \* files whose "sClass" loadModules knows
          FirstDots, \* bound: dots a UID may have before the first start
          MaxFaults \* bound: crashes, failed opens and short writes

File == {Files[i] : i \in DOMAIN Files}
NoFile == "no file"

\* A UID is a name and the number of dots after it.
Doc == [sUID : Name \X Nat, bActive : BOOLEAN]
EmptyDoc == [sUID |-> <<Unnamed, 0>>, bActive |-> FALSE]
Dotted(uid, n) == <<uid[1], uid[2] + n>>

ASSUME ConfigurationAssumption ==
  /\ Files \in Seq(File)
  /\ \A i, j \in DOMAIN Files : Files[i] = Files[j] => i = j
  /\ NoFile \notin File
  /\ Unnamed \in Name
  /\ Known \subseteq File
  /\ FirstDots \subseteq Nat
  /\ MaxFaults \in Nat

VARIABLES
  disk,     \* [File -> what was last written to it]
  whole,    \* files that parse
  oJdoc,    \* [File -> PersistantObject::oJdoc]
  bOK,      \* files read into an object with bOK
  bChanged, \* and with bChanged
  writing,  \* the file save() has open
  phase,    \* of the process: "down", "loading" or "up"
  at,       \* index of the loop of loadModules
  loaded,   \* files of the modules in hpModules
  faults    \* faults there were

diskVars == <<disk, whole>>
confVars == <<oJdoc, bOK, bChanged>>
runVars  == <<phase, at, loaded>>
vars == <<diskVars, confVars, writing, runVars, faults>>

Fault == faults < MaxFaults /\ faults' = faults + 1

-------------------------------------------------------------------------------
(* PersistantObject and ModuleConf. *)

Init ==
  /\ disk \in [File -> [sUID : Name \X FirstDots, bActive : BOOLEAN]]
  /\ whole = File
  /\ oJdoc = disk /\ bOK = {} /\ bChanged = {}
  /\ writing = NoFile
  /\ phase = "down" /\ at = 1 /\ loaded = {}
  /\ faults = 0

\* The objects are made anew; one whose file does not parse is empty.
readModules ==
  /\ phase = "down"
  /\ oJdoc' = [f \in File |-> IF f \in whole THEN disk[f] ELSE EmptyDoc]
  /\ bOK' = whole
  /\ bChanged' = {}
  /\ phase' = "loading" /\ at' = 1 /\ loaded' = {}
  /\ UNCHANGED <<diskVars, writing, faults>>

\* save() up to open(), which truncates the file or fails.  Mutant: bChanged is
\* reset in either case.
SaveForgets(f, doc) ==
  /\ oJdoc' = [oJdoc EXCEPT ![f] = doc]
  /\ \/ /\ whole' = whole \ {f} /\ writing' = f
        /\ bChanged' = bChanged \cup {f}
        /\ UNCHANGED faults
     \/ /\ Fault
        /\ UNCHANGED <<whole, writing, bChanged>>
  /\ UNCHANGED <<disk, bOK>>

Save(f, doc) ==
  /\ oJdoc' = [oJdoc EXCEPT ![f] = doc]
  /\ bChanged' = bChanged \cup {f}
  /\ \/ whole' = whole \ {f} /\ writing' = f /\ UNCHANGED faults
     \/ Fault /\ UNCHANGED <<whole, writing>>
  /\ UNCHANGED <<disk, bOK>>

\* A setter: "check if changed", and if so save.
Set(f, doc) ==
  \/ doc # oJdoc[f] /\ Save(f, doc)
  \/ doc = oJdoc[f] /\ UNCHANGED <<diskVars, confVars, writing, faults>>

\* The rest of save(), which does not ask how much was written.
Written ==
  /\ writing # NoFile
  /\ disk' = [disk EXCEPT ![writing] = oJdoc[writing]]
  /\ \/ whole' = whole \cup {writing} /\ UNCHANGED faults
     \/ Fault /\ UNCHANGED whole
  /\ bChanged' = bChanged \ {writing}
  /\ writing' = NoFile
  /\ UNCHANGED <<oJdoc, bOK, runVars>>

-------------------------------------------------------------------------------
(* AppController. *)

Taken == {oJdoc[f].sUID : f \in loaded}

\* Mutants: one dot has to do; a dot is appended before the first look.
DotsOnce(uid, n) == n = IF uid \in Taken THEN 1 ELSE 0
DotsFirst(uid, n) == /\ n > 0 /\ Dotted(uid, n) \notin Taken
                     /\ \A k \in 1 .. n - 1 : Dotted(uid, k) \in Taken

\* How many dots the loop appends to the UID.
Dots(uid, n) == /\ Dotted(uid, n) \notin Taken
                /\ \A k \in 0 .. n - 1 : Dotted(uid, k) \in Taken

\* The UID of a configuration, and the setter that stores it.
nameUID(f) ==
  \E n \in 0 .. Cardinality(loaded) + 1 :
    /\ Dots(oJdoc[f].sUID, n)
    /\ Set(f, [oJdoc[f] EXCEPT !.sUID = Dotted(@, n)])

\* Mutant: files that did not parse are treated like the others.
LoadModuleOfAnyFile ==
  /\ phase = "loading" /\ writing = NoFile /\ at <= Len(Files)
  /\ nameUID(Files[at])
  /\ loaded' = loaded \cup ({Files[at]} \cap Known)
  /\ at' = at + 1
  /\ UNCHANGED phase

\* Configurations of unknown class are given their UID, too, and are not loaded.
LoadModule ==
  /\ phase = "loading" /\ writing = NoFile /\ at <= Len(Files)
  /\ \/ /\ Files[at] \in bOK
        /\ nameUID(Files[at])
        /\ loaded' = loaded \cup ({Files[at]} \cap Known)
     \/ /\ Files[at] \notin bOK
        /\ UNCHANGED <<diskVars, confVars, writing, loaded, faults>>
  /\ at' = at + 1
  /\ UNCHANGED phase

Loaded ==
  /\ phase = "loading" /\ writing = NoFile /\ at > Len(Files)
  /\ phase' = "up"
  /\ UNCHANGED <<diskVars, confVars, writing, at, loaded, faults>>

\* The bus command "setActive" to a module.
setActive(f, b) ==
  /\ phase = "up" /\ writing = NoFile
  /\ f \in loaded
  /\ Set(f, [oJdoc[f] EXCEPT !.bActive = b])
  /\ UNCHANGED runVars

Down == /\ phase' = "down" /\ at' = 1 /\ loaded' = {}
        /\ writing' = NoFile
        /\ oJdoc' = disk /\ bOK' = {} /\ bChanged' = {}
        /\ UNCHANGED diskVars

\* The program ends; nothing is saved then.
Quit == phase = "up" /\ writing = NoFile /\ Down /\ UNCHANGED faults

\* The process dies, at any moment.
Crash == phase # "down" /\ Fault /\ Down

Next == \/ readModules \/ Written \/ LoadModule \/ Loaded \/ Quit \/ Crash
        \/ \E f \in File, b \in BOOLEAN : setActive(f, b)

Spec == Init /\ [][Next]_vars

-------------------------------------------------------------------------------
(* Properties. *)

TypeOK ==
  /\ disk \in [File -> Doc] /\ whole \subseteq File
  /\ oJdoc \in [File -> Doc] /\ bOK \subseteq File /\ bChanged \subseteq bOK
  /\ phase = "down" => bOK = {}
  /\ writing \in bChanged \cup {NoFile}
  /\ phase \in {"down", "loading", "up"} /\ at \in 1 .. Len(Files) + 1
  /\ loaded \subseteq Known \cap bOK
  /\ faults \in 0 .. MaxFaults

\* AppController.cpp:244 "make sure UID is unique": no two modules have the same
\* UID, whatever the files say, after any history of faults and restarts.
UniqueUIDs ==
  \A f, g \in loaded : oJdoc[f].sUID = oJdoc[g].sUID => f = g

\* What an object holds is what was last handed to write() for its file, or the
\* object knows that it is not, so that the next setter saves it.  That the file
\* holds it is more than save() sees to, see CutByFaults.
UnsavedIsMarked == \A f \in bOK : disk[f] = oJdoc[f] \/ f \in bChanged

\* A file that does not parse is being written, or a fault of its own cut it: a
\* crash within save(), or a short write, PersistantObject.cpp:75, after which
\* bChanged is reset, so that the object takes the damaged file for saved.
CutByFaults ==
  Cardinality(File \ whole) <= faults + IF writing = NoFile THEN 0 ELSE 1

\* A file that did not parse at the start is not written to in that run: its
\* owner may still repair it.
DamagedIsLeft ==
  [][\A f \in File : phase # "down" /\ f \notin bOK =>
       disk'[f] = disk[f] /\ (f \in whole' <=> f \in whole)]_vars

\* Once the names on the disk are unique they stay: another start, after a crash
\* or not, changes no module's UID.
UniqueOnDisk ==
  \A f, g \in Known \cap whole : disk[f].sUID = disk[g].sUID => f = g
NamesStay ==
  [][phase = "loading" /\ UniqueOnDisk /\ writing = NoFile /\ Known \cap bOK \subseteq whole
       => \A f \in Known : phase' # "down" => oJdoc'[f].sUID = oJdoc[f].sUID]_vars

\* What was last written is what the object holds, or it is known that it is
\* not, through failed saves, crashes in the middle of one, short writes and
\* restarts; and no file is lost but by a fault of its own.
FilesAgree == TypeOK /\ UnsavedIsMarked /\ CutByFaults

\* What is on the disk is not lost to a restart: neither a damaged file nor a
\* name that was made unique.
FilesKept == DamagedIsLeft /\ NamesStay
===============================================================================
