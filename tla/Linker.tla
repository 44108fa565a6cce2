------------------------------- MODULE Linker -------------------------------
(***************************************************************************)
(* The run-time linker of GHCi (rts/Linker.c): object files and archives   *)
(* are loaded, their symbols entered in one table, their references        *)
(* resolved, and objects unloaded again.  An object is abstracted to the   *)
(* symbols it defines, keeps to itself and refers to; a place that is      *)
(* relocated to the sequence of what has been added to its addend.         *)
(***************************************************************************)
EXTENDS Naturals, Sequences, FiniteSets

CONSTANTS Path,        \* the files
          File,        \* their contents: a sequence of archive members
          IsArchive,   \* those that are loaded as archives,
          NotArchive,  \* and of these the ones that are none, or fat ones
          Dll,         \* dynamic libraries, with what addDLL finds and the symbols
          RtsSym,      \* rtsSyms
          MaxObjects,  \* a bound on the ObjectCodes made
          MaxCalls     \* a bound on the calls

VARIABLES platform,    \* the object format, and for ELF the form of the relocations
          ocs,         \* the ObjectCodes made so far
          objects,     \* the head of the list of objects, or 0
          symhash,     \* the symbol table
          dlls,        \* the libraries that have been opened
          linkRet,     \* the last call and its result
          linkCalls,   \* the number of calls so far
          linkUp       \* running, exit, barf, or undefined: a freed object is on the list

vars == <<platform, ocs, objects, symhash, dlls, linkRet, linkCalls, linkUp>>

NULL == 0
Rts == 98              \* where a symbol of the run-time system is,
InDll == 99            \* or one of a library; otherwise it is in an ObjectCode
Platforms == {"elf_rel", "elf_rela", "pe", "macho32", "macho64"}

Init ==
  /\ platform \in Platforms
  /\ ocs = <<>> /\ objects = NULL /\ dlls = {} /\ linkCalls = 0 /\ linkUp = "running"
  /\ symhash = [s \in RtsSym |-> Rts]
  /\ linkRet = [op |-> "initLinker", path |-> "", r |-> 1]

-----------------------------------------------------------------------------
(* The state S that a call works on. *)

State == [ocs |-> ocs, objects |-> objects, symhash |-> symhash, up |-> linkUp, r |-> 1]
Running(S) == S.up = "running"

\* dlsym, GetProcAddress: the symbols of the libraries that are open.
lookupSymbolInDLLs(s) == \E d \in dlls : s \in d.symbols

\* lookupSymbol: where a symbol is, or 0.
lookupSymbol(S, s) ==
  IF s \in DOMAIN S.symhash THEN S.symhash[s] ELSE IF lookupSymbolInDLLs(s) THEN InDll ELSE NULL

\* ghciInsertStrHashTable: a second definition ends the program.
InsertSymbols(S, syms, owner) ==
  IF syms \intersect DOMAIN S.symhash # {} THEN [S EXCEPT !.up = "exit"]
  ELSE [S EXCEPT !.symhash = [s \in DOMAIN @ \union syms |-> IF s \in syms THEN owner ELSE @[s]]]

\* mkOc: a new ObjectCode at the head of the list, whose symbols are not yet set.
mkOc(S, path, body) ==
  [S EXCEPT !.ocs = Append(@, [path |-> path, body |-> body, status |-> "new", next |-> S.objects,
                               symbols |-> {}, junk |-> TRUE, freed |-> FALSE,
                               places |-> [k \in DOMAIN body.refs |-> <<>>]]),
            !.objects = Len(S.ocs) + 1]

\* A jump island for every symbol is set aside where the code may be out of reach.
ocAllocateSymbolExtras(body) == platform \in {"pe", "elf_rel"} \/ body.symtab

\* The header, and then the sections, tables and strings that it leads to.
ElfHeader(body) == body.magic
ocVerifyImage_ELF(body) == ElfHeader(body) /\ body.sections
ocVerifyImage_PEi386(body) == body.magic /\ body.sections
ocVerifyImage_MachO(body) == body.magic

ocVerifyImage(body) ==
  CASE platform \in {"elf_rel", "elf_rela"} -> ocVerifyImage_ELF(body)
    [] platform = "pe" -> ocVerifyImage_PEi386(body)
    [] platform \in {"macho32", "macho64"} -> ocVerifyImage_MachO(body)

\* ocGetNames_*: the symbols that are entered in the table and those that the
\* ObjectCode remembers for unloadObj.  ELF remembers the local ones, too.
ocGetNames_ELF(S, id) ==
  LET b == S.ocs[id].body
  IN  InsertSymbols([S EXCEPT !.ocs[id].symbols = b.defs \union b.locals, !.ocs[id].junk = FALSE], b.defs, id)

ocGetNames_PEi386(S, id) ==
  LET b == S.ocs[id].body
  IN  IF b.odd THEN [S EXCEPT !.r = 0]
      ELSE InsertSymbols([S EXCEPT !.ocs[id].symbols = b.defs, !.ocs[id].junk = FALSE], b.defs, id)

\* Mach-O passes over a weak definition of a known symbol, but has counted it.
ocGetNames_MachO(S, id) ==
  LET b == S.ocs[id].body
      new == b.defs \union {s \in b.weak : lookupSymbol(S, s) = NULL}
  IN  InsertSymbols([S EXCEPT !.ocs[id].symbols = new, !.ocs[id].junk = b.weak \ new # {}], new, id)

ocGetNames(S, id) ==
  CASE platform \in {"elf_rel", "elf_rela"} -> ocGetNames_ELF(S, id)
    [] platform = "pe" -> ocGetNames_PEi386(S, id)
    [] platform \in {"macho32", "macho64"} -> ocGetNames_MachO(S, id)

\* loadOc.
Loaded(S, id) == IF Running(S) /\ S.r = 1 THEN [S EXCEPT !.ocs[id].status = "loaded"] ELSE S

loadOc(S) ==
  IF ocAllocateSymbolExtras(S.ocs[Len(S.ocs)].body) /\ ocVerifyImage(S.ocs[Len(S.ocs)].body) THEN Loaded(ocGetNames(S, Len(S.ocs)), Len(S.ocs))
  ELSE [S EXCEPT !.r = 0]

\* The magic number of an archive.  A fat archive is refused like any other file: the
\* result of reading 20 bytes of its table is compared with 8.
ArchiveMagic(p) == p \notin NotArchive

\* What a member is: the index of long names, which has to come before a name that is
\* in it, an object, or something else.
MemberKind(m, index) ==
  CASE m.name = "//" -> IF index THEN "refused" ELSE "index"
    [] m.name = "/n" /\ ~index -> "refused"
    [] OTHER -> IF m.isObject THEN "object" ELSE "other"

\* An object of an archive is loaded like one of a file.
LoadMember(S, path, m) == loadOc(mkOc(S, path, m.body))

RECURSIVE LoadMembers(_, _, _, _)
LoadMembers(S, path, ms, index) ==
  IF ms = <<>> \/ ~Running(S) \/ S.r = 0 THEN S
  ELSE CASE MemberKind(Head(ms), index) = "refused" -> [S EXCEPT !.up = "barf"]
         [] MemberKind(Head(ms), index) = "index" -> LoadMembers(S, path, Tail(ms), TRUE)
         [] MemberKind(Head(ms), index) = "object" ->
              LoadMembers(LoadMember(S, path, Head(ms)), path, Tail(ms), index)
         [] MemberKind(Head(ms), index) = "other" -> LoadMembers(S, path, Tail(ms), index)

\* The list of objects from a given one.
RECURSIVE From(_, _)
From(S, id) == IF id = NULL THEN <<>> ELSE <<id>> \o From(S, S.ocs[id].next)

Listed(S) == {From(S, S.objects)[k] : k \in DOMAIN From(S, S.objects)}

-----------------------------------------------------------------------------
(* Resolving. *)

\* What a relocation refers to: a symbol of the object itself, or one of the table.
Target_ELF_Rel(S, id, s) == IF s \in S.ocs[id].body.locals THEN id ELSE lookupSymbol(S, s)
Target_ELF_Rela(S, id, s) == IF s \in S.ocs[id].body.locals THEN id ELSE lookupSymbol(S, s)
Target_PEi386(S, id, s) == IF s \in S.ocs[id].body.locals THEN id ELSE lookupSymbol(S, s)
Target_MachO32(S, id, s) == IF s \in S.ocs[id].body.locals THEN id ELSE lookupSymbol(S, s)
Target_MachO64(S, id, s) ==
  IF s \in S.ocs[id].body.locals \union S.ocs[id].body.defs \union S.ocs[id].body.weak THEN id
  ELSE lookupSymbol(S, s)

Target(S, id, s) ==
  CASE platform = "elf_rel" -> Target_ELF_Rel(S, id, s)
    [] platform = "elf_rela" -> Target_ELF_Rela(S, id, s)
    [] platform = "pe" -> Target_PEi386(S, id, s)
    [] platform = "macho32" -> Target_MachO32(S, id, s)
    [] platform = "macho64" -> Target_MachO64(S, id, s)

\* makeSymbolExtra: a target out of reach is called by way of its jump island.
makeSymbolExtra(body, s, t) == IF s \in body.far THEN [island |-> t] ELSE [direct |-> t]

\* Where the addend is in the place itself, the target is added to what is there.
Patch_ELF_Rel(place, t) == Append(place, t)
Patch_PEi386(place, t) == Append(place, [direct |-> t])
Patch_MachO64(place, t) == Append(place, t)
Patch_scattered(place, id) == Append(place, [direct |-> id])
Patch_MachO32(place, t) == Append(place, t)

\* With the addend in the relocation, or for a pointer of its own, it is overwritten.
Patch_ELF_Rela(place, t) == <<t>>
resolveImports(place, t) == <<[direct |-> t]>>

Patch(body, s, place, t) ==
  CASE platform = "elf_rel" -> Patch_ELF_Rel(place, makeSymbolExtra(body, s, t))
    [] platform = "elf_rela" -> Patch_ELF_Rela(place, makeSymbolExtra(body, s, t))
    [] platform = "pe" -> Patch_PEi386(place, t)
    [] platform = "macho64" -> Patch_MachO64(place, makeSymbolExtra(body, s, t))
    [] platform = "macho32" /\ s \in body.imports -> resolveImports(place, t)
    [] platform = "macho32" /\ s \in body.locals -> Patch_scattered(place, t)
    [] OTHER -> Patch_MachO32(place, makeSymbolExtra(body, s, t))

\* A relocation that the linker does not know is refused; Mach-O ends the program.
Unhandled(S) == IF platform \in {"macho32", "macho64"} THEN [S EXCEPT !.up = "barf"] ELSE [S EXCEPT !.r = 0]

\* checkProddableBlock: only the sections that were loaded may be written to.
checkProddableBlock(body, s) == platform = "elf_rela" \/ s \notin body.wild

Relocate(S, id, k) ==
  LET b == S.ocs[id].body
      t == Target(S, id, b.refs[k])
  IN  IF t = NULL THEN [S EXCEPT !.r = 0]
      ELSE IF ~checkProddableBlock(b, b.refs[k]) THEN [S EXCEPT !.up = "barf"]
      ELSE IF b.refs[k] \in b.unhandled THEN Unhandled(S)
      ELSE [S EXCEPT !.ocs[id].places[k] = Patch(b, b.refs[k], @, t)]

\* ocResolve_*: the relocations in turn, up to one whose symbol is unknown.
RECURSIVE ocResolveFrom(_, _, _)
ocResolveFrom(S, id, k) ==
  IF S.r = 0 \/ ~Running(S) \/ k > Len(S.ocs[id].body.refs) THEN S ELSE ocResolveFrom(Relocate(S, id, k), id, k + 1)

\* An image that was refused is walked like any other; it has no valid headers.
ocResolve(S, id) ==
  IF ocVerifyImage(S.ocs[id].body) THEN ocResolveFrom(S, id, 1) ELSE [S EXCEPT !.up = "barf"]

\* Mutant: an object counts as resolved although one of its symbols is unknown.
ResolvedAnyway(S, id) == IF Running(S) THEN [S EXCEPT !.ocs[id].status = "resolved"] ELSE S

Resolved(S, id) == IF S.r = 1 /\ Running(S) THEN [S EXCEPT !.ocs[id].status = "resolved"] ELSE S

RECURSIVE ResolveList(_, _)
ResolveList(S, id) ==
  IF id = NULL \/ S.r = 0 \/ ~Running(S) THEN S
  ELSE ResolveList(IF S.ocs[id].status = "resolved" THEN S ELSE Resolved(ocResolve(S, id), id), S.ocs[id].next)

-----------------------------------------------------------------------------
(* Unloading. *)

Unlink(S, prev, id) ==
  IF prev = NULL THEN [S EXCEPT !.objects = S.ocs[id].next] ELSE [S EXCEPT !.ocs[prev].next = S.ocs[id].next]

\* The symbols are removed and the ObjectCode is freed.
Forget(S, id) ==
  [S EXCEPT !.symhash = [s \in DOMAIN @ \ S.ocs[id].symbols |-> @[s]], !.ocs[id].freed = TRUE, !.r = 1]

\* The loop of unloadObj.  It reads the link of an ObjectCode that it has freed, which
\* is taken to be still there, and goes on with that one as the previous object: a second member
\* of an archive that follows is freed and stays on the list.
RECURSIVE UnloadFrom(_, _, _, _)
UnloadFrom(S, path, prev, id) ==
  IF id = NULL THEN S
  ELSE IF S.ocs[id].path = path THEN
    IF S.ocs[id].junk THEN [S EXCEPT !.up = "barf"]
    ELSE UnloadFrom(Forget(Unlink(S, prev, id), id), path, id, S.ocs[id].next)
  ELSE UnloadFrom(S, path, id, S.ocs[id].next)

\* What a program does that has a freed object on the list is not followed any further.
Checked(S) == IF Running(S) /\ \E id \in Listed(S) : S.ocs[id].freed THEN [S EXCEPT !.up = "undefined"] ELSE S

-----------------------------------------------------------------------------
(* The calls. *)

Become(S, op, path) ==
  /\ linkUp = "running" /\ linkCalls < MaxCalls
  /\ ocs' = S.ocs /\ objects' = S.objects /\ symhash' = S.symhash /\ linkUp' = S.up
  /\ linkRet' = [op |-> op, path |-> path, r |-> S.r]
  /\ linkCalls' = linkCalls + 1
  /\ UNCHANGED platform

loadObj(p) ==
  /\ p \notin IsArchive
  /\ \E S \in {IF \E id \in Listed(State) : ocs[id].path = p THEN State
               ELSE IF File[p] = <<>> THEN [State EXCEPT !.r = 0]
               ELSE loadOc(mkOc(State, p, File[p][1].body))} :
       Len(S.ocs) <= MaxObjects /\ Become(S, "loadObj", p)
  /\ UNCHANGED dlls

loadArchive(p) ==
  /\ p \in IsArchive
  /\ \E S \in {IF ArchiveMagic(p) THEN LoadMembers(State, p, File[p], FALSE) ELSE [State EXCEPT !.up = "barf"]} : Len(S.ocs) <= MaxObjects /\ Become(S, "loadArchive", p)
  /\ UNCHANGED dlls

resolveObjs ==
  /\ \E S \in {ResolveList(State, objects)} : Become(S, "resolveObjs", "")
  /\ UNCHANGED dlls

unloadObj(p) ==
  /\ objects # NULL
  /\ \E S \in {Checked(UnloadFrom([State EXCEPT !.r = 0], p, NULL, objects))} : Become(S, "unloadObj", p)
  /\ UNCHANGED dlls

\* addDLL: the library, or the one that a linker script in its place names.
addDLL(d) ==
  LET found == IF d.script = {} THEN {d} ELSE d.script
  IN  /\ Become([State EXCEPT !.r = IF \E x \in found : x.opens THEN 1 ELSE 0], "addDLL", "")
      /\ dlls' = dlls \union {x \in found : x.opens}

Next ==
  \/ \E p \in Path : loadObj(p) \/ loadArchive(p) \/ unloadObj(p)
  \/ resolveObjs
  \/ \E d \in Dll : addDLL(d)

Spec == Init /\ [][Next]_vars

-----------------------------------------------------------------------------
(* Properties. *)

\* An object that loadOc has accepted.
Accepted(id) == ocs[id].status # "new"

\* The names that an ELF object which was unloaded had kept to itself: unloadObj removed whatever
\* the table had under them, another object's definition or one of the run-time system.
LostNames == UNION {ocs[id].body.locals \cap ocs[id].symbols : id \in {i \in DOMAIN ocs : ocs[i].freed}}

\* The symbol table agrees with the list of objects across any sequence of loads,
\* failed loads and unloads: a symbol is the run-time system's or belongs to an object
\* that is still on the list and defines it, and each accepted object owns all of its
\* own definitions.  Left out are LostNames.
TableMatchesObjects ==
  linkUp = "running" =>
    /\ \A s \in DOMAIN symhash \ RtsSym :
         symhash[s] \in Listed(State) /\ s \in ocs[symhash[s]].body.defs \union ocs[symhash[s]].body.weak
    /\ \A s \in RtsSym \ LostNames : s \in DOMAIN symhash /\ symhash[s] = Rts
    /\ \A id \in Listed(State) : Accepted(id) =>
         \A s \in ocs[id].body.defs \ LostNames : s \in DOMAIN symhash /\ symhash[s] = id

\* When resolveObjs returns 1, also after one that failed half-way, every place of every
\* object on the list leads to something that defines the symbol.
SuccessMeansResolved ==
  (linkUp = "running" /\ linkRet.op = "resolveObjs" /\ linkRet.r = 1) =>
    \A id \in Listed(State) : \A k \in DOMAIN ocs[id].places :
      LET s == ocs[id].body.refs[k]
          Defines(t) == \/ t = Rts /\ s \in RtsSym
                        \/ t = InDll /\ lookupSymbolInDLLs(s)
                        \/ t \in DOMAIN ocs /\ s \in ocs[t].body.defs \union ocs[t].body.weak
                        \/ t = id /\ s \in ocs[id].body.locals
      IN  /\ ocs[id].status = "resolved"
          /\ ocs[id].places[k] # <<>>
          /\ \A i \in DOMAIN ocs[id].places[k] :
               LET p == ocs[id].places[k][i]
               IN  \E t \in {Rts, InDll} \union DOMAIN ocs :
                     p \in {[island |-> t], [direct |-> t]} /\ Defines(t)

\* No ObjectCode that unloadObj has freed is left on the list, and after unloadObj(p)
\* has succeeded nothing of p is: what ends the use of the memory ends every way to it.
\* Left out is an archive of which the call has freed more than one member.
NothingFreedIsListed ==
  /\ \A id \in Listed(State) : ocs[id].freed =>
       /\ linkRet.op = "unloadObj" /\ linkRet.path = ocs[id].path /\ ocs[id].path \in IsArchive
       /\ \E j \in DOMAIN ocs : j # id /\ ocs[j].freed /\ ocs[j].path = ocs[id].path
  /\ (linkRet.op = "unloadObj" /\ linkRet.r = 1 /\ linkUp = "running") =>
       \A id \in Listed(State) : ocs[id].path # linkRet.path
=============================================================================
