---------------------------- MODULE AppInventory ----------------------------
(***************************************************************************)
(* The reports made of the applications module: the filter options, the    *)
(* list of installed applications with its pages, the distribution of      *)
(* their versions, and the installs beside the usage report.               *)
(*                                                                         *)
(* The module row of a device is the sequence of its applications.  One    *)
(* that has no name has NoText there.  A version is [text, padded], as it  *)
(* was sent: padded when there are blanks around it, and without a text    *)
(* when there is nothing else, or nothing at all.  An entry has one of the *)
(* two fields a name may come from, and one of the two for a version.      *)
(***************************************************************************)
EXTENDS UsageReports

CONSTANT NoText  \* a field that is missing or blank

AppsOf(d) == row[d]

Stripped(name) == [name EXCEPT !.padded = FALSE]
Trimmed(version) == [version EXCEPT !.padded = FALSE]

(* What the list calls an application that has no name. *)
UnknownApplication == [base |-> "unknown application", tail |-> <<>>, caps |-> TRUE, padded |-> FALSE]
Shown(name) == IF name = NoText THEN UnknownApplication ELSE name

(* A name is found in another when it is the beginning of it, in any case. *)
FoundIn(name, part) == part.base = name.base /\ IsPrefix(part.tail, name.tail)
Matches(name, names) == names = <<>> \/ \E i \in DOMAIN names : FoundIn(name, names[i])

(* The devices the list and the distribution look at; they read the platform from the system module first. *)
ListScope(q) == {d \in Registered : Open(d, q) /\ Wanted(q.platforms, Facts[d].system)}
DistributionScope(q) == {d \in Registered : Open(d, q) /\ Wanted(q.platforms, Facts[d].system)}

(* What is kept of a sequence, in its order.  It is SelectSeq, by a set and not by a test. *)
Kept(s, wanted) == FlattenSeq([i \in DOMAIN s |-> IF s[i] \in wanted THEN <<s[i]>> ELSE <<>>])

(* A device's rows of the list, in its own order, with the versions as they were sent. *)
DeviceRows(d, q) ==
  LET all == [i \in DOMAIN AppsOf(d) |-> [device |-> d, nth |-> i, name |-> Shown(AppsOf(d)[i].name), version |-> AppsOf(d)[i].version]]
  IN Kept(all, {r \in ToSet(all) : Matches(r.name, q.names)})

(* Mutation: device after device. *)
AppList_DeviceByDevice(q) ==
  FlattenSeq([i \in DOMAIN SerialOrder |-> IF SerialOrder[i] \in ListScope(q) THEN DeviceRows(SerialOrder[i], q) ELSE <<>>])

(* The first deviceLimit devices, every one's first row, then every one's second, and so on. *)
AppList(q) ==
  LET scanned == Kept(SerialOrder, ListScope(q))
      devices == SubSeq(scanned, 1, IF q.deviceLimit < Len(scanned) THEN q.deviceLimit ELSE Len(scanned))
      rows == [i \in DOMAIN devices |-> DeviceRows(devices[i], q)]
      Round(n) == FlattenSeq([i \in DOMAIN rows |-> IF n \in DOMAIN rows[i] THEN <<rows[i][n]>> ELSE <<>>])
      longest == Max({0} \cup {Len(rows[i]) : i \in DOMAIN rows})
  IN FlattenSeq([n \in 1..longest |-> Round(n)])

Page(items, limit, offset) ==
  SubSeq(items, offset + 1, IF offset + limit < Len(items) THEN offset + limit ELSE Len(items))

(* How many devices have each version, without its blanks, of what a name finds; *)
(* a device counts once for each, and nothing finds what has no name.            *)
FindsIn(d, name) == {i \in DOMAIN AppsOf(d) : AppsOf(d)[i].name # NoText /\ FoundIn(AppsOf(d)[i].name, name)}
Distribution(name, q) ==
  LET matched == UNION {{<<d, Trimmed(AppsOf(d)[i].version)>> : i \in FindsIn(d, name)} : d \in DistributionScope(q)}
  IN [total |-> Cardinality({m[1] : m \in matched}),
      versions |-> [v \in {m[2] : m \in matched} |-> Cardinality({m \in matched : m[2] = v})]]

(* The options the filters offer, from the devices that have the module; names without their blanks. *)
FilterOptions(q) ==
  LET listed == {d \in Registered \ Placeholders : q.includeArchived \/ d \notin archived}
      names == UNION {{[name |-> Stripped(AppsOf(d)[i].name), system |-> Facts[d].system] :
                         i \in {j \in DOMAIN AppsOf(d) : AppsOf(d)[j].name # NoText}} : d \in listed}
  IN [names |-> {n.name : n \in names},
      windows |-> {n.name : n \in {m \in names : m.system = "windows"}},
      mac |-> {n.name : n \in {m \in names : m.system = "macos"}},
      usages |-> {Facts[d].usage : d \in listed}, catalogs |-> {Facts[d].catalog : d \in listed},
      devices |-> listed]

(* macOS inventories the file name of a bundle, and usage the name of the bundle. *)
Bundle(name) == [base |-> name.base, tail |-> Without("app", name.tail), caps |-> name.caps, padded |-> FALSE]

(* Installs are folded the way usage is: by the names picked, else by canonical name. *)
Installed(b, q) ==
  {d \in UsageScope(q) : \E i \in DOMAIN AppsOf(d) :
     /\ AppsOf(d)[i].name # NoText
     /\ IF q.picks = <<>> THEN Lower(Canonical(Bundle(AppsOf(d)[i].name))) = Lower(b)
                          ELSE Picked(q, Bundle(AppsOf(d)[i].name)) /\ Lower(Bundle(AppsOf(d)[i].name)) = Lower(b)}
=============================================================================
