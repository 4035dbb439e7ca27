------------------------------ MODULE MCReports ------------------------------
(***************************************************************************)
(* Two devices and a test device; every topic has the payloads that tell   *)
(* its reports apart, and no more.                                         *)
(***************************************************************************)
EXTENDS Reports

WriterTwins == Permutations(Writers)

MCDevices == {"A1", "B2", "TEST-1"}
MCPlaceholders == {"TEST-1"}
MCOrder == <<"A1", "B2", "TEST-1">>
MCTopics == {"usage", "applications", "installs", "items", "system", "certificates", "updates", "vulnerabilities", "inventory"}
MCFacts == [d \in MCDevices |->
  IF d = "B2" THEN [system |-> "windows", usage |-> "shared", catalog |-> "prod"]
              ELSE [system |-> "macos", usage |-> "assigned", catalog |-> "prod"]]

Zoom == [base |-> "zoom", tail |-> <<>>, caps |-> FALSE, padded |-> FALSE]
ZoomCaps == [Zoom EXCEPT !.caps = TRUE]
Seven == [Zoom EXCEPT !.base = "7zip", !.caps = TRUE]
Seven64 == [Seven EXCEPT !.tail = <<"arch", "version">>]
SevenOld == [Seven EXCEPT !.tail = <<"version", "arch">>]
Code == [Zoom EXCEPT !.base = "code"]
ZoomBundle == [Zoom EXCEPT !.tail = <<"app">>, !.padded = TRUE]
SevenBundle == [SevenOld EXCEPT !.tail = <<"arch", "version", "app">>]
MCAlias == [x \in {"code"} |-> "vscode"]
MCNames == {Zoom, Seven, Seven64, UnknownApplication}

Used(app, user, active) == [app |-> app, day |-> 0, user |-> user, active |-> active]
App(name, version) == [name |-> name, version |-> [text |-> version, padded |-> FALSE]]
Padded(app) == [app EXCEPT !.version.padded = TRUE]

Ran(end, start) == [end |-> end, start |-> start]
Agent(sessions, run, items) ==
  [sessions |-> sessions, run |-> run, items |-> items, runFailed |-> FALSE, errorMessages |-> 0, warningMessages |-> 1]
Item(name, text, stamp) ==
  [name |-> name, display |-> 7, padded |-> FALSE, text |-> text, stamp |-> stamp, warned |-> text = "warning"]
OnlyDisplayed(item) == [item EXCEPT !.name = Untold]
Blanks(item) == [item EXCEPT !.padded = TRUE]
Mac(agent) == [cimian |-> NoAgent, munki |-> agent]
Win(agent) == [cimian |-> agent, munki |-> NoAgent]
Failing(n) == Item(n, "error", "error")

Document(os, train, level, apple, count, list, uptime) ==
  [version |-> [os |-> os, train |-> train, level |-> level], apple |-> apple,
   winCount |-> count, winList |-> list, uptime |-> uptime]

View(id, location, store, path) ==
  [id |-> id, name |-> id, location |-> location, store |-> store, path |-> path, agentIssued |-> FALSE, ca |-> "no",
   caName |-> FALSE, selfSigned |-> FALSE, key |-> "yes", notAfter |-> 0, left |-> 0, flag |-> "expired", class |-> "none", live |-> FALSE]
Identity == View(1, "none", "none", "user")
Mail == [View(2, "user", "none", "none") EXCEPT !.key = "no", !.name = 0]
Anchored == [View(3, "none", "none", "user") EXCEPT !.selfSigned = TRUE, !.key = "unsaid"]
OwnRoot == [View(4, "policy", "trust", "none") EXCEPT !.notAfter = 2]
ShippedRoot == [OwnRoot EXCEPT !.location = "machine"]
Agent2 == [View(5, "machine", "personal", "none") EXCEPT !.agentIssued = TRUE]

Update(kb, title) == [kb |-> kb, title |-> title, security |-> FALSE, deferred |-> "unsaid", reboot |-> "no", since |-> NoDay, cves |-> {}]
Search(status, day) == [status |-> status, checked |-> day]
System(os, windows, apple, count, installed, day, search) ==
  [os |-> os, windows |-> windows, apple |-> apple, count |-> count, installed |-> installed, collected |-> day, search |-> search]
Unsearched == Search("not_reported", NoDay)
Named(base, caps) == [base |-> base, caps |-> caps]
Shouted(name) == [name EXCEPT !.caps = TRUE]
High == Named("high", FALSE)
Defender == Named("defender", FALSE)
Xprotect == Named("xprotect, apple", FALSE)
MCPieces == [b \in {"xprotect, apple"} |-> {"xprotect", "apple"}]
Cve(cve, kb, status, severity, exploited) ==
  [cve |-> cve, kb |-> kb, label |-> NoName, status |-> status, severity |-> severity, exploited |-> exploited]
Threat(vendor, day) == [vendor |-> vendor, severity |-> NotSaid, seen |-> day]
Reported(msrc, mac, cut, day, detections) == [msrc |-> msrc, mac |-> mac, cut |-> cut, collected |-> day, detections |-> detections]
Log4j == Cve(Named("cve1", FALSE), Named("kb1", TRUE), "unpatched", High, "no")
Patched(kb) == Cve(NoName, kb, "patched", NotSaid, "no")
Nameless == Cve(NoName, NoName, "unpatched", High, "yes")
NoModule == System(NoName, NoList, NoList, NoCount, <<>>, NoDay, Unsearched)
Waiting == [Update("kb1", "Cumulative") EXCEPT !.cves = {"cve1"}, !.security = TRUE, !.since = 0]
Again == [Update("kb1", "Cumulative again") EXCEPT !.cves = {"cve2"}]
Driver == Update(NoName, "Driver")
Anonymous == [Update(NoName, NoName) EXCEPT !.cves = {"cve2"}]
Sequoia == [Update(NoName, "Sequoia") EXCEPT !.deferred = "yes", !.reboot = "yes"]
MCOlder(t, d) == IF t = "updates" THEN {NoModule} ELSE IF t = "certificates" /\ d = "B2" THEN {{[OwnRoot EXCEPT !.flag = "expiring"], [ShippedRoot EXCEPT !.flag = "expiring"]}} ELSE {}

MCPayloads(t, d) ==
  CASE t = "usage" /\ d = "A1" -> {{Used(ZoomCaps, 1, TRUE)}, {Used(Seven64, 0, FALSE), Used(Zoom, 3, TRUE)}, {Used(SevenOld, 1, FALSE)}}
    [] t = "usage" /\ d = "B2" -> {{Used(Zoom, 1, FALSE), Used(Code, 2, TRUE)}, {Used(Seven, 2, TRUE)}}
    [] t = "applications" /\ d = "A1" -> {<<>>, <<App(Zoom, 1), App(ZoomCaps, 2), App(Zoom, 1)>>, <<App(NoText, 1), App(SevenBundle, 1), Padded(App(ZoomBundle, NoText))>>}
    [] t = "applications" /\ d = "B2" -> {<<App(Seven, 1), Padded(App(Zoom, 2)), App(Zoom, 2)>>, <<App(Zoom, 1), App(Seven64, NoText)>>}
    [] t = "installs" /\ d = "A1" ->
         {Mac(Agent(<<Ran(0, 0), Ran(-1, 2)>>, Ran(-1, -1), <<>>)), Mac(Agent(<<>>, Ran(-1, 0), <<Item(1, "warning", "none")>>)),
          Mac(Agent(<<>>, Ran(-1, -1), <<>>))}
    [] t = "installs" /\ d = "B2" ->
         {[cimian |-> Agent(<<Ran(0, 0)>>, Ran(1, 1), <<>>), munki |-> Agent(<<Ran(2, 2)>>, Ran(-1, -1), <<>>)]}
    [] t = "items" /\ d = "A1" -> {Mac(Agent(<<>>, Ran(0, 0), <<Failing(1), Failing(2)>>)), Mac(Agent(<<>>, Ran(0, 0), <<Failing(1), Item(2, "error", "pending")>>)),
                                    Mac([Agent(<<>>, Ran(0, 0), <<Item(2, "success", "none")>>) EXCEPT !.runFailed = TRUE])}
    [] t = "items" /\ d = "B2" -> {Mac(Agent(<<>>, Ran(0, 0), <<Blanks(Item(2, "error", "none")), OnlyDisplayed(Failing(1))>>)), Win(Agent(<<>>, Ran(0, 0), <<Failing(2), Failing(9), OnlyDisplayed(Failing(1)), Blanks(Failing(9))>>))}
    [] t = "system" /\ d = "A1" ->
         {Document("macOS", 15, 1, <<TRUE>>, 0, 0, 23), Document("macOS", 15, 2, <<>>, 0, 0, 24), Document("macOS", 26, 1, <<FALSE>>, 0, 0, 0)}
    [] t = "system" /\ d = "B2" ->
         {Document("Windows 10", 19, 1, <<>>, 0, 3, 720), Document("macOS", 15, 2, <<>>, 2, 0, 336), Empty}
    [] t = "certificates" /\ d = "A1" ->
         {{Mail, [Identity EXCEPT !.notAfter = 3]}, {[Identity EXCEPT !.key = "unsaid", !.notAfter = NoDate, !.left = 9, !.flag = "expiring"], Anchored}}
    [] t = "certificates" /\ d = "B2" -> {{OwnRoot, ShippedRoot}, {Agent2, [OwnRoot EXCEPT !.notAfter = 1]}}
    [] t = "updates" /\ d = "A1" ->
         {System("macOS", NoList, <<Sequoia>>, NoCount, <<>>, 0, Unsearched), System("macOS", NoList, <<>>, NoCount, <<>>, 1, Search("succeeded", 0)),
          System("macOS", NoList, <<>>, NoCount, <<>>, 0, Search("failed", 0)), System(NoName, NoList, <<>>, NoCount, <<>>, 1, Search("succeeded", 1))}
    [] t = "updates" /\ d = "B2" ->
         {System("Windows", <<Waiting, Again, Driver, Anonymous>>, NoList, 4, <<Update("kb0", NoName), Driver>>, 0, Search("succeeded", 0)),
          System("Windows", <<Driver>>, NoList, 2, <<Waiting>>, 0, Search("succeeded", 0)),
          System(NoName, <<>>, <<Sequoia>>, NoCount, <<Driver>>, 1, Search("succeeded", 1))}
    [] t = "vulnerabilities" /\ d = "A1" ->
         {Reported(NoList, <<[Log4j EXCEPT !.exploited = "yes", !.severity = NotSaid], Nameless>>, NotSaid, 0, <<Threat(Xprotect, 0)>>),
          Reported(NoList, <<>>, "yes", 1, NoList), Reported(NoList, NoList, NotSaid, NoDay, <<>>)}
    [] t = "vulnerabilities" /\ d = "B2" ->
         {Reported(<<Log4j, [Log4j EXCEPT !.status = "patched", !.exploited = NotSaid, !.severity = Shouted(@)], Patched(Named("kb2", TRUE))>>, NoList, NotSaid, 0,
                   <<Threat(Defender, 0), Threat(Xprotect, NoDay), Threat(Shouted(Defender), 2)>>),
          Reported(<<Patched(Named("kb2", FALSE)), Patched(Named("kb2", TRUE)), [Patched(Named("kb2", FALSE)) EXCEPT !.status = "unpatched"]>>,
                   <<Log4j>>, "no", 2, <<Threat(Defender, 1)>>)}
    [] t = "inventory" -> {}
    [] OTHER -> IF t = "applications" THEN {<<App(Zoom, 1)>>} ELSE {}

MCPlatforms(t, d) ==
  CASE t \in {"items", "system"} /\ d = "B2" -> {"macOS", "Unknown"}
    [] t \in {"certificates", "updates"} /\ d = "B2" -> {"Windows", "Unknown"}
    [] OTHER -> {"macOS"}
MCMaxDay(t) == CASE t \in {"usage", "certificates", "updates"} -> 1 [] t \in {"installs", "vulnerabilities"} -> 2 [] OTHER -> 0
MCMaxWrites(t) == CASE t = "inventory" -> 3 [] t = "installs" -> 1 [] OTHER -> 0
MCBodies(t) ==
  IF t = "inventory" THEN {[s \in {"A1", "B2"} |-> "storage"], [s \in {"A1"} |-> "checked_out"], [s \in {Blank} |-> "storage"]}
                     ELSE {[s \in {"A1"} |-> "storage"]}
MCQueries(t) == CASE t = "items" -> {"install_counts", "install_items_failing", "install_items_pending"}
                  [] t = "system" -> {"reboot_debt", "os_versions"}
                  [] t = "installs" -> {"install_agent_runs"}
                  [] t = "certificates" -> {"certificates"}
                  [] OTHER -> {}
Scope(p, archivedToo, hasStates) == [platform |-> p, includeArchived |-> archivedToo, hasStates |-> hasStates]
MCScopes(t) == CASE t = "items" -> {Scope("all", FALSE, TRUE), Scope("all", TRUE, TRUE), Scope("macOS", FALSE, FALSE)}
                 [] OTHER -> {Scope("all", FALSE, TRUE)}

Question(days, picks, platforms, least, archivedToo) ==
  [days |-> days, picks |-> picks, usages |-> {}, catalogs |-> {}, platforms |-> platforms,
   includeArchived |-> archivedToo, minLaunches |-> least, names |-> <<>>, deviceLimit |-> 3]
MCUsageQuestions ==
  {Question(1, <<>>, {}, 0, FALSE), Question(0, <<>>, {}, 0, TRUE), Question(1, <<>>, {"macOS"}, 2, FALSE), Question(1, <<Zoom, Seven64>>, {}, 0, FALSE)}
MCAppQuestions == {Question(0, <<>>, {}, 0, FALSE), Question(0, <<>>, {"macos"}, 0, TRUE)}
UpdateAsked(age, platformName, archivedToo) ==
  [keys |-> {}, cves |-> {}, states |-> {}, freshness |-> "all", maxAge |-> age, platform |-> platformName, usages |-> {},
   inventory |-> {}, securityOnly |-> FALSE, deferred |-> "all", reboot |-> FALSE, minAge |-> 0, includeArchived |-> archivedToo]
MCUpdateQuestions ==
  {UpdateAsked(0, "all", FALSE), UpdateAsked(1, "Windows", TRUE), [UpdateAsked(0, "all", FALSE) EXCEPT !.securityOnly = TRUE],
   [UpdateAsked(1, "all", FALSE) EXCEPT !.keys = {<<"Windows", "title", "Driver">>, <<"macOS", "title", "Sequoia">>}, !.states = {"pending"}]}
MCCveQuestions ==
  {EveryCve("all", FALSE), EveryCve("windows", TRUE), [EveryCve("all", FALSE) EXCEPT !.freshness = "fresh", !.maxAge = 1],
   [EveryCve("all", TRUE) EXCEPT !.statuses = {"unpatched"}, !.exploited = "no"]}
ThreatAsked(days, archivedToo) ==
  [days |-> days, vendors |-> {}, severities |-> {}, platform |-> "all", usages |-> {}, inventory |-> {}, includeArchived |-> archivedToo]
MCThreatQuestions == {ThreatAsked(0, FALSE), ThreatAsked(1, TRUE)}
=============================================================================
