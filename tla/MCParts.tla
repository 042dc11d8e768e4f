------------------------------ MODULE MCParts ------------------------------
(* The parts of the program beside the tasks, the rooms and the chat's lanes, each *)
(* on a small instance: the shared database's migration, which is extended, and the *)
(* others by INSTANCE. They share no state: `part` says which of them this behaviour *)
(* is about.                                                                     *)
EXTENDS SharedSchema

CONSTANTS chrome, edge, c1, web, dash, panel1, other, main, p1, p2, gw, webA, t1, t2, s1, s2,
          none, hub, cli, plug, laneA, hook, ticker, file1, file2, urlA, urlB, g1, g2, s3, tien, hue, work, guest, home,
          own, rotation

VARIABLES
    part,           \* the part that moves
    x1, x2, x3, x4, x5, x6, x7, x8, x9, x10, x11, x12, x13, x14, x15, x16, x17, x18
                    \* its variables, in the order of the instance below; the rest, and
                    \* those of SharedSchema when another part moves, are none

-----------------------------------------------------------------------------
(* The instances. *)

Bridge == INSTANCE BrowserBridge WITH
    Browsers <- {chrome, edge}, Callers <- {c1}, Sockets <- {1, 2, 3, 4}, NoSocket <- 0,
    MaxCalls <- 2, MaxUpsets <- 1,
    sock <- x1, slot <- x2, seq <- x3, caller <- x4, ext <- x5, jobs <- x6, calls <- x7,
    restarts <- x8, upsets <- x9

Page == INSTANCE Dashboard WITH
    Methods <- {"send", "status", "tasks.list"}, DetachedMethods <- {"tasks.list"},
    MaxCalls <- 2, MaxFaults <- 2,
    asked <- x1, promise <- x2, chat <- x3, browser <- x4, local <- x5, link <- x6,
    agent <- x7, cut <- x8, faults <- x9

Hub == INSTANCE Infra WITH
    Apps <- {web}, Jobs <- {dash}, Self <- dash, Pids <- {2, 3, 4}, Requests <- {1},
    MaxActs <- 2, MaxMoves <- 1, MaxFaults <- 1,
    procs <- x1, app <- x2, dump <- x3, job <- x4, request <- x5, missed <- x6,
    acts <- x7, moves <- x8, faults <- x9

Server == INSTANCE Preview WITH
    Panel <- panel1, Other <- other, Main <- main, Found <- {"none"}, Ports <- {1},
    MaxRuns <- 2, MaxAsks <- 1, MaxChanges <- 1, MaxFaults <- 1,
    declared <- x1, run <- x2, current <- x3, listens <- x4, call <- x5, panel <- x6,
    down <- x7, overlapped <- x8, asks <- x9, changes <- x10, faults <- x11

Reply == INSTANCE Streamer WITH
    Limit <- 3, Hold <- 2, MaxUnits <- 4, MaxFails <- 1,
    buf <- x1, dirty <- x2, reason <- x3, tools <- x4, msg <- x5, rmsg <- x6, last <- x7,
    sent <- x8, inflight <- x9, pending <- x10, flush <- x11, turn <- x12, loop <- x13,
    screen <- x14, written <- x15, fails <- x16, missed <- x17, split <- x18

Own == INSTANCE OwnSchema WITH
    Openers <- {gw, dash}, Gateway <- gw, Telegram <- {t1, t2}, Web <- webA,
    Sessions <- {s1, s2}, None <- none, Found <- 0 .. 7, MaxDeaths <- 1,
    store <- x1, sess <- x2, active <- x3, conversations <- x4, bound <- x5,
    opener <- x6, torn <- x7, before <- x8, deaths <- x9

Shelf == INSTANCE Plugins WITH
    Names <- {plug}, Defaults <- {plug}, Hubs <- {hub}, Lines <- {cli}, None <- none,
    MaxVersion <- 1, MaxOps <- 2, MaxFaults <- 1,
    folder <- x1, bare <- x2, outgoing <- x3, switches <- x4, ed <- x5, gw <- x6,
    ops <- x7, faults <- x8, stale <- x9, life <- x10, had <- x11

Kit == INSTANCE PluginKit WITH
    Last <- 3, Forge <- 9,
    manifest <- x1, status <- x2, first <- x3, passes <- x4, done <- x5

HookList ==
    {[act |-> "allow", closed |-> FALSE, match |-> TRUE],
     [act |-> "deny", closed |-> FALSE, match |-> FALSE],
     [act |-> "deny", closed |-> FALSE, match |-> TRUE],
     [act |-> "fail", closed |-> TRUE, match |-> TRUE],
     [act |-> "hang", closed |-> FALSE, match |-> TRUE]}

Hooks == INSTANCE PluginHooks WITH
    Behaviours <- HookList, MaxHooks <- 4, Timeout <- 2, Slack <- 2, Drain <- 1,
    event <- x1, hooks <- x2, at <- x3, spent <- x4, answer <- x5

Talks == INSTANCE Sessions WITH
    Lanes <- {laneA}, Commands <- {hook}, Timer <- ticker, MaxSeq <- 2, Cap <- 2, MaxChanges <- 1,
    MaxFaults <- 1,
    chat <- x1, mu <- x2, timer <- x3, rows <- x4, state <- x5, spoke <- x6, saver <- x7,
    worker <- x8, quiet <- x9, faults <- x10

Editor == INSTANCE ProjectEditor WITH
    Paths <- {file1, file2}, Slots <- {1, 2}, MaxEdits <- 2, MaxAsks <- 3, MaxWrites <- 2,
    files <- x1, clock <- x2, typed <- x3, tabs <- x4, requests <- x5, asks <- x6,
    races <- x7

C(url, link_, id, price, perM2) ==
    [url |-> url, link |-> link_, id |-> id, price |-> price, perM2 |-> perM2]

Sites ==
    {<<<<C(urlA, urlA, 1, 1, FALSE), C(none, urlA, 2, 1, FALSE), C(urlB, urlA, 1, 3, TRUE)>>,
       <<C(none, urlB, 1, 1, FALSE), C(urlA, urlB, 1, 3, FALSE)>>,
       <<C(urlB, urlA, 1, 0, FALSE)>>,
       <<C(urlA, urlA, 0, 1, FALSE), C(urlB, urlA, 2, 3, FALSE)>>>>,
     <<<<C(urlB, urlA, 1, 2, FALSE)>>, <<>>, <<C(urlA, urlA, 1, 3, FALSE), C(urlA, urlA, 1, 1, FALSE)>>,
       <<C(urlB, urlB, 1, 2, FALSE)>>>>}

Crawl == INSTANCE Crawler WITH
    NoUrl <- none, Pages <- 1 .. 4, SourceOf <- <<"inhadat", "homedy", "batdongsan", "chotot">>,
    Worlds <- Sites, Budget <- 2, MaxRuns <- 2, MaxFaults <- 1,
    site <- x1, chrome <- x2, page <- x3, seen <- x4, results <- x5, at <- x6,
    rows <- x7, runs <- x8, faults <- x9

Dirs == [x \in {work, guest, tien, hue} |-> IF x = work THEN own ELSE home]

OnTien == [pin |-> tien, named |-> TRUE, conv |-> [dir |-> home, pinned |-> TRUE]]

Fresh == [pin |-> none, named |-> FALSE, conv |-> [dir |-> none, pinned |-> FALSE]]

Pool == INSTANCE CredentialPool WITH
    Agents <- {g1, g2}, Sessions <- {s1, s3}, None <- none, Rotation <- rotation,
    AgentOf <- [s \in {s1, s3} |-> IF s = s3 THEN g2 ELSE g1],
    Accounts <- <<work, guest, tien, hue>>, Stored <- {tien, hue}, Dir <- Dirs,
    OptedOut <- {guest}, Blank <- {}, Login <- {work},
    KeyOf <- [x \in {work, guest, tien, hue} |-> x], Default <- home, RotateEvery <- 1,
    MaxTokenFailovers <- 1, Caps <- {1}, MaxNow <- 1, MaxTurns <- 2, MaxUpsets <- 1,
    Before <- {[s \in {s1, s3} |-> IF s = s1 THEN OnTien ELSE Fresh]},
    now <- x1, file <- x2, pool <- x3, row <- x4, load <- x5, sess <- x6, turn <- x7,
    left <- x8

Clients == INSTANCE Backends WITH
    MaxTokenFailovers <- 1, MaxAutoContinue <- 1, MaxTurns <- 2, MaxFaults <- 2,
    MaxSwitches <- 1, MaxResets <- 1,
    llm <- x1, sess <- x2, kept <- x3, convs <- x4, lost <- x5, call <- x6, turns <- x7,
    faults <- x8, switches <- x9, resets <- x10, gone <- x11, torn <- x12

Told == INSTANCE ProgressLine WITH
    Gateways <- {g1, g2}, None <- none, Homes <- {"thread", "child", "nowhere"},
    Creators <- {g1}, MaxAttempts <- 2, MaxRuns <- 2, MaxFaults <- 1,
    creator <- x1, home <- x2, bind <- x3, task <- x4, threads <- x5, room <- x6,
    run <- x7, gate <- x8, report <- x9, faults <- x10, early <- x11

Letterbox == INSTANCE TaskMail WITH
    Agents <- {g1, g2}, Readers <- {g1}, Tasks <- {t1}, None <- none, Window <- 1,
    MentionsPerSweep <- 1, MaxLines <- 2, MaxReads <- 2, MaxFaults <- 1,
    lines <- x1, unread <- x2, read <- x3, runner <- x4, watcher <- x5, shell <- x6,
    told <- x7, over <- x8, reads <- x9, faults <- x10

ASSUME
    /\ Bridge!BrowserBridgeConstants /\ Page!DashboardConstants /\ Hub!InfraConstants
    /\ Server!PreviewConstants /\ Editor!EditorConstants /\ Crawl!CrawlerConstants
    /\ Pool!PoolConstants /\ Clients!BackendsConstants /\ Told!ProgressLineConstants /\ Reply!StreamerConstants
    /\ Letterbox!TaskMailConstants /\ Talks!SessionsConstants /\ Own!OwnSchemaConstants
    /\ SharedSchemaConstants

-----------------------------------------------------------------------------
(* What a part does not use stays none: the variables from x6, x8, ... on, and those *)
(* of SharedSchema.                                                             *)

SharedIdle ==
    /\ version = none /\ have = none /\ meta = none /\ proc = none
    /\ letter = none /\ line = none /\ dest = none /\ crashes = none

IdleFrom13 == x13 = none /\ x14 = none /\ x15 = none /\ x16 = none /\ x17 = none /\ x18 = none
IdleFrom12 == x12 = none /\ IdleFrom13
IdleFrom11 == x11 = none /\ IdleFrom12
IdleFrom10 == x10 = none /\ IdleFrom11
IdleFrom9 == x9 = none /\ IdleFrom10
IdleFrom8 == x8 = none /\ IdleFrom9
IdleFrom6 == x6 = none /\ x7 = none /\ IdleFrom8
IdleFrom1 == x1 = none /\ x2 = none /\ x3 = none /\ x4 = none /\ x5 = none /\ IdleFrom6

from13 == <<x13, x14, x15, x16, x17, x18>>
from12 == <<x12, from13>>
from11 == <<x11, from12>>
from10 == <<x10, from11>>
from9 == <<x9, from10>>
from8 == <<x8, from9>>
from6 == <<x6, x7, from8>>
from1 == <<x1, x2, x3, x4, x5, from6>>

allVars == <<part, vars, from1>>

PartsInit ==
    \/ part = "bridge" /\ Bridge!Init /\ SharedIdle /\ IdleFrom10
    \/ part = "page" /\ Page!Init /\ SharedIdle /\ IdleFrom10
    \/ part = "hub" /\ Hub!Init /\ SharedIdle /\ IdleFrom10
    \/ part = "server" /\ Server!Init /\ SharedIdle /\ IdleFrom12
    \/ part = "reply" /\ Reply!Init /\ SharedIdle
    \/ part = "shared" /\ Init /\ IdleFrom1
    \/ part = "own" /\ Own!Init /\ SharedIdle /\ IdleFrom10
    \/ part = "shelf" /\ Shelf!Init /\ SharedIdle /\ IdleFrom12
    \/ part = "kit" /\ Kit!Init /\ SharedIdle /\ IdleFrom6
    \/ part = "hooks" /\ Hooks!Init /\ SharedIdle /\ IdleFrom6
    \/ part = "talks" /\ Talks!Init /\ SharedIdle /\ IdleFrom11
    \/ part = "editor" /\ Editor!Init /\ SharedIdle /\ IdleFrom8
    \/ part = "crawl" /\ Crawl!Init /\ SharedIdle /\ IdleFrom10
    \/ part = "pool" /\ Pool!Init /\ SharedIdle /\ IdleFrom9
    \/ part = "clients" /\ Clients!Init /\ SharedIdle /\ IdleFrom13
    \/ part = "lines" /\ Told!Init /\ SharedIdle /\ IdleFrom12
    \/ part = "mail" /\ Letterbox!Init /\ SharedIdle /\ IdleFrom11

PartsNext ==
    /\ UNCHANGED part
    /\ \/ part = "bridge" /\ UNCHANGED <<vars, from10>> /\ Bridge!Next
       \/ part = "page" /\ UNCHANGED <<vars, from10>> /\ Page!Next
       \/ part = "hub" /\ UNCHANGED <<vars, from10>> /\ Hub!Next
       \/ part = "server" /\ UNCHANGED <<vars, from12>> /\ Server!Next
       \/ part = "reply" /\ UNCHANGED vars /\ Reply!Next
       \/ part = "shared" /\ UNCHANGED from1 /\ Next
       \/ part = "own" /\ UNCHANGED <<vars, from10>> /\ Own!Next
       \/ part = "shelf" /\ UNCHANGED <<vars, from12>> /\ Shelf!Next
       \/ part = "kit" /\ UNCHANGED <<vars, from6>> /\ Kit!Next
       \/ part = "hooks" /\ UNCHANGED <<vars, from6>> /\ Hooks!Next
       \/ part = "talks" /\ UNCHANGED <<vars, from11>> /\ Talks!Next
       \/ part = "editor" /\ UNCHANGED <<vars, from8>> /\ Editor!Next
       \/ part = "crawl" /\ UNCHANGED <<vars, from10>> /\ Crawl!Next
       \/ part = "pool" /\ UNCHANGED <<vars, from9>> /\ Pool!Next
       \/ part = "clients" /\ UNCHANGED <<vars, from13>> /\ Clients!Next
       \/ part = "lines" /\ UNCHANGED <<vars, from12>> /\ Told!Next
       \/ part = "mail" /\ UNCHANGED <<vars, from11>> /\ Letterbox!Next

PartsSpec == PartsInit /\ [][PartsNext]_allVars

-----------------------------------------------------------------------------
(* What the parts promise. *)

(* Every part's own type invariant. *)
TypesOK ==
    /\ part = "bridge" => Bridge!TypeOK
    /\ part = "page" => Page!TypeOK
    /\ part = "hub" => Hub!TypeOK
    /\ part = "server" => Server!TypeOK
    /\ part = "reply" => Reply!TypeOK
    /\ part = "shared" => TypeOK
    /\ part = "own" => Own!TypeOK
    /\ part = "shelf" => Shelf!TypeOK
    /\ part = "kit" => Kit!TypeOK
    /\ part = "hooks" => Hooks!TypeOK
    /\ part = "talks" => Talks!TypeOK
    /\ part = "editor" => Editor!TypeOK
    /\ part = "crawl" => Crawl!TypeOK
    /\ part = "pool" => Pool!TypeOK
    /\ part = "clients" => Clients!TypeOK
    /\ part = "lines" => Told!TypeOK
    /\ part = "mail" => Letterbox!TypeOK

(* What was written, said or started is found again whatever failed meanwhile: the *)
(* messages and sessions an older build left (shared and own schema), a session's   *)
(* content (session/manager.go), a plugin the agent had (plugins.yaml and folders), *)
(* the whole of a streamed reply, what the owner chose to run at boot, how a task     *)
(* ended for the room that watched it, a letter for the agent it names; and nothing is *)
(* left behind: a dev server that nobody can stop, a line saying a dead run goes on     *)
(* (taskrunner/progress.go).                                                     *)
NothingIsLost ==
    /\ part = "shared" => OpensAreSafe /\ LettersTravel
    /\ part = "own" => Own!SessionsAreKept
    /\ part = "talks" => Talks!NothingUnsaved
    /\ part = "shelf" => Shelf!HeldIsFound /\ Shelf!HeldSurvives
    /\ part = "reply" => Reply!FinalIsWhole
    /\ part = "hub" => Hub!DumpFollows
    /\ part = "server" => Server!NothingIsLeftRunning
    /\ part = "lines" => Told!LinesAreLive /\ Told!EndIsTold
    /\ part = "mail" => Letterbox!ReadIsSeen

(* Two things under way at once are told apart: answers and their callers (bridge,  *)
(* page), two flushes of one reply, a line decided before a migration and a line    *)
(* after it, a chat's sessions and another's, an account's conversations and        *)
(* another's, a question and its retry, a backend's conversations and another's, a  *)
(* run's own words and the reporter's, a plugin and its namesake, the copies of a     *)
(* listing; and what many say together does not depend on their order (hooks, plugins' *)
(* needs).                                                                     *)
NothingIsMixedUp ==
    /\ part = "bridge" => Bridge!PendingIsWaitedFor /\ Bridge!AnswersAreTheirOwn
    /\ part = "page" => Page!InOneHand /\ Page!StreamIsOfThisSend
    /\ part = "reply" => Reply!OneCallAtATime
    /\ part = "shared" => NothingIsSentAgain
    /\ part = "own" => Own!ActiveIsItsOwn
    /\ part = "pool" => Pool!ResumesAtHome
    /\ part = "shelf" => Shelf!SettingsEnd
    /\ part = "kit" => Kit!KitIsGreatest
    /\ part = "hooks" => Hooks!AnswerIsOfAll
    /\ part = "editor" => Editor!CleanIsSaved
    /\ part = "clients" => /\ Clients!ResumesItsOwn /\ Clients!AskedOnce
                           /\ Clients!CarriesOnThere /\ Clients!OpensWithMemory
    /\ part = "lines" => Told!ToldByOne
    /\ part = "mail" => Letterbox!SeenOnceEach
    /\ part = "crawl" => Crawl!MergedOnce /\ Crawl!CrashNeedsTwoPages

(* No step goes over what somebody decided before it: a file changed by another, a  *)
(* tab with unsaved text, a process that is managed, a destination or an account    *)
(* taken out, a capped account, a chat's active session, a listing already kept, an  *)
(* id already given, text already shown, a conversation the chat was told to forget. *)
NobodyIsOverruled ==
    [][ /\ part = "editor" => Editor!NoBlindOverwrite /\ Editor!EditsAreAskedFor
        /\ part = "hub" => Hub!KillsStraysOnly
        /\ part = "shared" => UnboundStaysUnbound
        /\ part = "own" => Own!LiveTalkStays
        /\ part = "talks" => Talks!IdsAreFresh /\ Talks!QuestionsLand
        /\ part = "crawl" => Crawl!RowsStay
        /\ part = "clients" => Clients!ForgottenStays
        /\ part = "reply" => Reply!NothingShrinks
        /\ part = "pool" => /\ Pool!OptedOutIsNeverChosen /\ Pool!NobodyIsStranded
                            /\ Pool!KnownCapsAreAvoided /\ Pool!BenchIsNotShortened
      ]_allVars

=============================================================================
