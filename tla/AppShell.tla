------------------------------ MODULE AppShell ------------------------------
(***************************************************************************)
(* The application on a device: the service worker (sw.js) with its one    *)
(* cache, in front of the hosting that is deployed to (FrontendHosting).   *)
(* A bundle is its page (index.html), the entry script the page names, and *)
(* the chunk that the entry imports; scripts carry a hash of their content *)
(* in their names.  The worker's own script stays the same.                *)
(***************************************************************************)
EXTENDS Naturals

CONSTANTS
  Bundles,      \* what may be deployed; the first is
  Redeployed,   \* may a bundle be deployed again?
  MaxDeploys, MaxFaults,  \* bounds
  None

VARIABLES
  site,    \* the bucket: the page's bundle, its scripts, its deployment's stage
  edge,    \* what the edges may still serve: pages and scripts
  worker,  \* of the device: none, fetching the shell or its scripts, active
  cache,   \* the worker's: pages by path, scripts by name
  page,    \* the application's window
  online,
  faults   \* how much has gone wrong

hosting == <<site, edge>>
device == <<worker, cache>>
vars == <<hosting, device, page, online, faults>>

Scripts == Bundles \X {"entry", "chunk"}
ScriptsOf(b) == {<<b, "entry">>, <<b, "chunk">>}
Closed == [stage |-> "closed", bundle |-> None, configured |-> FALSE]

Init ==
  /\ \E b \in Bundles :
       site = [index |-> b, scripts |-> ScriptsOf(b), next |-> b, stage |-> "stable",
               deploys |-> 1, past |-> {b}]
  /\ edge = [pages |-> {}, scripts |-> {}]
  /\ worker = "none"
  /\ cache = [root |-> None, driver |-> None, script |-> [s \in Scripts |-> "none"]]
  /\ page = Closed
  /\ online = TRUE /\ faults = 0

Fault == faults < MaxFaults /\ faults' = faults + 1

-----------------------------------------------------------------------------
(* The deployment of another bundle: scripts, page, pruning, invalidation. *)

Upload(b) ==
  /\ site.stage = "stable" /\ site.deploys < MaxDeploys
  /\ b # site.index /\ (b \in site.past => Redeployed)
  /\ site' = [site EXCEPT !.scripts = @ \cup ScriptsOf(b), !.next = b, !.stage = "scripts",
                          !.deploys = @ + 1, !.past = @ \cup {b}]
  /\ UNCHANGED edge

UploadPage ==
  /\ site.stage = "scripts"
  /\ site' = [site EXCEPT !.index = site.next, !.stage = "page"]
  /\ UNCHANGED edge

Prune ==
  /\ site.stage = "page"
  /\ site' = [site EXCEPT !.scripts = ScriptsOf(site.index), !.stage = "pruned"]
  /\ UNCHANGED edge

Invalidate ==
  /\ site.stage = "pruned"
  /\ site' = [site EXCEPT !.stage = "stable"]
  /\ edge' = [pages |-> {}, scripts |-> {}]

Deployment == UploadPage \/ Prune \/ Invalidate
Deploys ==
  /\ Deployment \/ \E b \in Bundles : Upload(b)
  /\ UNCHANGED <<device, page, online, faults>>

\* An edge serves what it holds or fetches what is there.
Documents == {site.index} \cup edge.pages

\* What is not there is answered with the page, as a success.
Contents(s) ==
  (IF s \in site.scripts \cup edge.scripts THEN {"script"} ELSE {})
    \cup (IF s \in site.scripts THEN {} ELSE {"page"})

HoldsPage(b) == edge' = [edge EXCEPT !.pages = @ \cup {b}]
HoldsScript(s, content) ==
  edge' = IF content = "script" THEN [edge EXCEPT !.scripts = @ \cup {s}] ELSE edge

-----------------------------------------------------------------------------
(* The window.                                                             *)

Opens(b) == page' = [stage |-> "entry", bundle |-> b, configured |-> FALSE]
Blank == page' = [Closed EXCEPT !.stage = "blank"]
Launches == page.stage \in {"closed", "blank", "running"}

\* Fault: a page that is cached is not asked for.
AsksWithoutPage == worker # "active" \/ cache.root = None

\* Every navigation asks the network first.
Asks == TRUE

\* The answer is kept as the page of every path, whatever its status.
Keeps(content) == cache' = IF worker = "active" THEN [cache EXCEPT !.root = content] ELSE cache

Launch ==
  /\ Launches /\ online /\ Asks
  /\ \E b \in Documents : Opens(b) /\ HoldsPage(b) /\ Keeps(b)
  /\ UNCHANGED <<site, worker, online, faults>>

LaunchFails ==
  /\ Launches /\ online /\ Asks /\ Fault
  /\ Blank /\ Keeps("error")
  /\ UNCHANGED <<hosting, worker, online>>

\* The cache: the page of this path, which the installation put there, or that of "/".
Kept(path) == IF path = "driver" /\ cache.driver # None THEN cache.driver ELSE cache.root

LaunchCached ==
  /\ Launches /\ (online => ~Asks)
  /\ \E path \in {"driver", "other"} :
       IF worker = "active" /\ Kept(path) \in Bundles THEN Opens(Kept(path)) ELSE Blank
  /\ UNCHANGED <<hosting, device, online, faults>>

After == [entry |-> "chunk", chunk |-> "running"]

\* The configuration is asked for beside the entry, and the worker leaves it alone.
Configures(b) ==
  page' = [page EXCEPT !.stage = After[page.stage],
                       !.configured = IF page.stage = "entry" THEN b ELSE @]

Runs(content, configured) == IF content = "script" THEN Configures(configured) ELSE Blank
Wanted == <<page.bundle, page.stage>>
Loads == page.stage \in {"entry", "chunk"}
Served == worker = "active" /\ cache.script[Wanted] # "none"

LoadCached ==
  /\ Loads /\ Served
  /\ Runs(cache.script[Wanted], online)
  /\ UNCHANGED <<hosting, device, online, faults>>

\* What is fetched is kept, unless the window reads it before the cache is open and it
\* can be copied no more.
LoadFetched ==
  /\ Loads /\ ~Served /\ online
  /\ \E content \in Contents(Wanted) :
       /\ Runs(content, TRUE) /\ HoldsScript(Wanted, content)
       /\ \/ UNCHANGED cache
          \/ worker = "active" /\ cache' = [cache EXCEPT !.script[Wanted] = content]
  /\ UNCHANGED <<site, worker, online, faults>>

LoadFails ==
  /\ Loads /\ ~Served
  /\ IF online THEN Fault ELSE UNCHANGED faults
  /\ Blank
  /\ UNCHANGED <<hosting, device, online>>

-----------------------------------------------------------------------------
(* The worker, registered by the entry.                                    *)

Register ==
  /\ page.stage \in {"chunk", "running"} /\ worker = "none" /\ online
  /\ worker' = "shell"
  /\ UNCHANGED <<hosting, cache, page, online, faults>>

\* All of the shell, or nothing and another try.
AddShell ==
  /\ worker = "shell"
  /\ \/ /\ online
        /\ \E b, c \in Documents : /\ cache' = [cache EXCEPT !.root = b, !.driver = c]
                               /\ edge' = [edge EXCEPT !.pages = @ \cup {b, c}]
        /\ worker' = "scripts" /\ UNCHANGED faults
     \/ /\ IF online THEN Fault ELSE UNCHANGED faults
        /\ worker' = "none" /\ UNCHANGED <<cache, edge>>
  /\ UNCHANGED <<site, page, online>>

\* The scripts the page names, those that can be had; the worker takes over at once.
AddScripts ==
  /\ worker = "scripts"
  /\ LET s == <<cache.root, "entry">> IN
     \/ /\ online
        /\ \E content \in Contents(s) :
             cache' = [cache EXCEPT !.script[s] = content] /\ HoldsScript(s, content)
        /\ UNCHANGED faults
     \/ /\ IF online THEN Fault ELSE UNCHANGED faults
        /\ UNCHANGED <<cache, edge>>
  /\ worker' = "active"
  /\ UNCHANGED <<site, page, online>>

-----------------------------------------------------------------------------
Drop == online /\ Fault /\ online' = FALSE /\ UNCHANGED <<hosting, device, page>>
Return == ~online /\ online' = TRUE /\ UNCHANGED <<hosting, device, page, faults>>

Next ==
  \/ Deploys
  \/ Launch \/ LaunchFails \/ LaunchCached \/ LoadCached \/ LoadFetched \/ LoadFails
  \/ Register \/ AddShell \/ AddScripts
  \/ Drop \/ Return

\* A deployment is finished, the network returns, what is loaded goes on, and the driver
\* opens the application again and again.
Starts == Launch \/ LaunchCached
Works == LoadCached \/ LoadFetched \/ AddShell \/ AddScripts
Fairness ==
  /\ WF_vars(Deploys /\ site.stage # "stable") /\ WF_vars(Return)
  /\ WF_vars(Starts) /\ WF_vars(Works)

Spec == Init /\ [][Next]_vars /\ Fairness

-----------------------------------------------------------------------------
\* Whatever was cached on the way, errors and pages in place of scripts included, the
\* device comes to run what is deployed.
ShellCatchesUp == []<>(page.stage = "running" /\ page.bundle = site.index)
=============================================================================
