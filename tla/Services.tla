------------------------------- MODULE Services -------------------------------
(***************************************************************************)
(* The services around reconcile and rebase: sessions that read Git        *)
(* objects (Sessions), forecasts that simulate a plan through them         *)
(* (Forecasts), workspaces (Workspaces), the exchange of metadata between  *)
(* clones (Exchange) and the settling of conflicts (Settling).  No two of  *)
(* them share a piece of state but the first two, which run together; each *)
(* behaviour is about one service.                                         *)
(***************************************************************************)
EXTENDS Forecasts, Workspaces, Exchange, Settling

VARIABLE service

serviceVars == <<service, sessionVars, forecastVars, workspaceVars, exchangeVars, settlingVars>>

NoForecast ==
    /\ program = <<>> /\ target = {} /\ engine = "worktree" /\ fpc = "over"
    /\ sim = Fresh /\ temp = NoTemp /\ saved = NoForecastYet
    /\ touched = FALSE /\ thrown = FALSE /\ broken = 0

NoRead == kind = "objects" /\ oldGit = FALSE /\ SessionInit /\ refAt = Missing

NoWorkspace == WorkspaceInit /\ registry = <<>>

(* No specification at all.                                                *)
NoVersion == Stage(<<>>, "spec", "missing")
NoConflict == Comparing([base |-> NoVersion, ours |-> NoVersion, theirs |-> NoVersion])

ServiceInit ==
    \/ /\ service = "reads" /\ kind = "objects" /\ oldGit = FALSE /\ SessionInit
       /\ NoForecast /\ NoWorkspace /\ ExchangeInit /\ NoConflict
    \/ service = "forecast" /\ ForecastInit /\ NoWorkspace /\ ExchangeInit /\ NoConflict
    \/ service = "workspaces" /\ NoRead /\ NoForecast /\ WorkspaceInit /\ ExchangeInit /\ NoConflict
    \/ service = "exchange" /\ NoRead /\ NoForecast /\ NoWorkspace /\ ExchangeInit /\ NoConflict
    \/ service = "conflicts" /\ NoRead /\ NoForecast /\ NoWorkspace /\ ExchangeInit /\ SettlingInit

Reads ==
    /\ service = "reads" /\ SessionNext
    /\ UNCHANGED <<service, forecastVars, workspaceVars, exchangeVars, settlingVars>>

Forecast ==
    /\ service = "forecast" /\ ForecastNext
    /\ UNCHANGED <<service, workspaceVars, exchangeVars, settlingVars>>

WorkspaceCommands ==
    /\ service = "workspaces" /\ WorkspaceNext
    /\ UNCHANGED <<service, sessionVars, forecastVars, exchangeVars, settlingVars>>

Exchanges ==
    /\ service = "exchange" /\ ExchangeNext
    /\ UNCHANGED <<service, sessionVars, forecastVars, workspaceVars, settlingVars>>

ConflictSettling ==
    /\ service = "conflicts" /\ SettlingNext
    /\ UNCHANGED <<service, sessionVars, forecastVars, workspaceVars, exchangeVars>>

ServiceNext == Reads \/ Forecast \/ WorkspaceCommands \/ Exchanges \/ ConflictSettling

ServiceSpec == ServiceInit /\ [][ServiceNext]_serviceVars /\ ForecastFairness

ServicesTypeOK ==
    /\ service \in {"reads", "forecast", "workspaces", "exchange", "conflicts"}
    /\ SessionTypeOK /\ ForecastTypeOK /\ WorkspaceTypeOK /\ ExchangeTypeOK /\ SettlingTypeOK
=============================================================================
