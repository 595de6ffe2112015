------------------------ MODULE MCLauncherSupervisor ------------------------
EXTENDS LauncherSupervisor, TLC
CONSTANTS bot, web

\* The bot's generations interleave with one start and one stop of the console.
Generations == bot :> 3 @@ web :> 2
=============================================================================
