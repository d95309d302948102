--------------------------- MODULE MCDiscordBotSync ---------------------------
\* DiscordBotSync over one channel with two handlers at a time.
EXTENDS DiscordBotSync, TLC

CONSTANTS t1, t2

TwoHandlers == {t1, t2}
Symmetric   == Permutations(TwoHandlers)
===============================================================================
