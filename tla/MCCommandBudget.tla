-------------------------- MODULE MCCommandBudget --------------------------
EXTENDS CommandBudget

\* Every row of the table.
AllSymbols == 0..703
=============================================================================
