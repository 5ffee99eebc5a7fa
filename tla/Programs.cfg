CONSTANT Procs <- AllProcs
SPECIFICATION ProgramsSpec
INVARIANTS NothingLeaked NoStrayUse NoticedIsReported NoLostUpdate SentIsReceived AnswersItsQuery SlotIsItsChilds BuffersConserved NeverStarved
PROPERTIES EverythingArrives AcceptsAgain
