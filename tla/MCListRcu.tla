------------------------------ MODULE MCListRcu ------------------------------
\* The scripts that ListRcu is checked with.
EXTENDS ListRcu

C(op, book, async) == [op |-> op, id |-> book, async |-> async]

Each(op, async) == <<C(op, 1, async), C(op, 2, async)>>

\* test_example, with books 1 and 2 for its ids 0 and 1.
TestExample(async) ==
    Each("add", async) \o Each("print", async) \o Each("is_borrowed", async)
      \o Each("borrow", async) \o Each("print", async)
      \o Each("return", async) \o Each("print", async)
      \o Each("delete", async) \o Each("print", async)

MCHeads == {Books}

\* The module as it runs, and a task that prints the books meanwhile.
Reading == {"init", "look"}
ReadingScript ==
    [t \in Reading |-> IF t = "init" THEN TestExample(FALSE) \o TestExample(TRUE)
                       ELSE Each("print", TRUE)]

\* One task borrows a book while another asks is_borrowed_book.
Asking == {"borrow", "ask"}
AskingScript ==
    [t \in Asking |->
        IF t = "borrow" THEN <<C("add", 1, FALSE), C("borrow", 1, FALSE)>>
        ELSE <<C("is_borrowed", 1, FALSE)>>]
=============================================================================
