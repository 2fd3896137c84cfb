--------------------------- MODULE MCClientThreads ---------------------------
EXTENDS ClientThreads
MCShapes == {"circle", EmptyText}
MCItem(user_id) == [user_id |-> user_id, draw_id |-> 0, shape |-> "circle"]
MCDraw == InsertPackage(MCItem(0))
MCEmpty == InsertPackage([MCItem(0) EXCEPT !.shape = EmptyText])
MCUndo == UndoPackage(0)
MCBulk == BulkPackage({MCItem(1)})
MCError == [message_type |-> "ERROR"]
MCMessages ==
    [test \in BOOLEAN |-> {MCDraw, MCBulk, MCError} \union (IF test THEN {} ELSE {MCUndo, MCEmpty})]
MCUndos == [test \in BOOLEAN |-> {MCDraw, MCUndo}]
=============================================================================
