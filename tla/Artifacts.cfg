SPECIFICATION Spec
CONSTANTS
    Lines <- MCLines
    MaxLines = 7
INVARIANTS TypeOK ArtifactsAreApart PlainRepliesAreFiled
