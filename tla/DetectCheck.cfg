SPECIFICATION DetectSpec
CONSTANT StatusCode = {200, 403, 404, 429, 498, 503}
PROPERTY EvidenceOnlySharpens
